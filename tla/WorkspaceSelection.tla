------------------------- MODULE WorkspaceSelection -------------------------
(* Which workspace the browser has open: the asynchronous operations of      *)
(* workspace-panel/actions/core/workspaces.ts (open the page, select, create *)
(* and delete a workspace) against the workspace API.  Every await is a      *)
(* place where another operation may run: an operation is a record in ops    *)
(* that keeps what its closure captured, and it goes on when its reply is in.*)
EXTENDS Naturals, Sequences, FiniteSets

CONSTANTS
  WorkspaceIds, \* workspace ids the API may hand out
  NoId,         \* null
  User, NoUser, \* the signed-in user and null
  Owned,        \* the workspaces the user has when the page loads
  Requested,    \* ?workspace= of the page's URL
  KnownUser,    \* the user named by ?user= or by the browser's storage
  OpSlots       \* bound: operations in flight at a time

ASSUME SelectionAssumption ==
  /\ NoId \notin WorkspaceIds /\ User # NoUser
  /\ Owned \subseteq WorkspaceIds /\ KnownUser \in {User, NoUser}
  /\ Requested \in WorkspaceIds \cup {NoId}

VARIABLES
  exists, anonymous, gone, session,     \* the API: whose workspaces there are
  userId, list, saved, workspaceId, tree, \* the panel (tree: whose files it shows)
  panelLoading, deleting, url, stored, storedAny,
  initDue, ops,
  torn                                  \* history: see SelectionAgrees

server == <<exists, anonymous, gone, session>>
panel == <<userId, list, saved, workspaceId, tree, panelLoading, deleting, url, stored, storedAny>>
selectionVars == <<server, panel, initDue, ops, torn>>

Maybe == WorkspaceIds \cup {NoId}
\* What the tree shows when a listing asked for in id comes back to another workspace.
Late(id) == [late |-> id]
Lates == {Late(w) : w \in WorkspaceIds}
NoOp == [kind |-> "idle"]
Stored == [key |-> "infinito.workspace"]  \* candidate read from storage only when its turn comes
Replies == [ok : BOOLEAN, known : BOOLEAN, ids : SUBSET WorkspaceIds, id : Maybe]
NoReply == [ok |-> FALSE, known |-> FALSE, ids |-> {}, id |-> NoId]
Op(kind, pc, id, rest) ==
  [kind |-> kind, pc |-> pc, id |-> id, rest |-> rest, user |-> userId,
   open |-> (kind = "delete" /\ id = workspaceId), answered |-> FALSE, reply |-> NoReply]
\* The operation goes on to another await.
Await(o, pc, id) == [o EXCEPT !.pc = pc, !.id = id, !.answered = FALSE, !.reply = NoReply]

SelectionTypeOK ==
  /\ exists \subseteq WorkspaceIds /\ anonymous \subseteq WorkspaceIds /\ gone \subseteq WorkspaceIds
  /\ session \in {User, NoUser} /\ userId \in {User, NoUser}
  /\ list \subseteq WorkspaceIds /\ saved \subseteq WorkspaceIds
  /\ {workspaceId, url, stored, storedAny, deleting} \subseteq Maybe /\ tree \in Maybe \cup Lates
  /\ {panelLoading, initDue, torn} \subseteq BOOLEAN
  /\ \A i \in OpSlots : ops[i] # NoOp =>
       /\ ops[i].kind \in {"init", "select", "create", "delete", "change"}
       /\ ops[i].pc \in {"list", "files", "post", "made", "relist", "delete", "listed", "change"}
       /\ ops[i].id \in Maybe /\ ops[i].reply \in Replies

SelectionInit ==
  /\ exists = Owned /\ anonymous = {} /\ gone = {}
  /\ session \in {User, NoUser}        \* bound: it lasts as long as the page
  /\ userId = KnownUser /\ list = {} /\ saved = {} /\ workspaceId = NoId
  /\ tree = NoId /\ panelLoading = FALSE /\ deleting = NoId
  /\ url = Requested /\ stored \in Owned \cup {NoId} /\ storedAny = NoId
  /\ initDue = TRUE /\ ops = [i \in OpSlots |-> NoOp] /\ torn = FALSE

------------------------------------------------------------------------------
(* The API.                                                                   *)
Unused == WorkspaceIds \ (exists \cup anonymous \cup gone)
Visible == IF session = User THEN exists ELSE anonymous

ListReply(r) ==
  /\ r \in {NoReply,                                              \* 404, 5xx, no network
            [NoReply EXCEPT !.ok = TRUE],                          \* 401, or not signed in
            [NoReply EXCEPT !.ok = TRUE, !.known = TRUE, !.ids = exists]}
  /\ r.ok => r.known = (session = User)
  /\ UNCHANGED server

FilesReply(id, r) ==
  /\ r \in {NoReply, [NoReply EXCEPT !.ok = id \in Visible]}
  /\ UNCHANGED server

\* The reply of a request that changed the API's state can be lost on its way.
PostReply(r) ==
  \/ r = NoReply /\ UNCHANGED server
  \/ \E w \in Unused :
       /\ r \in {NoReply, [NoReply EXCEPT !.ok = TRUE, !.id = w]}
       /\ exists' = exists \cup IF session = User THEN {w} ELSE {}
       /\ anonymous' = anonymous \cup IF session = User THEN {} ELSE {w}
       /\ UNCHANGED <<gone, session>>

DeleteReply(id, r) ==
  \/ r = NoReply /\ UNCHANGED server
  \/ /\ session = User /\ id \in exists
     /\ r \in {NoReply, [NoReply EXCEPT !.ok = TRUE]}
     /\ exists' = exists \ {id} /\ gone' = gone \cup {id}
     /\ UNCHANGED <<anonymous, session>>

Serve(i) ==
  /\ ops[i] # NoOp /\ ops[i].pc # "change" /\ ~ops[i].answered
  /\ \E r \in {NoReply} \cup [ok : {TRUE}, known : BOOLEAN, ids : {{}, exists}, id : Maybe] :
       /\ CASE ops[i].pc \in {"list", "relist", "listed"} -> ListReply(r)
            [] ops[i].pc \in {"files", "made"} -> FilesReply(ops[i].id, r)
            [] ops[i].pc = "post" -> PostReply(r)
            [] ops[i].pc = "delete" -> DeleteReply(ops[i].id, r)
       /\ ops' = [ops EXCEPT ![i].answered = TRUE, ![i].reply = r]
  /\ UNCHANGED <<panel, initDue, torn>>

------------------------------------------------------------------------------
(* The panel.                                                                 *)
\* A change of userId clears the list of a user who is gone and opens the page anew.
SetUser(u, ids) ==
  /\ userId' = u
  /\ list' = IF u = NoUser THEN {} ELSE ids
  /\ initDue' = (initDue \/ u # userId)

HalfMade(i) == ops[i] # NoOp /\ ops[i].pc \in {"made", "listed"}
\* Whoever changes the open workspace while a creation is half way tears it.
Tear(i) == torn' = \E j \in OpSlots \ {i} : HalfMade(j)
GoTo(i, o) == ops' = [ops EXCEPT ![i] = o]
LoadingDone(i) == GoTo(i, NoOp) /\ panelLoading' = FALSE

\* resetWorkspaceState, then the files of the workspace are asked for.
Open(i, o, id, rest) ==
  /\ GoTo(i, [Await(o, "files", id) EXCEPT !.rest = rest])
  /\ tree' = NoId /\ panelLoading' = TRUE
  /\ UNCHANGED <<workspaceId, url, stored>>

Post(i, o) ==
  /\ GoTo(i, [Await(o, "post", NoId) EXCEPT !.kind = "create", !.rest = <<>>])
  /\ panelLoading' = TRUE
  /\ UNCHANGED <<workspaceId, tree, url, stored>>

\* The candidates of initWorkspace in turn (the head of rest is the one asked
\* for); when none opens, a new workspace.
TryNextUnread(i, o, rest) ==  \* (Defect: the placeholder is opened, not what is stored.)
  IF rest = <<>> THEN Post(i, o) ELSE Open(i, o, Head(rest), rest)
TryNext(i, o, rest) ==
  LET next == IF rest = <<>> THEN NoId
              ELSE IF Head(rest) = Stored THEN storedAny ELSE Head(rest)
  IN IF next = NoId THEN Post(i, o) ELSE Open(i, o, next, rest)

Candidates(w) == IF w = NoId THEN <<>> ELSE <<w>>  \* none for null

InitWorkspace(i) ==
  /\ initDue /\ ops[i] = NoOp
  /\ initDue' = FALSE /\ panelLoading' = TRUE
  /\ GoTo(i, Op("init", "list", url, <<>>))
  /\ UNCHANGED <<server, userId, list, saved, workspaceId, tree, deleting, url, stored, storedAny, torn>>

SelectWorkspace(i, w) ==
  /\ ops[i] = NoOp /\ userId # NoUser /\ w \in list
  /\ Open(i, Op("select", "files", w, <<>>), w, <<>>)
  /\ UNCHANGED <<server, userId, list, saved, deleting, storedAny, initDue, torn>>

CreateWorkspace(i) ==
  /\ ops[i] = NoOp /\ userId # NoUser
  /\ Post(i, Op("create", "post", NoId, <<>>))
  /\ UNCHANGED <<server, userId, list, saved, deleting, storedAny, initDue, torn>>

DeleteWorkspace(i, w) ==
  /\ ops[i] = NoOp /\ userId # NoUser
  /\ w \in (list \cup {workspaceId}) \ {NoId} /\ deleting # w
  /\ deleting' = w
  /\ GoTo(i, Op("delete", "delete", w, <<>>))
  /\ UNCHANGED <<server, userId, list, saved, workspaceId, tree, panelLoading, url, stored, storedAny,
                 initDue, torn>>

\* A file operation (save, create, rename, delete, upload, restore, key pair, the
\* users table, ...) begins: its closure keeps the workspace for its request and
\* for the listing after it, one await here.  Where the API shows nothing, it fails.
ChangeFiles(i) ==
  /\ ops[i] = NoOp /\ workspaceId \in Visible
  /\ GoTo(i, Op("change", "change", workspaceId, <<>>))
  /\ UNCHANGED <<server, panel, initDue, torn>>

------------------------------------------------------------------------------
(* What follows each await.                                                   *)
Answered(i, pc) == ops[i] # NoOp /\ ops[i].pc = pc /\ ops[i].answered

\* The file list, the URL and the workspace of an operation become what the panel shows.
ShowOldUrl(id) == workspaceId' = id /\ tree' = id /\ UNCHANGED url  \* (Defect.)
Show(id) == workspaceId' = id /\ tree' = id /\ url' = id
\* No workspace is open any more.
Close == workspaceId' = NoId /\ tree' = NoId /\ url' = NoId

\* initWorkspace with the list of a signed-in user.
InitSignedIn(i) ==
  LET o == ops[i] IN
  /\ Answered(i, "list") /\ o.reply.known
  /\ SetUser(User, o.reply.ids) /\ saved' = o.reply.ids
  /\ \/ /\ o.reply.ids = {}
        /\ Close /\ stored' = NoId /\ LoadingDone(i) /\ Tear(i)
     \/ \E first \in o.reply.ids :
          TryNext(i, o, Candidates(o.id) \o Candidates(stored) \o Candidates(first)) /\ UNCHANGED torn
  /\ UNCHANGED <<server, deleting, storedAny>>

\* initWorkspace, the API answers that nobody is signed in.
InitSignedOut(i) ==
  /\ Answered(i, "list") /\ ops[i].reply.ok /\ ~ops[i].reply.known /\ ops[i].user # NoUser
  /\ SetUser(NoUser, {}) /\ LoadingDone(i)
  /\ UNCHANGED <<server, saved, workspaceId, tree, deleting, url, stored, storedAny, torn>>

\* initWorkspace, the API cannot list: the list this browser saved for the user.
InitOffline(i) ==
  LET o == ops[i] IN
  /\ Answered(i, "list") /\ ~o.reply.ok /\ o.user # NoUser
  /\ list' = IF userId = NoUser THEN {} ELSE saved
  /\ \E first \in IF saved = {} THEN {NoId} ELSE saved :
       TryNext(i, o, Candidates(o.id) \o Candidates(stored) \o Candidates(first))
  /\ UNCHANGED <<server, userId, saved, deleting, storedAny, initDue, torn>>

\* initWorkspace of a browser that knows no user.
InitAnonymous(i) ==
  LET o == ops[i] IN
  /\ Answered(i, "list") /\ ~o.reply.known /\ o.user = NoUser
  /\ list' = IF o.reply.ok THEN {} ELSE list
  /\ TryNext(i, o, Candidates(o.id) \o <<Stored>>)
  /\ UNCHANGED <<server, userId, saved, deleting, storedAny, initDue, torn>>

\* selectWorkspace: refreshFiles(id) resolved.
Opened(i) ==
  LET o == ops[i] IN
  /\ Answered(i, "files") /\ o.reply.ok
  /\ Show(o.id) /\ storedAny' = o.id
  /\ stored' = IF o.user # NoUser THEN o.id ELSE stored
  /\ deleting' = IF o.kind = "delete" THEN NoId ELSE deleting
  /\ LoadingDone(i) /\ Tear(i)
  /\ UNCHANGED <<server, userId, list, saved, initDue>>

\* selectWorkspace: refreshFiles(id) rejected; initWorkspace goes on to its next candidate.
NotOpened(i) ==
  LET o == ops[i] IN
  /\ Answered(i, "files") /\ ~o.reply.ok
  /\ \/ /\ o.kind = "init"
        /\ storedAny' = IF Head(o.rest) = Stored THEN NoId ELSE storedAny
        /\ TryNext(i, o, Tail(o.rest)) /\ UNCHANGED deleting
     \/ /\ o.kind # "init"
        /\ deleting' = IF o.kind = "delete" THEN NoId ELSE deleting
        /\ LoadingDone(i) /\ UNCHANGED <<workspaceId, tree, url, stored, storedAny>>
  /\ UNCHANGED <<server, userId, list, saved, initDue, torn>>

\* createWorkspace: the POST came back; the new workspace is current before its
\* files are read.
Created(i) ==
  LET o == ops[i] IN
  /\ Answered(i, "post")
  /\ \/ /\ o.reply.ok
        /\ workspaceId' = o.reply.id /\ tree' = NoId
        /\ GoTo(i, Await(o, "made", o.reply.id))
        /\ Tear(i) /\ UNCHANGED panelLoading
     \/ /\ ~o.reply.ok
        /\ LoadingDone(i) /\ UNCHANGED <<workspaceId, tree, torn>>
  /\ UNCHANGED <<server, userId, list, saved, deleting, url, stored, storedAny, initDue>>

\* createWorkspace: refreshFiles; when it fails the URL still names the workspace before.
CreatedFiles(i) ==
  LET o == ops[i] IN
  /\ Answered(i, "made")
  /\ \/ /\ o.reply.ok
        /\ tree' = o.id /\ GoTo(i, Await(o, "listed", o.id))
        /\ UNCHANGED <<panelLoading, torn>>
     \/ /\ ~o.reply.ok
        /\ LoadingDone(i) /\ torn' = TRUE /\ UNCHANGED tree
  /\ UNCHANGED <<server, userId, list, saved, workspaceId, deleting, url, stored, storedAny, initDue>>

\* createWorkspace: the list was read again; rememberWorkspace without an API list.
CreatedListed(i) ==
  LET o == ops[i]
      offline == ~o.reply.ok /\ o.user # NoUser
  IN
  /\ Answered(i, "listed")
  /\ \/ /\ o.reply.known /\ SetUser(User, o.reply.ids) /\ saved' = o.reply.ids
     \/ /\ ~o.reply.known /\ o.reply.ok /\ list' = {} /\ UNCHANGED <<userId, saved, initDue>>
     \/ /\ offline
        /\ list' = IF userId = NoUser THEN {} ELSE list \cup {o.id}
        /\ saved' = list \cup {o.id} /\ UNCHANGED <<userId, initDue>>
     \/ /\ ~o.reply.ok /\ ~offline /\ UNCHANGED <<userId, list, saved, initDue>>
  /\ stored' = IF o.reply.known \/ offline THEN o.id ELSE stored
  /\ storedAny' = IF offline THEN storedAny ELSE o.id
  /\ url' = o.id /\ LoadingDone(i)
  /\ UNCHANGED <<server, workspaceId, tree, deleting, torn>>

\* deleteWorkspace: the DELETE came back; a refusal and a lost reply look alike.
Deleted(i) ==
  LET o == ops[i] IN
  /\ Answered(i, "delete")
  /\ \/ /\ o.reply.ok
        /\ GoTo(i, Await(o, "relist", o.id))
        /\ UNCHANGED deleting
     \/ /\ ~o.reply.ok
        /\ deleting' = NoId /\ GoTo(i, NoOp)
  /\ UNCHANGED <<server, userId, list, saved, workspaceId, tree, panelLoading, url, stored, storedAny,
                 initDue, torn>>

\* deleteWorkspace: the list without the workspace; when it was the one open as
\* the deletion began, the panel closes it and opens another one of the list.
DeletedListed(i) ==
  LET o == ops[i] IN
  /\ Answered(i, "relist")
  /\ \/ /\ o.reply.known /\ SetUser(User, o.reply.ids) /\ saved' = o.reply.ids
     \/ /\ ~o.reply.known /\ o.reply.ok /\ list' = {} /\ UNCHANGED <<userId, saved, initDue>>
     \/ /\ ~o.reply.ok /\ o.user # NoUser
        /\ list' = list \ {o.id} /\ saved' = list \ {o.id} /\ UNCHANGED <<userId, initDue>>
     \/ /\ ~o.reply.ok /\ o.user = NoUser /\ UNCHANGED <<userId, list, saved, initDue>>
  /\ \/ /\ ~o.open
        /\ stored' = IF o.user # NoUser /\ stored = o.id THEN NoId ELSE stored
        /\ deleting' = NoId /\ GoTo(i, NoOp)
        /\ UNCHANGED <<workspaceId, tree, url, panelLoading, torn>>
     \/ /\ o.open /\ Close /\ Tear(i)
        /\ stored' = IF o.user # NoUser THEN NoId ELSE stored
        /\ \/ /\ o.reply.ids \ {o.id} = {}
              /\ deleting' = NoId /\ GoTo(i, NoOp) /\ UNCHANGED panelLoading
           \/ \E w \in o.reply.ids \ {o.id} :
                /\ GoTo(i, Await(o, "files", w))
                /\ panelLoading' = TRUE /\ UNCHANGED deleting
  /\ UNCHANGED <<server, storedAny>>

\* A file operation is done: refreshFiles shows its listing, whatever is open
\* now; or one of its requests failed.
FilesChanged(i) ==
  LET o == ops[i] IN
  /\ o # NoOp /\ o.pc = "change"
  /\ tree' \in {tree, IF o.id = workspaceId THEN o.id ELSE Late(o.id)}
  /\ GoTo(i, NoOp)
  /\ UNCHANGED <<server, userId, list, saved, workspaceId, panelLoading, deleting, url, stored,
                 storedAny, initDue, torn>>

\* A storage or account-session-updated event: the user this browser remembers.
SessionSync ==
  /\ userId' = KnownUser
  /\ list' = IF KnownUser = NoUser THEN {} ELSE list
  /\ initDue' = (initDue \/ userId # KnownUser)
  /\ UNCHANGED <<server, saved, workspaceId, tree, panelLoading, deleting, url, stored, storedAny, ops, torn>>

Continue(i) ==
  \/ InitSignedIn(i) \/ InitSignedOut(i) \/ InitOffline(i) \/ InitAnonymous(i)
  \/ Opened(i) \/ NotOpened(i)
  \/ Created(i) \/ CreatedFiles(i) \/ CreatedListed(i)
  \/ Deleted(i) \/ DeletedListed(i)
  \/ FilesChanged(i)

SelectionNext ==
  \/ SessionSync
  \/ \E i \in OpSlots :
       \/ Serve(i) \/ Continue(i) \/ InitWorkspace(i) \/ CreateWorkspace(i) \/ ChangeFiles(i)
       \/ \E w \in WorkspaceIds : SelectWorkspace(i, w) \/ DeleteWorkspace(i, w)

SelectionSpec == SelectionInit /\ [][SelectionNext]_selectionVars

------------------------------------------------------------------------------
(* The URL a user would share, the workspace the panel works on and the file *)
(* tree it shows are of one workspace, however the replies interleave        *)
(* (updateWorkspaceUrl, setWorkspaceId, setFiles).  Two things take them     *)
(* apart: a creation that was overtaken, or that failed half way; and, for   *)
(* the tree alone until the next workspace is opened, a file operation that  *)
(* ended after the page had moved on.                                        *)
SelectionAgrees ==
  (workspaceId # NoId /\ ~torn /\ \A i \in OpSlots : ~HalfMade(i)) =>
    /\ url = workspaceId
    /\ tree \in {NoId, workspaceId} \cup {Late(w) : w \in WorkspaceIds \ {workspaceId}}
=============================================================================
