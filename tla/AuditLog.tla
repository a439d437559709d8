------------------------------ MODULE AuditLog ------------------------------
(* The audit log of the workspaces: the settings that say which requests are *)
(* logged, kept in the database and in a cache of the API, the queue and the *)
(* worker that store events (audit_logs_query.py, audit_logs_bootstrap.py),  *)
(* and the panel that searches the log and changes the settings              *)
(* (AuditLogsPanel.tsx).  The age of events is left out.                     *)
EXTENDS Integers, Sequences, FiniteSets

CONSTANTS
  AuditSpaces,  \* workspaces
  NoAudit,      \* no workspace, no settings
  AuditSettings,  \* what may be set: log all requests or one kind, health endpoints or not
  RequestKinds, \* requests that may be logged, each the set of its kinds
  FilterValues, \* values of the filter fields
  NoFilter,     \* the fields of DEFAULT_FILTERS
  MaxPage,      \* bound: pages of a result
  QueueMax,     \* maxsize of the queue
  BatchMax,     \* events of a batch
  MaxAudits     \* bound: actions of users, and requests that may be logged

\* DEFAULT_CONFIG, and the one of a workspace without a row.
Defaults == [mode |-> "all", quiet |-> FALSE]

ASSUME AuditAssumption ==
  /\ Defaults \in AuditSettings /\ NoAudit \notin AuditSpaces \cup AuditSettings
  /\ AuditSettings \subseteq
       [mode : {"all", "writes", "auth", "deployments", "errors"}, quiet : BOOLEAN]
  /\ NoFilter \in FilterValues
  /\ \A n \in {MaxPage, QueueMax, BatchMax} : n \in Nat \ {0}
  /\ MaxAudits \in Nat

VARIABLES
  rows,       \* audit_log_config
  known,      \* _config_cache
  updates,    \* requests that change the settings
  readers,    \* requests that look up how they are to be logged, after a miss of the cache
  queue, batch, spilled, stored,  \* events: _queue, of the worker, of own threads, of the table
  resolved,   \* resolvedWorkspaceId
  filters, page, loads, shown,    \* of the panel's table, and the query whose entries it shows
  form,       \* config and draftConfig
  loading, failed, saving,
  audits,     \* actions and requests so far
  logged, lost,  \* history: events put into the queue, and those dropped on a failure
  disturbed   \* history: workspaces whose settings changed while another request used them

auditVars == <<rows, known, updates, readers, queue, batch, spilled, stored, resolved, filters,
               page, loads, shown, form, loading, failed, saving, audits, logged, lost,
               disturbed>>
eventVars == <<queue, batch, spilled, stored, logged, lost>>
settingsVars == <<rows, known, updates, readers, disturbed>>
tableVars == <<filters, page, shown, failed>>
panelVars == <<resolved, tableVars, loads, form, loading, saving>>

RowOf(w) == IF rows[w] = NoAudit THEN Defaults ELSE rows[w]

Once == audits < MaxAudits /\ audits' = audits + 1

\* One load of the panel; it is answered in vain once it is no longer live.
Query(w, s, p) == [space |-> w, filters |-> s, page |-> p, got |-> NoAudit, at |-> "sent",
                  live |-> TRUE]
Retired == {[l EXCEPT !.live = FALSE] : l \in loads}

\* The effect that loads: without a workspace it only ends the load before it,
\* and loading stays as it is.
LoadLog(w, s, p) ==
  IF w = NoAudit THEN loads' = Retired /\ UNCHANGED <<loading, failed>>
  ELSE loads' = Retired \cup {Query(w, s, p)} /\ loading' = TRUE /\ failed' = FALSE

AuditInit ==
  /\ rows = [w \in AuditSpaces |-> NoAudit] /\ known = rows
  /\ updates = {} /\ readers = {}
  /\ queue = <<>> /\ batch = <<>> /\ spilled = {} /\ stored = {}
  /\ resolved = CHOOSE w \in AuditSpaces : TRUE
  /\ filters = NoFilter /\ page = 1 /\ shown = NoAudit
  /\ loads = {Query(resolved, filters, page)}
  /\ form = [of |-> NoAudit, config |-> Defaults, draft |-> Defaults]
  /\ loading = TRUE /\ failed = FALSE /\ saving = FALSE
  /\ audits = 0 /\ logged = {} /\ lost = {} /\ disturbed = {}

-----------------------------------------------------------------------------
(* The settings at the API.                                                  *)

ReadingOf(w) == {l \in loads : l.at = "read" /\ l.space = w} \cup {r \in readers : r.space = w}
Storing(w) == {u \in updates : u.at = "committed" /\ u.space = w}

\* update_config: the row is committed, and the cache set afterwards.
CommitUpdate(u) ==
  /\ u \in updates /\ u.at = "sent"
  /\ rows' = [rows EXCEPT ![u.space] = u.config]
  /\ updates' = (updates \ {u}) \cup {[u EXCEPT !.at = "committed"]}
  /\ disturbed' = IF ReadingOf(u.space) \cup Storing(u.space) = {} THEN disturbed
                  ELSE disturbed \cup {u.space}
  /\ UNCHANGED <<eventVars, panelVars, known, readers, audits>>

\* (Defect: the cache is left as it was.)
StoreNothing(u) ==
  /\ u \in updates /\ u.at = "committed"
  /\ updates' = (updates \ {u}) \cup (IF u.by = "panel" THEN {[u EXCEPT !.at = "stored"]} ELSE {})
  /\ UNCHANGED <<eventVars, panelVars, rows, known, readers, audits, disturbed>>

StoreUpdate(u) ==
  /\ u \in updates /\ u.at = "committed"
  /\ known' = [known EXCEPT ![u.space] = u.config]
  /\ updates' = (updates \ {u}) \cup (IF u.by = "panel" THEN {[u EXCEPT !.at = "stored"]} ELSE {})
  /\ UNCHANGED <<eventVars, panelVars, rows, readers, audits, disturbed>>

\* get_config for a load: from the cache or, in two steps, from the row.
ServeConfig(l) ==
  /\ l \in loads /\ l.at = "sent"
  /\ loads' = (loads \ {l}) \cup
       {IF known[l.space] = NoAudit THEN [l EXCEPT !.at = "read", !.got = RowOf(l.space)]
        ELSE [l EXCEPT !.at = "answered", !.got = known[l.space]]}
  /\ UNCHANGED <<settingsVars, eventVars, tableVars, resolved, form, loading, saving,
                 audits>>

StoreRead(l) ==
  /\ l \in loads /\ l.at = "read"
  /\ known' = [known EXCEPT ![l.space] = l.got]
  /\ loads' = (loads \ {l}) \cup {[l EXCEPT !.at = "answered"]}
  /\ UNCHANGED <<eventVars, tableVars, rows, updates, readers, resolved, form,
                 loading, saving, audits, disturbed>>

\* Another window, or another member.
OtherUpdate(w, c) ==
  /\ Once
  /\ updates' = updates \cup {[space |-> w, config |-> c, by |-> "other", at |-> "sent"]}
  /\ UNCHANGED <<eventVars, panelVars, rows, known, readers, disturbed>>

-----------------------------------------------------------------------------
(* Events at the API.                                                        *)

\* should_log_event.
Logs(config, request) ==
  /\ ~(config.quiet /\ "health" \in request)
  /\ config.mode = "all" \/ config.mode \in request

\* enqueue_event: an event that finds the queue full is inserted by a thread of
\* its own.
Enqueue(e) ==
  /\ logged' = logged \cup {e}
  /\ IF Len(queue) < QueueMax THEN queue' = Append(queue, e) /\ UNCHANGED spilled
     ELSE spilled' = spilled \cup {e} /\ UNCHANGED queue
  /\ UNCHANGED <<batch, stored, lost>>

Judge(e, config, request) ==
  IF Logs(config, request) THEN Enqueue(e) ELSE UNCHANGED eventVars

\* build_event, once the request has been carried out.
AuditRequest(w, request) ==
  /\ Once
  /\ IF known[w] = NoAudit
     THEN /\ readers' = readers \cup
               {[event |-> audits, space |-> w, request |-> request, got |-> RowOf(w)]}
          /\ UNCHANGED eventVars
     ELSE Judge(audits, known[w], request) /\ UNCHANGED readers
  /\ UNCHANGED <<panelVars, rows, known, updates, disturbed>>

EventRead(r) ==
  /\ r \in readers
  /\ known' = [known EXCEPT ![r.space] = r.got]
  /\ Judge(r.event, r.got, r.request)
  /\ readers' = readers \ {r}
  /\ UNCHANGED <<panelVars, rows, updates, audits, disturbed>>

\* _worker_loop.
TakeBatch ==
  /\ batch = <<>> /\ queue # <<>>
  /\ LET n == IF Len(queue) < BatchMax THEN Len(queue) ELSE BatchMax
     IN  batch' = SubSeq(queue, 1, n) /\ queue' = SubSeq(queue, n + 1, Len(queue))
  /\ UNCHANGED <<settingsVars, panelVars, spilled, stored, logged, lost, audits>>

Keep(events, works) ==
  IF works THEN stored' = stored \cup events /\ UNCHANGED lost
  ELSE lost' = lost \cup events /\ UNCHANGED stored

\* _insert_batch: what cannot be inserted is dropped.
InsertBatch(works) ==
  /\ batch # <<>>
  /\ Keep({batch[i] : i \in DOMAIN batch}, works)
  /\ batch' = <<>>
  /\ UNCHANGED <<settingsVars, panelVars, queue, spilled, logged, audits>>

InsertSpilled(e, works) ==
  /\ e \in spilled
  /\ Keep({e}, works)
  /\ spilled' = spilled \ {e}
  /\ UNCHANGED <<settingsVars, panelVars, queue, batch, logged, audits>>

\* The API restarts: only the database is left, and every request fails.
RestartApi ==
  /\ Once
  /\ known' = [w \in AuditSpaces |-> NoAudit]
  /\ updates' = {} /\ readers' = {} /\ loads' = {}
  /\ queue' = <<>> /\ batch' = <<>> /\ spilled' = {}
  /\ lost' = logged \ stored
  /\ failed' = (failed \/ \E l \in loads : l.live)
  /\ loading' = (loading /\ ~\E l \in loads : l.live)
  /\ saving' = FALSE
  /\ disturbed' = {}
  /\ UNCHANGED <<rows, stored, logged, resolved, filters, page, shown, form>>

-----------------------------------------------------------------------------
(* The panel.                                                                *)

\* What an answered load sets; the entries were asked for after the settings.
ShowLog(l) ==
  /\ shown' = [space |-> l.space, filters |-> l.filters, page |-> l.page]
  /\ form' = [of |-> l.space, config |-> l.got, draft |-> l.got]
  /\ loading' = FALSE
  /\ loads' = loads \ {l}
  /\ UNCHANGED <<settingsVars, eventVars, resolved, filters, page, failed, saving, audits>>

\* (Defect: a load that was ended is shown.)
LogShown(l) == l \in loads /\ l.at = "answered" /\ ShowLog(l)

LogAnswered(l) ==
  /\ l \in loads /\ l.at = "answered"
  /\ IF l.live THEN ShowLog(l)
     ELSE /\ loads' = loads \ {l}
          /\ UNCHANGED <<settingsVars, eventVars, tableVars, resolved, form, loading,
                         saving, audits>>

\* The table keeps what it showed, and hides it.
LogFailed(l) ==
  /\ l \in loads /\ l.at # "read" /\ l.live
  /\ loads' = loads \ {l}
  /\ failed' = TRUE /\ loading' = FALSE
  /\ UNCHANGED <<settingsVars, eventVars, resolved, filters, page, shown, form, saving,
                 audits>>

\* A filter field: the table is loaded again with the page of before, and the
\* effect after it goes to page 1.
SetFilter(s) ==
  /\ Once /\ s # filters
  /\ filters' = s /\ page' = 1
  /\ IF resolved = NoAudit THEN loads' = Retired /\ UNCHANGED <<loading, failed>>
     ELSE /\ loads' = Retired \cup {Query(resolved, s, 1)} \cup
                      (IF page = 1 THEN {} ELSE {[Query(resolved, s, page) EXCEPT !.live = FALSE]})
          /\ loading' = TRUE /\ failed' = FALSE
  /\ UNCHANGED <<settingsVars, eventVars, resolved, shown, form, saving>>

ResetFilters ==
  /\ Once
  /\ filters' = NoFilter /\ page' = 1
  /\ LoadLog(resolved, NoFilter, 1)
  /\ UNCHANGED <<settingsVars, eventVars, resolved, shown, form, saving>>

\* Previous and Next, of the total that was shown last.
GoToPage(p) ==
  /\ Once /\ p \in {page - 1, page + 1} /\ shown # NoAudit
  /\ page' = p
  /\ LoadLog(resolved, filters, p)
  /\ UNCHANGED <<settingsVars, eventVars, resolved, filters, shown, form, saving>>

\* Settings are typed, or all are taken back, whatever they were loaded for.
TypeSettings(c) ==
  /\ Once /\ c # form.draft
  /\ form' = [form EXCEPT !.draft = c]
  /\ UNCHANGED <<settingsVars, eventVars, tableVars, resolved, loads, loading, saving>>

CancelSettings ==
  /\ Once /\ ~saving /\ form.draft # form.config
  /\ form' = [form EXCEPT !.draft = form.config]
  /\ UNCHANGED <<settingsVars, eventVars, tableVars, resolved, loads, loading, saving>>

SaveSettings ==
  /\ Once /\ ~saving /\ resolved # NoAudit
  /\ saving' = TRUE
  /\ updates' = updates \cup {[space |-> resolved, config |-> form.draft, by |-> "panel", at |-> "sent"]}
  /\ UNCHANGED <<eventVars, tableVars, rows, known, readers, resolved, loads, form,
                 loading, disturbed>>

\* The answer sets the settings, and loads the table, of whatever workspace.
SaveAnswered(u) ==
  /\ u \in updates /\ u.by = "panel" /\ u.at = "stored"
  /\ updates' = updates \ {u}
  /\ form' = [of |-> u.space, config |-> u.config, draft |-> u.config]
  /\ saving' = FALSE
  /\ LoadLog(resolved, filters, page)
  /\ UNCHANGED <<eventVars, rows, known, readers, resolved, filters, page, shown,
                 audits, disturbed>>

\* The request is refused, or its answer is lost.
SaveFailed(u) ==
  /\ u \in updates /\ u.by = "panel" /\ u.at \in {"sent", "stored"}
  /\ updates' = updates \ {u}
  /\ saving' = FALSE
  /\ UNCHANGED <<eventVars, tableVars, rows, known, readers, resolved, loads, form,
                 loading, audits, disturbed>>

\* Another workspace, or none, is opened in the workspace panel.
SwitchAudit(w) ==
  /\ Once /\ w # resolved
  /\ resolved' = w
  /\ LoadLog(w, filters, page)
  /\ UNCHANGED <<settingsVars, eventVars, filters, page, shown, form, saving>>

\* The sub-tab is left and opened again; what it asked for goes on.
Remount ==
  /\ Once
  /\ filters' = NoFilter /\ page' = 1 /\ shown' = NoAudit
  /\ form' = [of |-> NoAudit, config |-> Defaults, draft |-> Defaults]
  /\ loads' = Retired \cup (IF resolved = NoAudit THEN {} ELSE {Query(resolved, NoFilter, 1)})
  /\ loading' = (resolved # NoAudit) /\ failed' = FALSE /\ saving' = FALSE
  /\ updates' = {[u EXCEPT !.by = "other"] : u \in {v \in updates : v.at # "stored"}}
  /\ UNCHANGED <<eventVars, rows, known, readers, resolved, disturbed>>

AuditNext ==
  \/ \E u \in updates : CommitUpdate(u) \/ StoreUpdate(u) \/ SaveAnswered(u) \/ SaveFailed(u)
  \/ \E l \in loads : ServeConfig(l) \/ StoreRead(l) \/ LogAnswered(l) \/ LogFailed(l)
  \/ \E w \in AuditSpaces :
       \/ \E c \in AuditSettings : OtherUpdate(w, c)
       \/ \E request \in RequestKinds : AuditRequest(w, request)
  \/ \E r \in readers : EventRead(r)
  \/ \E works \in BOOLEAN : InsertBatch(works) \/ \E e \in spilled : InsertSpilled(e, works)
  \/ TakeBatch \/ RestartApi \/ ResetFilters \/ CancelSettings \/ SaveSettings \/ Remount
  \/ \E s \in FilterValues : SetFilter(s)
  \/ \E p \in 1..MaxPage : GoToPage(p)
  \/ \E c \in AuditSettings : TypeSettings(c)
  \/ \E w \in AuditSpaces \cup {NoAudit} : SwitchAudit(w)

AuditSpec == AuditInit /\ [][AuditNext]_auditVars

-----------------------------------------------------------------------------
(* Properties.                                                               *)

AuditTypeOK ==
  /\ rows \in [AuditSpaces -> AuditSettings \cup {NoAudit}]
  /\ known \in [AuditSpaces -> AuditSettings \cup {NoAudit}]
  /\ \A u \in updates : u.by \in {"panel", "other"} /\ u.at \in {"sent", "committed", "stored"}
  /\ \A r \in readers : r.request \in RequestKinds /\ r.got \in AuditSettings
  /\ Len(queue) <= QueueMax /\ Len(batch) <= BatchMax
  /\ resolved \in AuditSpaces \cup {NoAudit} /\ filters \in FilterValues /\ page \in 1..MaxPage
  /\ \A l \in loads : l.at \in {"sent", "read", "answered"} /\ l.space \in AuditSpaces
  /\ Cardinality({l \in loads : l.live}) <= 1
  /\ form \in [of : AuditSpaces \cup {NoAudit}, config : AuditSettings, draft : AuditSettings]
  /\ {loading, failed, saving} \subseteq BOOLEAN /\ audits \in 0..MaxAudits
  /\ stored \cup lost \cup spilled \subseteq logged /\ logged \subseteq 0..MaxAudits
  /\ disturbed \subseteq AuditSpaces

Events(s) == {s[i] : i \in DOMAIN s}

\* The cached settings, which decide what is logged and are never read again,
\* are those of the row, unless they were changed while another request used
\* them (audit_logs_query.py:66).
CacheIsRow ==
  \A w \in AuditSpaces \ disturbed :
    Storing(w) = {} => known[w] \in {NoAudit, RowOf(w)}

\* An event that was to be logged is in exactly one place, also when the queue
\* is full: on its way, in the table, or lost with a failed insert or a restart
\* (audit_logs_bootstrap.py:159).
EventsAccounted ==
  LET places == <<Events(queue), Events(batch), spilled, stored, lost>>
  IN  /\ logged = UNION Events(places)
      /\ \A i, j \in DOMAIN places : i # j => places[i] \cap places[j] = {}

AuditAgrees == CacheIsRow /\ EventsAccounted

\* However answers are ordered, once the panel is not loading and shows no
\* error, its entries are those of its workspace, filters and page, and its
\* settings those of its workspace (AuditLogsPanel.tsx:84).
PanelShowsItsQuery ==
  (resolved # NoAudit /\ ~loading /\ ~failed) =>
    /\ shown = [space |-> resolved, filters |-> filters, page |-> page]
    /\ form.of = resolved
=============================================================================
