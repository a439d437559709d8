-------------------------- MODULE WorkspaceHistory --------------------------
(* The files of one workspace and their git history in the API: writes under *)
(* workspace_write_lock, restores that take the lock for their commit only   *)
(* (workspaces/mixins/management.py, history/main.py, history/restore.py).   *)
(* Requests run in threads: the steps of two of them interleave.             *)
EXTENDS Naturals, FiniteSets

CONSTANTS
  Files,        \* paths
  Plain,        \* contents without a secret
  Secrets,      \* contents contains_plaintext_secret finds a secret in
  NoFile,       \* the content of a path with no file
  Nobody,       \* the owner of a free lock
  Threads,      \* bound: requests in progress at a time
  MaxRequests   \* bound: requests in all

ASSUME HistoryAssumption ==
  /\ Plain \cap Secrets = {} /\ NoFile \notin Plain \cup Secrets /\ Plain # {}
  /\ Nobody \notin Threads /\ MaxRequests \in Nat

VARIABLES
  payload, index, head, committed,  \* the files, what is staged, the last commit, all
  lock, request, requests,
  overlapped,   \* history: a restore has run beside another request
  renamed       \* history: files with a secret that git took for a renamed one

historyVars == <<payload, index, head, committed, lock, request, requests, overlapped,
                 renamed>>

Contents == Plain \cup Secrets \cup {NoFile}
Payloads == [Files -> Contents]
NoRequest == [op |-> "none"]
Empty == [f \in Files |-> NoFile]

HistoryTypeOK ==
  /\ {payload, index, head} \cup committed \subseteq Payloads
  /\ lock \in Threads \cup {Nobody} /\ requests \in 0 .. MaxRequests /\ overlapped \in BOOLEAN
  /\ renamed \subseteq Files
  /\ \A t \in Threads : request[t] # NoRequest =>
       /\ request[t].op \in {"write", "restore"}
       /\ request[t].pc \in {"change", "stage", "validate", "commit", "clear", "fill", "undo"}
       /\ request[t].new \in Payloads /\ request[t].old \in Payloads

HistoryInit ==
  /\ payload \in [Files -> Plain \cup {NoFile}]
  /\ index = payload /\ head = payload /\ committed = {payload} /\ lock = Nobody
  /\ request = [t \in Threads |-> NoRequest] /\ requests = 0 /\ overlapped = FALSE
  /\ renamed = {}

Restoring(t) == request[t] # NoRequest /\ request[t].op = "restore"
Others(t) == Threads \ {t}

\* history: a restore runs beside another request.
Enter(t, r) ==
  /\ request[t] = NoRequest /\ requests < MaxRequests
  /\ request' = [request EXCEPT ![t] = r] /\ requests' = requests + 1
  /\ overlapped' = (overlapped \/ (\E u \in Others(t) : Restoring(u))
                      \/ (r.op = "restore" /\ \E u \in Others(t) : request[u] # NoRequest))
Step(t, pc) == request' = [request EXCEPT ![t].pc = pc] /\ UNCHANGED <<requests, overlapped>>
LeaveRecorded(t) ==  \* (Defect.)
  request' = [request EXCEPT ![t].pc = "done"] /\ UNCHANGED <<requests, overlapped>>
Leave(t) == request' = [request EXCEPT ![t] = NoRequest] /\ UNCHANGED <<requests, overlapped>>
At(t, pc) == request[t] # NoRequest /\ request[t].pc = pc

------------------------------------------------------------------------------
(* write_file, delete_file and rename_file: the new payload is what they      *)
(* make of the one they find once they hold the lock.                         *)
WriteFile(p, f, v) == [p EXCEPT ![f] = v]
RenameFile(p, f, g) == [p EXCEPT ![g] = p[f], ![f] = NoFile]

\* The change the request makes when its turn comes; a 404 or 409 changes nothing.
Edit(p) ==
  UNION {{WriteFile(p, f, v) : f \in Files, v \in Plain \cup Secrets},
         {WriteFile(p, f, NoFile) : f \in {g \in Files : p[g] # NoFile}},
         {RenameFile(p, f, g) : f \in {h \in Files : p[h] # NoFile},
                                g \in {h \in Files : p[h] = NoFile}}}

WriteArrives(t) ==
  /\ Enter(t, [op |-> "write", pc |-> "change", new |-> Empty, old |-> Empty, scope |-> {}])
  /\ UNCHANGED <<payload, index, head, committed, lock, renamed>>

WriteChanges(t) ==
  /\ At(t, "change") /\ lock = Nobody /\ lock' = t
  /\ payload' \in Edit(payload) /\ Step(t, "stage")
  /\ UNCHANGED <<index, head, committed, renamed>>

\* _history_commit: git add -A; nothing staged means nothing to commit.
Stage(t) ==
  /\ At(t, "stage") /\ lock \in {t, Nobody}
  /\ index' = payload
  /\ \/ payload = head /\ lock' = Nobody /\ Leave(t)
     \/ payload # head /\ lock' = t /\ Step(t, "validate")
  /\ UNCHANGED <<payload, head, committed, renamed>>

\* How git diff pairs the files that are added with files that are removed: each
\* once, the same content always, another one if it is similar enough.
Added == {f \in Files : head[f] = NoFile /\ index[f] # NoFile}
Removed == {f \in Files : head[f] # NoFile /\ index[f] = NoFile}
Renamings ==
  {r \in UNION {[fs -> Removed] : fs \in SUBSET Added} :
     /\ \A f, g \in DOMAIN r : r[f] = r[g] => f = g
     /\ \A f \in Added \ DOMAIN r, g \in Removed :
          head[g] = index[f] => \E h \in DOMAIN r : r[h] = g}

\* _validate_no_plaintext_secrets reads the files of the paths that are staged as
\* added or modified, which a renamed one is not: the files, not what is staged.
OffendingAdded(moved) ==  \* (Defect: modified files are not looked at.)
  {f \in Added \ moved : payload[f] \in Secrets}
Offending(moved) ==
  {f \in Files \ moved : index[f] # head[f] /\ index[f] # NoFile /\ payload[f] \in Secrets}

Validate(t) ==
  /\ At(t, "validate")
  /\ \E r \in Renamings : LET moved == DOMAIN r IN
       \/ /\ Offending(moved) = {} /\ Step(t, "commit") /\ UNCHANGED <<index, lock>>
          /\ renamed' = renamed \cup {f \in moved : payload[f] \in Secrets}
       \/ /\ Offending(moved) # {} /\ index' = head /\ lock' = Nobody /\ Leave(t)
          /\ UNCHANGED renamed
  /\ UNCHANGED <<payload, head, committed>>

\* git commit, or its failure.
CommitStaged(t) ==  \* (Defect: a failing commit leaves its index.)
  /\ At(t, "commit")
  /\ \/ head' = index /\ committed' = committed \cup {index}
     \/ UNCHANGED <<head, committed>>
  /\ lock' = Nobody /\ Leave(t) /\ UNCHANGED <<payload, index, renamed>>
Commit(t) ==
  /\ At(t, "commit")
  /\ \/ head' = index /\ committed' = committed \cup {index} /\ UNCHANGED index
     \/ index' = head /\ UNCHANGED <<head, committed>>
  /\ lock' = Nobody /\ Leave(t) /\ UNCHANGED <<payload, renamed>>

------------------------------------------------------------------------------
(* restore_history_workspace (every path of the snapshot) and                *)
(* restore_history_path (one path of it).                                     *)
Restored(snapshot, fs) == [f \in Files |-> IF f \in fs THEN snapshot[f] ELSE payload[f]]

RestoreArrives(t) ==
  /\ \E snapshot \in committed, fs \in {Files} \cup {{f} : f \in Files} :
       /\ Cardinality(fs) = 1 => \A f \in fs : snapshot[f] # NoFile
       /\ Enter(t, [op |-> "restore", pc |-> "clear", new |-> snapshot, old |-> payload,
                    scope |-> fs])
  /\ UNCHANGED <<payload, index, head, committed, lock, renamed>>

Clear(t) ==
  /\ At(t, "clear") /\ payload' = Restored(Empty, request[t].scope) /\ Step(t, "fill")
  /\ UNCHANGED <<index, head, committed, lock, renamed>>

Fill(t) ==
  /\ At(t, "fill")
  /\ \/ payload' = Restored(request[t].new, request[t].scope) /\ Step(t, "stage")
     \/ payload' = Restored(Empty, request[t].scope) /\ Step(t, "undo")
  /\ UNCHANGED <<index, head, committed, lock, renamed>>

\* The copy failed: the backup comes back, and nothing is committed.
Undo(t) ==
  /\ At(t, "undo") /\ payload' = Restored(request[t].old, request[t].scope) /\ Leave(t)
  /\ UNCHANGED <<index, head, committed, lock, renamed>>

Serving(t) ==
  \/ WriteChanges(t) \/ Stage(t) \/ Validate(t) \/ Commit(t) \/ Clear(t) \/ Fill(t) \/ Undo(t)

HistoryNext == \E t \in Threads : WriteArrives(t) \/ RestoreArrives(t) \/ Serving(t)

HistorySpec == HistoryInit /\ [][HistoryNext]_historyVars

------------------------------------------------------------------------------
(* 013-git, Security: No plaintext secrets in git history.                   *)
NoSecretInHistory == \A p \in committed : \A f \in Files : p[f] \notin Secrets

(* As long as no restore runs beside another request, what a commit has      *)
(* staged is what it has validated (_history_commit under the lock): a secret *)
(* is only in files that git took for renamed ones, as when the file of a    *)
(* write that was refused gets another name (_TRACKED_DIFF_FILTER).          *)
SecretsOnlyRenamed ==
  overlapped \/ \A p \in committed : \A f \in Files \ renamed : p[f] \notin Secrets

(* With no request in progress the index is the last commit: no request that *)
(* was refused, or that failed half way, leaves something staged that a      *)
(* later commit would sweep up (_history_unstage_all).                       *)
NothingLeftStaged == (\A t \in Threads : request[t] = NoRequest) => index = head /\ lock = Nobody
=============================================================================
