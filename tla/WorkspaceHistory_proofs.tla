----------------------- MODULE WorkspaceHistory_proofs ------------------------
(***************************************************************************)
(* The history of a workspace and the dialog that shows it, for any number *)
(* of files and requests in progress: nothing stays staged, a secret is    *)
(* committed only in a renamed file while no restore runs beside another   *)
(* request, and the dialog shows the difference of the selected version.   *)
(*                                                                         *)
(* A request that validates or commits holds the lock, so index and last   *)
(* commit differ only while it does.  What it has staged is what it        *)
(* validates as long as no restore changes the files meanwhile.            *)
(*                                                                         *)
(* What is proved of them and of the parts of SettingsTab_proofs holds of  *)
(* all together (HistoriesAreTheirParts), and so do the types of all parts *)
(* (HistoriesKeepTypes).                                                   *)
(***************************************************************************)
EXTENDS MCWorkspaceHistory, SettingsTab_proofs, WellFoundedInduction, TLAPS

RequestSet ==
  [op : {"write", "restore"},
   pc : {"change", "stage", "validate", "commit", "clear", "fill", "undo"},
   new : Payloads, old : Payloads, scope : SUBSET Files]

HistoryTypes ==
  /\ payload \in Payloads /\ index \in Payloads /\ head \in Payloads
  /\ committed \subseteq Payloads /\ head \in committed
  /\ request \in [Threads -> RequestSet \cup {NoRequest}]
  /\ lock \in Threads \cup {Nobody} /\ requests \in 0 .. MaxRequests /\ overlapped \in BOOLEAN
  /\ renamed \subseteq Files

Staged(t) == At(t, "validate") \/ At(t, "commit")
Changing(t) == At(t, "clear") \/ At(t, "fill") \/ At(t, "undo")

\* Who holds the lock, and when index and last commit may differ.
LockInv ==
  /\ \A t \in Threads : Staged(t) => lock = t
  /\ \A t \in Threads : lock = t => Staged(t) \/ At(t, "stage")
  /\ index # head => \E t \in Threads : Staged(t)

\* What holds while no restore runs beside another request.
AloneInv ==
  /\ \A t \in Threads : Changing(t) => Restoring(t)
  /\ ~overlapped =>
       /\ \A t, u \in Threads : Restoring(t) /\ u # t => request[u] = NoRequest
       /\ \A t \in Threads : At(t, "validate") => payload = index
       /\ \A t \in Threads : At(t, "commit") => \A f \in Files \ renamed : index[f] \notin Secrets
       /\ \A p \in committed : \A f \in Files \ renamed : p[f] \notin Secrets

HistoryInv == HistoryTypes /\ LockInv /\ AloneInv

-----------------------------------------------------------------------------
LEMMA NoRequestIsNoRecord == NoRequest \notin RequestSet
  <1> SUFFICES ASSUME NoRequest \in RequestSet PROVE FALSE
    OBVIOUS
  <1>1. DOMAIN NoRequest = {"op"}
    BY DEF NoRequest
  <1>2. "pc" \in DOMAIN NoRequest
    BY DEF RequestSet
  <1> QED
    BY <1>1, <1>2

LEMMA EmptyIsPayload == Empty \in Payloads
  BY DEF Empty, Payloads, Contents

LEMMA EditIsPayload == ASSUME NEW p \in Payloads PROVE Edit(p) \subseteq Payloads
  BY DEF Edit, WriteFile, RenameFile, Payloads, Contents

LEMMA RestoredIsPayload ==
  ASSUME payload \in Payloads, NEW snapshot \in Payloads, NEW fs
  PROVE  Restored(snapshot, fs) \in Payloads
  BY DEF Restored, Payloads

\* A step of a request to another pc, its end and its arrival.
LEMMA StepEffect ==
  ASSUME HistoryTypes, NEW t \in Threads, NEW p \in {"stage", "validate", "commit", "fill", "undo"},
         request[t] # NoRequest, Step(t, p)
  PROVE  /\ request' \in [Threads -> RequestSet \cup {NoRequest}]
         /\ request'[t] # NoRequest /\ request'[t].pc = p
         /\ request'[t].op = request[t].op
         /\ \A u \in Threads \ {t} : request'[u] = request[u]
         /\ UNCHANGED <<requests, overlapped>>
  <1>1. request[t] \in RequestSet
    BY DEF HistoryTypes
  <1>2. [request[t] EXCEPT !.pc = p] \in RequestSet
    BY <1>1 DEF RequestSet
  <1>3. request' = [request EXCEPT ![t] = [request[t] EXCEPT !.pc = p]]
    BY DEF Step
  <1> QED
    BY <1>1, <1>2, <1>3, NoRequestIsNoRecord DEF HistoryTypes, Step, RequestSet

LEMMA LeaveEffect ==
  ASSUME HistoryTypes, NEW t \in Threads, Leave(t)
  PROVE  /\ request' \in [Threads -> RequestSet \cup {NoRequest}]
         /\ request'[t] = NoRequest
         /\ \A u \in Threads \ {t} : request'[u] = request[u]
         /\ UNCHANGED <<requests, overlapped>>
  BY DEF HistoryTypes, Leave

LEMMA EnterEffect ==
  ASSUME HistoryAssumption, HistoryTypes, NEW t \in Threads, NEW r \in RequestSet, Enter(t, r)
  PROVE  /\ request' \in [Threads -> RequestSet \cup {NoRequest}]
         /\ request[t] = NoRequest /\ request'[t] = r
         /\ \A u \in Threads \ {t} : request'[u] = request[u]
         /\ requests' \in 0 .. MaxRequests /\ overlapped' \in BOOLEAN
         /\ ~overlapped' =>
              /\ ~overlapped
              /\ \A u \in Threads \ {t} : ~Restoring(u)
              /\ r.op = "restore" => \A u \in Threads \ {t} : request[u] = NoRequest
  <1>1. /\ request[t] = NoRequest /\ request' = [request EXCEPT ![t] = r]
        /\ requests' = requests + 1 /\ requests < MaxRequests
    BY DEF Enter
  <1>2. requests' \in 0 .. MaxRequests
    BY <1>1 DEF HistoryTypes, HistoryAssumption
  <1>3. overlapped' \in BOOLEAN
    BY Zenon DEF Enter, HistoryTypes
  <1>4. ~overlapped' => /\ ~overlapped
                        /\ \A u \in Others(t) : ~Restoring(u)
                        /\ r.op = "restore" => \A u \in Others(t) : request[u] = NoRequest
    BY Zenon DEF Enter
  <1> QED
    BY <1>1, <1>2, <1>3, <1>4 DEF HistoryTypes, Others

-----------------------------------------------------------------------------
LEMMA TypesStep ==
  HistoryAssumption /\ HistoryTypes /\ [HistoryNext]_historyVars => HistoryTypes'
  <1> SUFFICES ASSUME HistoryAssumption, HistoryTypes, [HistoryNext]_historyVars
               PROVE  HistoryTypes'
    OBVIOUS
  <1>1. ASSUME NEW t \in Threads, WriteArrives(t) PROVE HistoryTypes'
    <2>1. [op |-> "write", pc |-> "change", new |-> Empty, old |-> Empty, scope |-> {}]
            \in RequestSet
      BY EmptyIsPayload DEF RequestSet
    <2> QED
      BY <1>1, <2>1, EnterEffect DEF WriteArrives, HistoryTypes
  <1>2. ASSUME NEW t \in Threads, RestoreArrives(t) PROVE HistoryTypes'
    <2>1. PICK snapshot \in committed, fs \in {Files} \cup {{f} : f \in Files} :
            Enter(t, [op |-> "restore", pc |-> "clear", new |-> snapshot, old |-> payload,
                      scope |-> fs])
      BY <1>2 DEF RestoreArrives
    <2>2. fs \in SUBSET Files
      BY <2>1
    <2>3. [op |-> "restore", pc |-> "clear", new |-> snapshot, old |-> payload, scope |-> fs]
            \in RequestSet
      BY <2>1, <2>2 DEF RequestSet, HistoryTypes
    <2> QED
      BY <1>2, <2>1, <2>3, EnterEffect DEF RestoreArrives, HistoryTypes
  <1>3. ASSUME NEW t \in Threads, WriteChanges(t) PROVE HistoryTypes'
    <2>1. payload' \in Payloads
      BY <1>3, EditIsPayload DEF WriteChanges, HistoryTypes
    <2> QED
      BY <1>3, <2>1, StepEffect DEF WriteChanges, At, HistoryTypes
  <1>4. ASSUME NEW t \in Threads, Stage(t) PROVE HistoryTypes'
    BY <1>4, StepEffect, LeaveEffect DEF Stage, At, HistoryTypes
  <1>5. ASSUME NEW t \in Threads, Validate(t) PROVE HistoryTypes'
    <2>1. PICK r \in Renamings :
            \/ /\ Offending(DOMAIN r) = {} /\ Step(t, "commit") /\ UNCHANGED <<index, lock>>
               /\ renamed' = renamed \cup {f \in DOMAIN r : payload[f] \in Secrets}
            \/ Offending(DOMAIN r) # {} /\ index' = head /\ lock' = Nobody /\ Leave(t) /\ UNCHANGED renamed
      BY <1>5 DEF Validate
    <2>2. DOMAIN r \subseteq Files
      BY DEF Renamings, Added
    <2>3. renamed' \subseteq Files
      BY <2>1, <2>2 DEF HistoryTypes
    <2> QED
      BY <1>5, <2>1, <2>3, StepEffect, LeaveEffect DEF Validate, At, HistoryTypes
  <1>6. ASSUME NEW t \in Threads, Commit(t) PROVE HistoryTypes'
    BY <1>6, LeaveEffect DEF Commit, HistoryTypes
  <1>7. ASSUME NEW t \in Threads, Clear(t) PROVE HistoryTypes'
    BY <1>7, StepEffect, RestoredIsPayload, EmptyIsPayload DEF Clear, At, HistoryTypes
  <1>8. ASSUME NEW t \in Threads, Fill(t) PROVE HistoryTypes'
    <2>1. request[t] \in RequestSet /\ request[t].new \in Payloads
      BY <1>8 DEF Fill, At, HistoryTypes, RequestSet
    <2>2. payload' \in Payloads
      BY <1>8, <2>1, RestoredIsPayload, EmptyIsPayload DEF Fill, HistoryTypes
    <2> QED
      BY <1>8, <2>2, StepEffect DEF Fill, At, HistoryTypes
  <1>9. ASSUME NEW t \in Threads, Undo(t) PROVE HistoryTypes'
    <2>1. request[t] \in RequestSet /\ request[t].old \in Payloads
      BY <1>9 DEF Undo, At, HistoryTypes, RequestSet
    <2> QED
      BY <1>9, <2>1, LeaveEffect, RestoredIsPayload DEF Undo, HistoryTypes
  <1>10. CASE UNCHANGED historyVars
    BY <1>10 DEF historyVars, HistoryTypes
  <1> QED
    BY <1>1, <1>2, <1>3, <1>4, <1>5, <1>6, <1>7, <1>8, <1>9, <1>10 DEF HistoryNext, Serving

-----------------------------------------------------------------------------
LEMMA LockStep ==
  HistoryAssumption /\ HistoryTypes /\ LockInv /\ [HistoryNext]_historyVars => LockInv'
  <1> SUFFICES ASSUME HistoryAssumption, HistoryTypes, LockInv, [HistoryNext]_historyVars
               PROVE  LockInv'
    OBVIOUS
  <1> Nobody \notin Threads
    BY DEF HistoryAssumption
  <1> USE DEF LockInv, Staged, At
  <1>1. ASSUME NEW t \in Threads, NEW r \in RequestSet, Enter(t, r), r.pc \in {"change", "clear"},
               UNCHANGED <<payload, index, head, committed, lock>>
        PROVE  LockInv'
    BY <1>1, EnterEffect
  <1>2. ASSUME NEW t \in Threads, WriteArrives(t) PROVE LockInv'
    <2>1. [op |-> "write", pc |-> "change", new |-> Empty, old |-> Empty, scope |-> {}]
            \in RequestSet
      BY EmptyIsPayload DEF RequestSet
    <2> QED
      BY <1>1, <1>2, <2>1 DEF WriteArrives
  <1>3. ASSUME NEW t \in Threads, RestoreArrives(t) PROVE LockInv'
    <2>1. PICK snapshot \in committed, fs \in {Files} \cup {{f} : f \in Files} :
            Enter(t, [op |-> "restore", pc |-> "clear", new |-> snapshot, old |-> payload,
                      scope |-> fs])
      BY <1>3 DEF RestoreArrives
    <2>2. fs \in SUBSET Files
      BY <2>1
    <2>3. [op |-> "restore", pc |-> "clear", new |-> snapshot, old |-> payload, scope |-> fs]
            \in RequestSet
      BY <2>1, <2>2 DEF RequestSet, HistoryTypes
    <2> QED
      BY <1>1, <1>3, <2>1, <2>3 DEF RestoreArrives
  <1>4. ASSUME NEW t \in Threads, WriteChanges(t) PROVE LockInv'
    BY <1>4, StepEffect DEF WriteChanges
  <1>5. ASSUME NEW t \in Threads, Stage(t) PROVE LockInv'
    <2>1. \A u \in Threads \ {t} : ~Staged(u)
      BY <1>5 DEF Stage
    <2>2. CASE payload = head /\ lock' = Nobody /\ Leave(t)
      BY <1>5, <2>1, <2>2, LeaveEffect DEF Stage
    <2>3. CASE payload # head /\ lock' = t /\ Step(t, "validate")
      BY <1>5, <2>1, <2>3, StepEffect DEF Stage
    <2> QED
      BY <1>5, <2>2, <2>3 DEF Stage
  <1>6. ASSUME NEW t \in Threads, Validate(t) PROVE LockInv'
    <2>1. lock = t /\ \A u \in Threads \ {t} : ~Staged(u)
      BY <1>6 DEF Validate
    <2>2. CASE Step(t, "commit") /\ UNCHANGED <<index, lock>>
      BY <1>6, <2>1, <2>2, StepEffect DEF Validate
    <2>3. CASE index' = head /\ lock' = Nobody /\ Leave(t)
      BY <1>6, <2>1, <2>3, LeaveEffect DEF Validate
    <2> QED
      BY <1>6, <2>2, <2>3, Zenon DEF Validate
  <1>7. ASSUME NEW t \in Threads, Commit(t) PROVE LockInv'
    <2>1. lock = t /\ \A u \in Threads \ {t} : ~Staged(u)
      BY <1>7 DEF Commit
    <2>2. index' = head' /\ lock' = Nobody
      BY <1>7 DEF Commit
    <2> QED
      BY <1>7, <2>1, <2>2, LeaveEffect DEF Commit
  <1>8. ASSUME NEW t \in Threads, Clear(t) PROVE LockInv'
    BY <1>8, StepEffect DEF Clear
  <1>9. ASSUME NEW t \in Threads, Fill(t) PROVE LockInv'
    <2>1. Step(t, "stage") \/ Step(t, "undo")
      BY <1>9 DEF Fill
    <2> QED
      BY <1>9, <2>1, StepEffect DEF Fill
  <1>10. ASSUME NEW t \in Threads, Undo(t) PROVE LockInv'
    BY <1>10, LeaveEffect DEF Undo
  <1>11. CASE UNCHANGED historyVars
    BY <1>11 DEF historyVars
  <1> QED
    BY <1>2, <1>3, <1>4, <1>5, <1>6, <1>7, <1>8, <1>9, <1>10, <1>11 DEF HistoryNext, Serving

LEMMA AloneStep ==
  HistoryAssumption /\ HistoryInv /\ [HistoryNext]_historyVars => AloneInv'
  <1> SUFFICES ASSUME HistoryAssumption, HistoryTypes, LockInv, AloneInv,
                      [HistoryNext]_historyVars
               PROVE  AloneInv'
    BY DEF HistoryInv
  <1> Nobody \notin Threads /\ NoFile \notin Secrets
    BY DEF HistoryAssumption
  <1> USE DEF AloneInv, LockInv, Staged, Changing, Restoring, At
  <1>1. ASSUME NEW t \in Threads, NEW r \in RequestSet, Enter(t, r), r.pc \in {"change", "clear"},
               r.pc = "clear" => r.op = "restore",
               UNCHANGED <<payload, index, head, committed, lock, renamed>>
        PROVE  AloneInv'
    <2>1. r # NoRequest
      BY NoRequestIsNoRecord
    <2>2. \A u \in Threads : Changing(u)' => Restoring(u)'
      BY <1>1, <2>1, EnterEffect
    <2>3. ASSUME ~overlapped', NEW u \in Threads, NEW v \in Threads, Restoring(u)', v # u
          PROVE  request'[v] = NoRequest
      BY <1>1, <2>1, <2>3, EnterEffect
    <2> QED
      BY <1>1, <2>1, <2>2, <2>3, EnterEffect
  <1>2. ASSUME NEW t \in Threads, WriteArrives(t) PROVE AloneInv'
    <2>1. [op |-> "write", pc |-> "change", new |-> Empty, old |-> Empty, scope |-> {}]
            \in RequestSet
      BY EmptyIsPayload DEF RequestSet
    <2> QED
      BY <1>1, <1>2, <2>1 DEF WriteArrives
  <1>3. ASSUME NEW t \in Threads, RestoreArrives(t) PROVE AloneInv'
    <2>1. PICK snapshot \in committed, fs \in {Files} \cup {{f} : f \in Files} :
            Enter(t, [op |-> "restore", pc |-> "clear", new |-> snapshot, old |-> payload,
                      scope |-> fs])
      BY <1>3 DEF RestoreArrives
    <2>2. fs \in SUBSET Files
      BY <2>1
    <2>3. [op |-> "restore", pc |-> "clear", new |-> snapshot, old |-> payload, scope |-> fs]
            \in RequestSet
      BY <2>1, <2>2 DEF RequestSet, HistoryTypes
    <2> QED
      BY <1>1, <1>3, <2>1, <2>3 DEF RestoreArrives
  <1>4. ASSUME NEW t \in Threads, WriteChanges(t) PROVE AloneInv'
    BY <1>4, StepEffect DEF WriteChanges
  <1>5. ASSUME NEW t \in Threads, Stage(t) PROVE AloneInv'
    <2>1. \A u \in Threads \ {t} : ~Staged(u)
      BY <1>5 DEF Stage
    <2>2. CASE payload = head /\ lock' = Nobody /\ Leave(t)
      BY <1>5, <2>1, <2>2, LeaveEffect DEF Stage
    <2>3. CASE payload # head /\ lock' = t /\ Step(t, "validate")
      BY <1>5, <2>1, <2>3, StepEffect DEF Stage
    <2> QED
      BY <1>5, <2>2, <2>3 DEF Stage
  <1>6. ASSUME NEW t \in Threads, Validate(t) PROVE AloneInv'
    <2>1. lock = t /\ \A u \in Threads \ {t} : ~Staged(u)
      BY <1>6 DEF Validate
    <2>2. PICK r \in Renamings :
            \/ /\ Offending(DOMAIN r) = {} /\ Step(t, "commit") /\ UNCHANGED <<index, lock>>
               /\ renamed' = renamed \cup {f \in DOMAIN r : payload[f] \in Secrets}
            \/ Offending(DOMAIN r) # {} /\ index' = head /\ lock' = Nobody /\ Leave(t) /\ UNCHANGED renamed
      BY <1>6 DEF Validate
    <2>u. UNCHANGED <<payload, head, committed>>
      BY <1>6 DEF Validate
    <2>3. CASE /\ Offending(DOMAIN r) = {} /\ Step(t, "commit") /\ UNCHANGED <<index, lock>>
               /\ renamed' = renamed \cup {f \in DOMAIN r : payload[f] \in Secrets}
      <3>1. ~overlapped => payload = index /\ \A f \in Files \ renamed : head[f] \notin Secrets
        BY <1>6 DEF Validate, HistoryTypes
      <3>2. ASSUME ~overlapped, NEW f \in Files \ renamed' PROVE index[f] \notin Secrets
        <4>1. f \in Files \ renamed /\ (f \in DOMAIN r => payload[f] \notin Secrets)
          BY <2>3, <3>2
        <4>2. CASE f \in DOMAIN r \/ index[f] = head[f] \/ index[f] = NoFile
          BY <3>1, <3>2, <4>1, <4>2
        <4>3. CASE f \notin DOMAIN r /\ index[f] # head[f] /\ index[f] # NoFile
          <5>1. f \notin Offending(DOMAIN r)
            BY <2>3
          <5> QED
            BY <3>1, <3>2, <4>1, <4>3, <5>1 DEF Offending
        <4> QED
          BY <4>2, <4>3
      <3>3. renamed \subseteq renamed'
        BY <2>3
      <3> QED
        BY <1>6, <2>1, <2>3, <2>u, <3>2, <3>3, StepEffect
    <2>4. CASE index' = head /\ lock' = Nobody /\ Leave(t) /\ UNCHANGED renamed
      BY <1>6, <2>1, <2>4, <2>u, LeaveEffect
    <2> QED
      BY <2>2, <2>3, <2>4
  <1>7. ASSUME NEW t \in Threads, Commit(t) PROVE AloneInv'
    <2>1. lock = t /\ \A u \in Threads \ {t} : ~Staged(u)
      BY <1>7 DEF Commit
    <2>2. ~overlapped => \A p \in committed' : \A f \in Files \ renamed : p[f] \notin Secrets
      BY <1>7 DEF Commit
    <2> QED
      BY <1>7, <2>1, <2>2, LeaveEffect DEF Commit
  \* The files are changed without the lock: by a restore that is alone.
  <1>8. ASSUME NEW t \in Threads, Changing(t), ~overlapped
        PROVE  \A u \in Threads : ~At(u, "validate")
    BY <1>8
  <1>9. ASSUME NEW t \in Threads, Clear(t) PROVE AloneInv'
    BY <1>8, <1>9, StepEffect DEF Clear
  <1>10. ASSUME NEW t \in Threads, Fill(t) PROVE AloneInv'
    <2>1. Step(t, "stage") \/ Step(t, "undo")
      BY <1>10 DEF Fill
    <2> QED
      BY <1>8, <1>10, <2>1, StepEffect DEF Fill
  <1>11. ASSUME NEW t \in Threads, Undo(t) PROVE AloneInv'
    BY <1>8, <1>11, LeaveEffect DEF Undo
  <1>12. CASE UNCHANGED historyVars
    BY <1>12 DEF historyVars
  <1> QED
    BY <1>2, <1>3, <1>4, <1>5, <1>6, <1>7, <1>9, <1>10, <1>11, <1>12 DEF HistoryNext, Serving

LEMMA HistoryInvHolds == HistoryAssumption => (HistorySpec => []HistoryInv)
  <1> SUFFICES ASSUME HistoryAssumption PROVE HistorySpec => []HistoryInv
    OBVIOUS
  <1>1. HistoryInit => HistoryInv
    <2> SUFFICES ASSUME HistoryInit PROVE HistoryInv
      OBVIOUS
    <2>1. payload \in [Files -> Plain \cup {NoFile}]
      BY DEF HistoryInit
    <2>2. HistoryTypes
      <3>1. payload \in Payloads
        BY <2>1 DEF Payloads, Contents
      <3>2. request \in [Threads -> RequestSet \cup {NoRequest}] /\ requests \in 0 .. MaxRequests
        BY DEF HistoryInit, HistoryAssumption
      <3> QED
        BY <3>1, <3>2 DEF HistoryInit, HistoryTypes
    <2>3. \A t \in Threads : request[t] = NoRequest
      BY DEF HistoryInit
    <2>4. LockInv
      BY <2>3 DEF HistoryInit, LockInv, Staged, At, HistoryAssumption
    <2>5. AloneInv
      BY <2>1, <2>3 DEF HistoryInit, AloneInv, Changing, Restoring, At, HistoryAssumption
    <2> QED
      BY <2>2, <2>4, <2>5 DEF HistoryInv
  <1>2. HistoryInv /\ [HistoryNext]_historyVars => HistoryInv'
    BY TypesStep, LockStep, AloneStep DEF HistoryInv
  <1> QED
    BY <1>1, <1>2, PTL DEF HistorySpec

\* However requests interleave, are refused or fail half way, with none in
\* progress nothing is staged and the lock is free (_history_unstage_all).
THEOREM NothingStaysStaged == HistoryAssumption => (HistorySpec => []NothingLeftStaged)
  <1> SUFFICES ASSUME HistoryAssumption PROVE HistorySpec => []NothingLeftStaged
    OBVIOUS
  <1>1. HistoryInv => NothingLeftStaged
    BY DEF HistoryInv, HistoryTypes, LockInv, Staged, At, NothingLeftStaged
  <1> QED
    BY <1>1, HistoryInvHolds, PTL

\* As long as no restore has run beside another request, a commit has a secret
\* only in a file git took for a renamed one (_validate_no_plaintext_secrets
\* reads what git add has staged as added or modified).
THEOREM SecretsAreInRenamed == HistoryAssumption => (HistorySpec => []SecretsOnlyRenamed)
  <1> SUFFICES ASSUME HistoryAssumption PROVE HistorySpec => []SecretsOnlyRenamed
    OBVIOUS
  <1>1. HistoryInv => SecretsOnlyRenamed
    BY DEF HistoryInv, AloneInv, SecretsOnlyRenamed
  <1> QED
    BY <1>1, HistoryInvHolds, PTL


-----------------------------------------------------------------------------
(***************************************************************************)
(* The dialog.  The fetch that was asked last is of what is selected, or   *)
(* it has been answered; then all that are still under way are overtaken.  *)
(***************************************************************************)
Shas == Nat \cup {Newest(cs) : cs \in SUBSET Nat}
Asked == [sha : Shas, scope : Scopes, against : BOOLEAN]
Fetches == [want : Asked, late : BOOLEAN]

\* Who is overtaken: those asked before one that is.
OvertakenInv(s) == \A i, j \in 1 .. Len(s) : i < j /\ s[j].late = TRUE => s[i].late = TRUE

LastWanted(s, want) == Len(s) > 0 /\ s[Len(s)].late = FALSE /\ s[Len(s)].want = want
AllLate(s) == \A i \in 1 .. Len(s) : s[i].late = TRUE

DialogInv ==
  /\ log \in Nat /\ commits \subseteq Nat /\ selected \in Shas /\ scope \in Scopes
  /\ against \in BOOLEAN /\ opened \in BOOLEAN /\ diffLate \in BOOLEAN
  /\ diffs \in Seq(Fetches) /\ OvertakenInv(diffs)
  /\ (opened = TRUE /\ selected # NoCommit) =>
       \/ LastWanted(diffs, Wanted(selected, scope, against))
       \/ AllLate(diffs) /\ (diffLate = FALSE => diff \in {NoDiff, Wanted(selected, scope, against)})

LEMMA WithoutKeeps ==
  ASSUME NEW S, NEW s \in Seq(S), NEW k \in 1 .. Len(s)
  PROVE  /\ Without(s, k) \in Seq(S) /\ Len(Without(s, k)) = Len(s) - 1
         /\ \A j \in 1 .. Len(s) - 1 : Without(s, k)[j] = IF j < k THEN s[j] ELSE s[j + 1]
  <1> DEFINE w == [j \in 1 .. Len(s) - 1 |-> IF j < k THEN s[j] ELSE s[j + 1]]
  <1>1. Len(s) \in Nat /\ Len(s) - 1 \in Nat
    OBVIOUS
  <1>2. \A j \in 1 .. Len(s) - 1 : (IF j < k THEN s[j] ELSE s[j + 1]) \in S
    <2> SUFFICES ASSUME NEW j \in 1 .. Len(s) - 1 PROVE (IF j < k THEN s[j] ELSE s[j + 1]) \in S
      OBVIOUS
    <2>1. j \in 1 .. Len(s) /\ j + 1 \in 1 .. Len(s)
      BY <1>1
    <2> QED
      BY <2>1
  <1>3. w \in Seq(S) /\ Len(w) = Len(s) - 1
    BY <1>1, <1>2
  <1>4. \A j \in 1 .. Len(s) - 1 : w[j] = IF j < k THEN s[j] ELSE s[j + 1]
    OBVIOUS
  <1>5. Without(s, k) = w
    BY DEF Without
  <1> HIDE DEF w
  <1> QED
    BY <1>3, <1>4, <1>5

LEMMA OvertakeKeeps ==
  ASSUME NEW s \in Seq(Fetches), NEW k \in 1 .. Len(s)
  PROVE  /\ Overtake(s, k) \in Seq(Fetches) /\ Len(Overtake(s, k)) = Len(s) - 1
         /\ \A j \in 1 .. Len(s) - 1 :
              /\ j < k => Overtake(s, k)[j].late = TRUE
              /\ j >= k => Overtake(s, k)[j] = s[j + 1]
  <1> DEFINE m == [j \in 1 .. Len(s) |-> IF j < k THEN [s[j] EXCEPT !.late = TRUE] ELSE s[j]]
  <1>0. \A f \in Fetches : [f EXCEPT !.late = TRUE] \in Fetches /\ [f EXCEPT !.late = TRUE].late = TRUE
    BY DEF Fetches
  <1>1. \A j \in 1 .. Len(s) : [s[j] EXCEPT !.late = TRUE] \in Fetches /\ s[j] \in Fetches
                               /\ [s[j] EXCEPT !.late = TRUE].late = TRUE
    BY <1>0
  <1>2. m \in Seq(Fetches) /\ Len(m) = Len(s)
    <2>1. \A j \in 1 .. Len(s) : (IF j < k THEN [s[j] EXCEPT !.late = TRUE] ELSE s[j]) \in Fetches
      BY <1>1
    <2>2. Len(s) \in Nat
      OBVIOUS
    <2>3. m \in [1 .. Len(s) -> Fetches]
      BY <2>1
    <2> HIDE DEF m
    <2> QED
      BY <2>2, <2>3
  <1>3. \A j \in 1 .. Len(s) : m[j] = IF j < k THEN [s[j] EXCEPT !.late = TRUE] ELSE s[j]
    OBVIOUS
  <1>4. Overtake(s, k) = Without(m, k)
    BY DEF Overtake
  <1> HIDE DEF m
  <1>5. /\ Without(m, k) \in Seq(Fetches) /\ Len(Without(m, k)) = Len(s) - 1
        /\ \A j \in 1 .. Len(s) - 1 : Without(m, k)[j] = IF j < k THEN m[j] ELSE m[j + 1]
    BY <1>2, WithoutKeeps
  <1>6. ASSUME NEW j \in 1 .. Len(s) - 1
        PROVE  /\ j < k => Overtake(s, k)[j].late = TRUE
               /\ j >= k => Overtake(s, k)[j] = s[j + 1]
    <2>1. j \in 1 .. Len(s) /\ j + 1 \in 1 .. Len(s) /\ j \in Nat /\ k \in Nat
      OBVIOUS
    <2>2. ASSUME j < k PROVE Overtake(s, k)[j].late = TRUE
      BY <1>1, <1>3, <1>4, <1>5, <2>1, <2>2
    <2>3. ASSUME j >= k PROVE Overtake(s, k)[j] = s[j + 1]
      <3>1. ~(j < k) /\ ~(j + 1 < k)
        BY <2>1, <2>3
      <3> QED
        BY <1>3, <1>4, <1>5, <2>1, <3>1
    <2> QED
      BY <2>2, <2>3
  <1>7. \A j \in 1 .. Len(s) - 1 : /\ j < k => Overtake(s, k)[j].late = TRUE
                                   /\ j >= k => Overtake(s, k)[j] = s[j + 1]
    BY <1>6
  <1> QED
    BY <1>4, <1>5, <1>7

\* A reply: what was asked before it is overtaken, what was asked after it stays.
LEMMA OvertakeLate ==
  ASSUME NEW s \in Seq(Fetches), NEW k \in 1 .. Len(s), OvertakenInv(s)
  PROVE  /\ OvertakenInv(Overtake(s, k))
         /\ AllLate(s) \/ k = Len(s) => AllLate(Overtake(s, k))
         /\ \A want : k # Len(s) /\ LastWanted(s, want) => LastWanted(Overtake(s, k), want)
  <1> DEFINE o == Overtake(s, k)
  <1>1. /\ o \in Seq(Fetches) /\ Len(o) = Len(s) - 1 /\ Len(s) \in Nat
        /\ \A j \in 1 .. Len(s) - 1 : (j < k => o[j].late = TRUE) /\ (j >= k => o[j] = s[j + 1])
    <2>1. Len(s) \in Nat
      OBVIOUS
    <2> QED
      BY <2>1, OvertakeKeeps
  <1> HIDE DEF o
  <1>2. OvertakenInv(o)
    <2> SUFFICES ASSUME NEW i \in 1 .. Len(o), NEW j \in 1 .. Len(o), i < j, o[j].late = TRUE
                 PROVE  o[i].late = TRUE
      BY DEF OvertakenInv
    <2>0. i \in 1 .. Len(s) - 1 /\ j \in 1 .. Len(s) - 1 /\ k \in Nat /\ i \in Nat
      BY <1>1
    <2>1. CASE i < k
      BY <1>1, <2>0, <2>1
    <2>2. CASE ~(i < k)
      <3>0. i >= k
        BY <2>0, <2>2
      <3>1. i + 1 \in 1 .. Len(s) /\ j + 1 \in 1 .. Len(s) /\ i + 1 < j + 1
        BY <1>1
      <3>2. o[i] = s[i + 1] /\ o[j] = s[j + 1]
        BY <1>1, <2>0, <3>0
      <3> QED
        BY <3>1, <3>2 DEF OvertakenInv
    <2> QED
      BY <2>0, <2>1, <2>2
  <1>3. ASSUME AllLate(s) \/ k = Len(s) PROVE AllLate(o)
    <2> SUFFICES ASSUME NEW j \in 1 .. Len(o) PROVE o[j].late = TRUE
      BY DEF AllLate
    <2>0. j \in 1 .. Len(s) - 1 /\ k \in Nat /\ j \in Nat
      BY <1>1
    <2>1. CASE j < k
      BY <1>1, <2>0, <2>1
    <2>2. CASE ~(j < k)
      <3>0. j >= k
        BY <2>0, <2>2
      <3>1. j + 1 \in 1 .. Len(s) /\ o[j] = s[j + 1] /\ k # Len(s)
        BY <1>1, <2>0, <3>0
      <3> QED
        BY <1>3, <3>1 DEF AllLate
    <2> QED
      BY <2>0, <2>1, <2>2
  <1>4. ASSUME NEW want, k # Len(s), LastWanted(s, want) PROVE LastWanted(o, want)
    <2>1. k < Len(s) /\ Len(o) >= k /\ Len(o) \in 1 .. Len(s) - 1
      BY <1>1, <1>4
    <2>2. o[Len(o)] = s[Len(o) + 1] /\ Len(o) + 1 = Len(s)
      BY <1>1, <2>1
    <2> QED
      BY <1>4, <2>1, <2>2 DEF LastWanted
  <1> QED
    BY <1>2, <1>3, <1>4 DEF o

\* The effect: either nothing changes in what is shown, or its diff is asked for.
LEMMA AppendAsks ==
  ASSUME NEW s \in Seq(Fetches), OvertakenInv(s), NEW want \in Asked
  PROVE  LET t == Append(s, [want |-> want, late |-> FALSE])
         IN  t \in Seq(Fetches) /\ OvertakenInv(t) /\ LastWanted(t, want)
  <1> DEFINE e == [want |-> want, late |-> FALSE]
             t == Append(s, e)
  <1>1. e \in Fetches /\ e.late = FALSE /\ e.want = want
    BY DEF Fetches
  <1> HIDE DEF e
  <1>2. /\ t \in Seq(Fetches) /\ Len(t) = Len(s) + 1 /\ t[Len(s) + 1] = e /\ Len(s) \in Nat
        /\ \A i \in 1 .. Len(s) : t[i] = s[i]
    BY <1>1
  <1> HIDE DEF t
  <1>3. OvertakenInv(t)
    <2> SUFFICES ASSUME NEW i \in 1 .. Len(t), NEW j \in 1 .. Len(t), i < j, t[j].late = TRUE
                 PROVE  t[i].late = TRUE
      BY DEF OvertakenInv
    <2>1. j # Len(s) + 1
      BY <1>1, <1>2
    <2>2. i \in 1 .. Len(s) /\ j \in 1 .. Len(s)
      BY <1>2, <2>1
    <2> QED
      BY <1>2, <2>2 DEF OvertakenInv
  <1>4. LastWanted(t, want)
    BY <1>1, <1>2 DEF LastWanted
  <1> QED
    BY <1>2, <1>3, <1>4 DEF t, e

-----------------------------------------------------------------------------
(* What a step does with the fetches of diffs: it asks for the diff of what  *)
(* is selected from then on, or it changes none of what is shown.            *)
ShowsThenAsks ==
  /\ log' \in Nat /\ commits' \subseteq Nat /\ selected' \in Shas /\ scope' \in Scopes
  /\ against' \in BOOLEAN /\ opened' \in BOOLEAN /\ UNCHANGED diffLate
  /\ \/ diffs' = Append(diffs, [want |-> Wanted(selected', scope', against'), late |-> FALSE])
     \/ /\ UNCHANGED diffs
        /\ \/ opened' = FALSE \/ selected' = NoCommit
           \/ UNCHANGED <<opened, selected, scope, against, diff>>

LEMMA ShownIsAsked ==
  ASSUME DialogInv, ShowsThenAsks
  PROVE  DialogInv'
  <1> DEFINE want == Wanted(selected', scope', against')
  <1>1. want \in Asked
    BY DEF ShowsThenAsks, Asked, Wanted
  <1>2. diffs \in Seq(Fetches) /\ OvertakenInv(diffs)
    BY DEF DialogInv
  <1>3. diffLate' \in BOOLEAN
    BY DEF DialogInv, ShowsThenAsks
  <1>4. CASE diffs' = Append(diffs, [want |-> want, late |-> FALSE])
    <2>1. diffs' \in Seq(Fetches) /\ OvertakenInv(diffs') /\ LastWanted(diffs', want)
      BY <1>1, <1>2, <1>4, AppendAsks
    <2> QED
      BY <1>3, <2>1 DEF DialogInv, ShowsThenAsks
  <1>5. CASE UNCHANGED diffs /\ (opened' = FALSE \/ selected' = NoCommit)
    BY <1>2, <1>3, <1>5 DEF DialogInv, ShowsThenAsks
  <1>6. CASE UNCHANGED diffs /\ UNCHANGED <<opened, selected, scope, against, diff>>
    BY <1>2, <1>3, <1>6 DEF DialogInv, ShowsThenAsks
  <1> QED
    BY <1>4, <1>5, <1>6 DEF ShowsThenAsks

\* A reply shows the diff it is of; the one asked for last is of what is selected.
LEMMA DiffArrivesKeeps ==
  ASSUME DialogInv, NEW k \in 1 .. Len(diffs), DiffArrives(k)
  PROVE  DialogInv'
  <1> DEFINE want == Wanted(selected, scope, against)
  <1>1. /\ UNCHANGED <<log, opened, scope, against, commits, selected>>
        /\ diff' \in {diffs[k].want, NoDiff} /\ diffLate' = diffs[k].late
        /\ diffs' = Overtake(diffs, k)
    BY DEF DiffArrives
  <1>2. diffs \in Seq(Fetches) /\ OvertakenInv(diffs) /\ diffs[k] \in Fetches
    BY DEF DialogInv
  <1>3. diffs' \in Seq(Fetches) /\ OvertakenInv(diffs') /\ diffLate' \in BOOLEAN
    <2>1. diffs[k].late \in BOOLEAN
      BY <1>2 DEF Fetches
    <2> QED
      BY <1>1, <1>2, <2>1, OvertakeKeeps, OvertakeLate
  <1>4. ASSUME opened = TRUE, selected # NoCommit
        PROVE  \/ LastWanted(diffs', want)
               \/ AllLate(diffs') /\ (diffLate' = FALSE => diff' \in {NoDiff, want})
    <2>1. CASE LastWanted(diffs, want) /\ k # Len(diffs)
      BY <1>1, <1>2, <2>1, OvertakeLate
    <2>2. CASE LastWanted(diffs, want) /\ k = Len(diffs)
      <3>1. AllLate(diffs')
        BY <1>1, <1>2, <2>2, OvertakeLate
      <3>2. diffs[k].want = want
        BY <2>2 DEF LastWanted
      <3> QED
        BY <1>1, <3>1, <3>2
    <2>3. CASE AllLate(diffs)
      <3>1. AllLate(diffs')
        BY <1>1, <1>2, <2>3, OvertakeLate
      <3>2. diffLate' = TRUE
        BY <1>1, <2>3 DEF AllLate
      <3> QED
        BY <3>1, <3>2
    <2> QED
      BY <1>4, <2>1, <2>2, <2>3 DEF DialogInv
  <1> HIDE DEF want
  <1>5. want' = want
    BY <1>1 DEF want, Wanted
  <1> QED
    BY <1>1, <1>3, <1>4, <1>5 DEF DialogInv, want

LEMMA DialogStep ==
  ASSUME DialogInv, [HistoryPanelNext]_historyPanelVars
  PROVE  DialogInv'
  <1>1. ASSUME NEW k \in 1 .. Len(diffs), DiffArrives(k) PROVE DialogInv'
    BY <1>1, DiffArrivesKeeps
  <1>2. ASSUME ShowsThenAsks PROVE DialogInv'
    BY <1>2, ShownIsAsked
  <1> USE DEF DialogInv, ShowsThenAsks
  <1>3. ASSUME NEW s \in Scopes, NEW a \in BOOLEAN, OpenHistory(s, a) PROVE ShowsThenAsks
    BY <1>3 DEF OpenHistory, ShowDiff
  <1>4. CASE CloseHistory
    <2>1. ShowsThenAsks
      BY <1>4 DEF CloseHistory
    <2> QED
      BY <1>2, <2>1
  <1>5. CASE RefreshHistory
    <2>1. ShowsThenAsks
      BY <1>5 DEF RefreshHistory
    <2> QED
      BY <1>2, <2>1
  <1>6. CASE CommitElsewhere
    <2>1. ShowsThenAsks
      BY <1>6 DEF CommitElsewhere
    <2> QED
      BY <1>2, <2>1
  <1>7. ASSUME NEW a \in BOOLEAN, SetAgainstCurrent(a) PROVE ShowsThenAsks
    BY <1>7 DEF SetAgainstCurrent, ShowDiff
  <1>8. ASSUME NEW a \in BOOLEAN, Restore(a) PROVE ShowsThenAsks
    BY <1>8 DEF Restore
  <1>9. ASSUME NEW c \in commits, SelectCommit(c) PROVE ShowsThenAsks
    <2>1. c \in Shas
      BY DEF Shas
    <2> QED
      BY <1>9, <2>1 DEF SelectCommit, ShowDiff
  <1>10. ASSUME NEW k \in 1 .. Len(lists), CommitsArrive(k) PROVE ShowsThenAsks
    <2> DEFINE fetched == InScope(lists[k].scope)
               next == IF lists[k].preserve /\ selected \in fetched THEN selected ELSE Newest(fetched)
    <2>1. fetched \subseteq Nat
      BY DEF InScope
    <2>2. Newest(fetched) \in Shas /\ next \in Shas
      BY <2>1 DEF Shas
    <2>3. fetched = {} => next = NoCommit
      BY DEF Newest
    <2> HIDE DEF next, fetched
    <2>4. /\ commits' = fetched /\ selected' = next /\ diff' = IF fetched = {} THEN NoDiff ELSE diff
          /\ ShowDiff(opened, next, scope, against)
          /\ UNCHANGED <<log, opened, scope, against, diffLate>>
      BY <1>10 DEF CommitsArrive, next, fetched
    <2> QED
      BY <2>1, <2>2, <2>3, <2>4 DEF ShowDiff
  <1>11. ASSUME NEW k \in 1 .. Len(lists), CommitsFail(k) PROVE ShowsThenAsks
    BY <1>11 DEF CommitsFail, NoCommit, Shas
  <1>12. CASE RestoreDone
    <2>1. ShowsThenAsks
      BY <1>12 DEF RestoreDone
    <2> QED
      BY <1>2, <2>1
  <1>13. CASE RestoreFailed
    <2>1. ShowsThenAsks
      BY <1>13 DEF RestoreFailed
    <2> QED
      BY <1>2, <2>1
  <1>14. CASE UNCHANGED historyPanelVars
    <2>1. ShowsThenAsks
      BY <1>14 DEF historyPanelVars
    <2> QED
      BY <1>2, <2>1
  <1> HIDE DEF DialogInv, ShowsThenAsks
  <1> QED
    BY <1>1, <1>2, <1>3, <1>4, <1>5, <1>6, <1>7, <1>8, <1>9, <1>10, <1>11, <1>12, <1>13, <1>14
       DEF HistoryPanelNext, ListReplies, DiffReplies, RestoreReplies

\* Whatever is clicked and in whatever order lists and diffs arrive, with none under way
\* the diff in the dialog is of the commit, the scope and the mode that are selected,
\* unless its reply was an overtaken one (useWorkspaceHistory.ts).
THEOREM DiffStaysOfSelection == HistoryPanelSpec => []DiffIsOfSelection
  <1>1. HistoryPanelInit => DialogInv
    <2> SUFFICES ASSUME HistoryPanelInit PROVE DialogInv
      OBVIOUS
    <2>1. diffs \in Seq(Fetches) /\ OvertakenInv(diffs)
      BY DEF HistoryPanelInit, OvertakenInv
    <2>2. /\ log \in Nat /\ commits \subseteq Nat /\ selected = 0 /\ scope \in Scopes
          /\ against \in BOOLEAN /\ opened = FALSE /\ diffLate \in BOOLEAN
      BY DEF HistoryPanelInit, NoCommit, Scopes
    <2> QED
      BY <2>1, <2>2 DEF DialogInv, Shas
  <1>2. DialogInv /\ [HistoryPanelNext]_historyPanelVars => DialogInv'
    BY DialogStep
  <1>3. DialogInv => DiffIsOfSelection
    <2> SUFFICES ASSUME DialogInv, opened, selected # NoCommit, diffs = <<>>, ~diffLate, diff # NoDiff
                 PROVE  diff = Wanted(selected, scope, against)
      BY DEF DiffIsOfSelection
    <2>1. opened = TRUE /\ diffLate = FALSE
      BY DEF DialogInv
    <2>2. \A want : ~LastWanted(diffs, want)
      BY DEF LastWanted
    <2> QED
      BY <2>1, <2>2 DEF DialogInv
  <1> QED
    BY <1>1, <1>2, <1>3, PTL DEF HistoryPanelSpec

-----------------------------------------------------------------------------
(***************************************************************************)
(* The types of the dialog.  The commits shown are of the log, whose newest *)
(* one can be selected because a bounded set of numbers has a last one.     *)
(***************************************************************************)
ListFetches == [scope : Scopes, preserve : BOOLEAN]

DialogRest ==
  /\ log \in 1 .. MaxCommits /\ commits \subseteq 1 .. log /\ selected \in 0 .. log
  /\ clicks \in Nat /\ clicks <= MaxClicks /\ listing \in BOOLEAN
  /\ lists \in Seq(ListFetches) /\ Len(lists) <= MaxFetches /\ Len(diffs) <= MaxFetches
  /\ restore = NoRestore \/ restore.sha \in 1 .. log

LEMMA NewestIsOne ==
  ASSUME NEW n \in Nat, NEW cs \in SUBSET (1 .. n)
  PROVE  Newest(cs) \in 0 .. n
  <1>1. CASE cs = {}
    BY <1>1 DEF Newest, NoCommit
  <1>2. CASE cs # {}
    <2> DEFINE gaps == {m \in Nat : n - m \in cs}
               less == {p \in Nat \X Nat : p[1] < p[2]}
    <2>1. IsWellFoundedOn(less, Nat)
      BY NatLessThanWellFounded DEF OpToRel
    <2>2. gaps # {}
      <3>1. PICK c \in cs : c \in 1 .. n
        BY <1>2
      <3>2. n - c \in Nat /\ n - (n - c) = c
        BY <3>1
      <3> QED
        BY <3>1, <3>2
    <2>3. PICK m \in gaps : \A k \in gaps : <<k, m>> \notin less
      <3>1. gaps \subseteq Nat
        OBVIOUS
      <3> HIDE DEF gaps, less
      <3> QED
        BY <2>1, <2>2, <3>1, WFMin
    <2>4. n - m \in cs /\ m \in Nat
      OBVIOUS
    <2>5. ASSUME NEW d \in cs PROVE d <= n - m
      <3>1. d \in 1 .. n /\ n - d \in Nat /\ n - (n - d) = d
        OBVIOUS
      <3>2. n - d \in gaps
        BY <3>1
      <3>3. ~(n - d < m)
        BY <2>3, <2>4, <3>1, <3>2
      <3> QED
        BY <2>4, <3>1, <3>3
    <2>6. Newest(cs) \in cs
      BY <1>2, <2>4, <2>5 DEF Newest
    <2>7. \A d \in 1 .. n : d \in 0 .. n
      OBVIOUS
    <2> HIDE DEF gaps, less
    <2> QED
      BY <2>6, <2>7
  <1> QED
    BY <1>1, <1>2

LEMMA LogRestStep ==
  ASSUME HistoryPanelAssumption, DialogRest, [HistoryPanelNext]_historyPanelVars
  PROVE  /\ log' \in 1 .. MaxCommits /\ commits' \subseteq 1 .. log' /\ selected' \in 0 .. log'
         /\ restore' = NoRestore \/ restore'.sha \in 1 .. log'
  <1>0. /\ MaxCommits \in Nat /\ log \in 1 .. MaxCommits /\ log \in Nat /\ commits \subseteq 1 .. log
        /\ selected \in 0 .. log /\ (restore = NoRestore \/ restore.sha \in 1 .. log)
        /\ lists \in Seq(ListFetches)
    BY DEF HistoryPanelAssumption, DialogRest
  <1>1. CASE RestoreDone \/ CommitElsewhere
    <2>1. /\ log < MaxCommits /\ log' = log + 1 /\ UNCHANGED <<commits, selected>>
          /\ restore' \in {NoRestore, restore}
      BY <1>1 DEF RestoreDone, CommitElsewhere
    <2>2. log' \in 1 .. MaxCommits /\ 1 .. log \subseteq 1 .. log' /\ 0 .. log \subseteq 0 .. log'
      BY <1>0, <2>1
    <2> QED
      BY <1>0, <2>1, <2>2
  <1>2. ASSUME NEW k \in 1 .. Len(lists), CommitsArrive(k)
        PROVE  /\ log' = log /\ restore' = restore /\ commits' \subseteq 1 .. log /\ selected' \in 0 .. log
    <2> DEFINE fetched == InScope(lists[k].scope)
    <2>1. fetched \subseteq 1 .. log
      BY DEF InScope
    <2>2. Newest(fetched) \in 0 .. log
      BY <1>0, <2>1, NewestIsOne
    <2>3. /\ commits' = fetched /\ selected' \in {selected, Newest(fetched)}
          /\ log' = log /\ restore' = restore
      BY <1>2 DEF CommitsArrive
    <2> QED
      BY <1>0, <2>1, <2>2, <2>3
  <1>3. ASSUME NEW k \in 1 .. Len(lists), CommitsFail(k)
        PROVE  /\ log' = log /\ restore' = restore /\ commits' \subseteq 1 .. log /\ selected' \in 0 .. log
    <2>1. log' = log /\ restore' = restore /\ commits' = {} /\ selected' = 0
      BY <1>3 DEF CommitsFail, NoCommit
    <2> QED
      BY <1>0, <2>1
  <1>4. ASSUME NEW c \in commits, SelectCommit(c)
        PROVE  /\ log' = log /\ restore' = restore /\ commits' \subseteq 1 .. log /\ selected' \in 0 .. log
    <2>1. log' = log /\ restore' = restore /\ commits' = commits /\ selected' = c
      BY <1>4 DEF SelectCommit
    <2> QED
      BY <1>0, <2>1
  <1>5. ASSUME NEW path \in BOOLEAN, Restore(path)
        PROVE  /\ UNCHANGED <<log, commits, selected>> /\ restore'.sha \in 1 .. log
    <2>1. selected # 0 /\ restore' = [sha |-> selected, path |-> path] /\ UNCHANGED <<log, commits, selected>>
      BY <1>5 DEF Restore, NoCommit
    <2>2. restore'.sha = selected
      BY <2>1
    <2> QED
      BY <1>0, <2>1, <2>2
  <1>6. CASE \/ \E s \in Scopes, a \in BOOLEAN : OpenHistory(s, a)
             \/ CloseHistory \/ RefreshHistory \/ RestoreFailed \/ UNCHANGED historyPanelVars
             \/ \E a \in BOOLEAN : SetAgainstCurrent(a)
             \/ \E k \in 1 .. Len(diffs) : DiffArrives(k)
    <2>1. UNCHANGED <<log, commits, selected>> /\ restore' \in {NoRestore, restore}
      BY <1>6 DEF OpenHistory, CloseHistory, RefreshHistory, RestoreFailed, SetAgainstCurrent, DiffArrives,
                  historyPanelVars
    <2> QED
      BY <1>0, <2>1
  <1>7. ASSUME /\ log' = log /\ commits' \subseteq 1 .. log /\ selected' \in 0 .. log
               /\ restore' = restore \/ restore'.sha \in 1 .. log
        PROVE  /\ log' \in 1 .. MaxCommits /\ commits' \subseteq 1 .. log' /\ selected' \in 0 .. log'
               /\ restore' = NoRestore \/ restore'.sha \in 1 .. log'
    BY <1>0, <1>7
  <1> QED
    BY <1>0, <1>1, <1>2, <1>3, <1>4, <1>5, <1>6, <1>7
       DEF HistoryPanelNext, ListReplies, DiffReplies, RestoreReplies

LEMMA ListsRestStep ==
  ASSUME HistoryPanelAssumption, DialogInv, DialogRest, [HistoryPanelNext]_historyPanelVars
  PROVE  lists' \in Seq(ListFetches) /\ Len(lists') <= MaxFetches /\ listing' \in BOOLEAN
  <1>0. MaxFetches \in Nat /\ lists \in Seq(ListFetches) /\ Len(lists) \in Nat /\ Len(lists) <= MaxFetches
    BY DEF HistoryPanelAssumption, DialogRest
  <1>1. listing' \in {listing, TRUE, FALSE}
    BY DEF HistoryPanelNext, OpenHistory, CloseHistory, RefreshHistory, CommitElsewhere, SetAgainstCurrent, Restore,
           SelectCommit, ListReplies, DiffReplies, RestoreReplies, CommitsArrive, CommitsFail, DiffArrives, RestoreDone,
           RestoreFailed, FetchHistoryCommits, historyPanelVars
  <1>2. scope \in Scopes
    BY DEF DialogInv
  <1>3. \/ lists' = lists
        \/ \E s \in Scopes, preserve \in BOOLEAN : FetchHistoryCommits(s, preserve)
        \/ \E k \in 1 .. Len(lists) : lists' = Without(lists, k)
    BY <1>2
       DEF HistoryPanelNext, OpenHistory, CloseHistory, RefreshHistory, CommitElsewhere, SetAgainstCurrent, Restore,
           SelectCommit, ListReplies, DiffReplies, RestoreReplies, CommitsArrive, CommitsFail, DiffArrives, RestoreDone,
           RestoreFailed, historyPanelVars
  <1>4. ASSUME NEW s \in Scopes, NEW preserve \in BOOLEAN, FetchHistoryCommits(s, preserve)
        PROVE  lists' \in Seq(ListFetches) /\ Len(lists') <= MaxFetches
    <2> DEFINE f == [scope |-> s, preserve |-> preserve]
    <2>1. f \in ListFetches
      BY DEF ListFetches
    <2>2. Len(lists) < MaxFetches /\ lists' = Append(lists, f)
      BY <1>4 DEF FetchHistoryCommits
    <2> HIDE DEF f
    <2>3. Append(lists, f) \in Seq(ListFetches) /\ Len(Append(lists, f)) = Len(lists) + 1
      BY <1>0, <2>1
    <2> QED
      BY <1>0, <2>2, <2>3
  <1>5. ASSUME NEW k \in 1 .. Len(lists), lists' = Without(lists, k)
        PROVE  lists' \in Seq(ListFetches) /\ Len(lists') <= MaxFetches
    <2>1. Without(lists, k) \in Seq(ListFetches) /\ Len(Without(lists, k)) = Len(lists) - 1
      BY <1>0, WithoutKeeps
    <2> QED
      BY <1>0, <1>5, <2>1
  <1>6. listing' \in BOOLEAN
    BY <1>1 DEF DialogRest
  <1> QED
    BY <1>0, <1>3, <1>4, <1>5, <1>6

LEMMA DiffsRestStep ==
  ASSUME HistoryPanelAssumption, DialogInv, DialogRest, [HistoryPanelNext]_historyPanelVars
  PROVE  Len(diffs') <= MaxFetches
  <1>0. MaxFetches \in Nat /\ diffs \in Seq(Fetches) /\ Len(diffs) \in Nat /\ Len(diffs) <= MaxFetches
    BY DEF HistoryPanelAssumption, DialogInv, DialogRest
  <1>1. \/ diffs' = diffs
        \/ Len(diffs) < MaxFetches /\ \E e : diffs' = Append(diffs, e)
        \/ \E k \in 1 .. Len(diffs) : diffs' = Overtake(diffs, k)
    BY DEF HistoryPanelNext, OpenHistory, CloseHistory, RefreshHistory, CommitElsewhere, SetAgainstCurrent, Restore,
           SelectCommit, ListReplies, DiffReplies, RestoreReplies, CommitsArrive, CommitsFail, DiffArrives, RestoreDone,
           RestoreFailed, ShowDiff, historyPanelVars
  <1>2. \A e : Len(Append(diffs, e)) = Len(diffs) + 1
    BY <1>0
  <1>3. \A k \in 1 .. Len(diffs) : Len(Overtake(diffs, k)) = Len(diffs) - 1
    BY <1>0, OvertakeKeeps
  <1> QED
    BY <1>0, <1>1, <1>2, <1>3

LEMMA ClicksRestStep ==
  ASSUME HistoryPanelAssumption, DialogRest, [HistoryPanelNext]_historyPanelVars
  PROVE  clicks' \in Nat /\ clicks' <= MaxClicks
  <1>1. \/ clicks' = clicks
        \/ clicks < MaxClicks /\ clicks' = clicks + 1
    BY DEF HistoryPanelNext, OpenHistory, CloseHistory, RefreshHistory, CommitElsewhere, SetAgainstCurrent, Restore,
           SelectCommit, ListReplies, DiffReplies, RestoreReplies, CommitsArrive, CommitsFail, DiffArrives, RestoreDone,
           RestoreFailed, Click, historyPanelVars
  <1>2. MaxClicks \in Nat /\ clicks \in Nat /\ clicks <= MaxClicks
    BY DEF HistoryPanelAssumption, DialogRest
  <1> QED
    BY <1>1, <1>2

LEMMA DialogInitially ==
  ASSUME HistoryPanelAssumption, HistoryPanelInit
  PROVE  DialogInv /\ DialogRest
  <1>1. diffs \in Seq(Fetches) /\ OvertakenInv(diffs)
    BY DEF HistoryPanelInit, OvertakenInv
  <1>2. /\ log = 1 /\ commits = {} /\ selected = 0 /\ scope \in Scopes /\ clicks = 0 /\ listing = FALSE
        /\ against \in BOOLEAN /\ opened = FALSE /\ diffLate \in BOOLEAN /\ restore = NoRestore
        /\ Len(diffs) = 0 /\ Len(lists) = 0
    BY DEF HistoryPanelInit, NoCommit, Scopes
  <1>3. lists \in Seq(ListFetches)
    BY DEF HistoryPanelInit
  <1>4. 1 \in 1 .. MaxCommits /\ MaxFetches \in Nat /\ MaxClicks \in Nat
    BY DEF HistoryPanelAssumption
  <1>5. DialogInv
    BY <1>1, <1>2 DEF DialogInv, Shas
  <1>6. 0 <= MaxFetches /\ 0 <= MaxClicks /\ 0 \in Nat /\ 0 \in 0 .. 1
    BY <1>4
  <1>7. DialogRest
    BY <1>2, <1>3, <1>4, <1>6 DEF DialogRest
  <1> QED
    BY <1>5, <1>7

LEMMA DialogTyped == HistoryPanelSpec => []HistoryPanelTypeOK
  <1>1. HistoryPanelInit => DialogInv /\ DialogRest
    BY DialogInitially, HistoryPanelAssumption
  <1>2. DialogInv /\ DialogRest /\ [HistoryPanelNext]_historyPanelVars => DialogInv' /\ DialogRest'
    <2> SUFFICES ASSUME DialogInv, DialogRest, [HistoryPanelNext]_historyPanelVars PROVE DialogInv' /\ DialogRest'
      OBVIOUS
    <2>1. DialogInv'
      BY DialogStep
    <2>2. /\ log' \in 1 .. MaxCommits /\ commits' \subseteq 1 .. log' /\ selected' \in 0 .. log'
          /\ restore' = NoRestore \/ restore'.sha \in 1 .. log'
      BY LogRestStep, HistoryPanelAssumption
    <2>3. lists' \in Seq(ListFetches) /\ Len(lists') <= MaxFetches /\ listing' \in BOOLEAN
      BY ListsRestStep, HistoryPanelAssumption
    <2>4. Len(diffs') <= MaxFetches /\ clicks' \in Nat /\ clicks' <= MaxClicks
      BY DiffsRestStep, ClicksRestStep, HistoryPanelAssumption
    <2>5. DialogRest'
      BY <2>2, <2>3, <2>4 DEF DialogRest, NoRestore
    <2> QED
      BY <2>1, <2>5
  <1>3. DialogInv /\ DialogRest => HistoryPanelTypeOK
    BY DEF DialogInv, DialogRest, HistoryPanelTypeOK
  <1> QED
    BY <1>1, <1>2, <1>3, PTL DEF HistoryPanelSpec

\* The types of the history are in its invariant.
LEMMA HistoryTyped == HistorySpec => []HistoryTypeOK
  <1>1. HistoryInv => HistoryTypeOK
    <2> SUFFICES ASSUME HistoryInv PROVE HistoryTypeOK
      OBVIOUS
    <2>1. /\ payload \in Payloads /\ index \in Payloads /\ head \in Payloads /\ committed \subseteq Payloads
          /\ request \in [Threads -> RequestSet \cup {NoRequest}]
          /\ lock \in Threads \cup {Nobody} /\ requests \in 0 .. MaxRequests /\ overlapped \in BOOLEAN
          /\ renamed \subseteq Files
      BY DEF HistoryInv, HistoryTypes
    <2>2. \A t \in Threads : request[t] # NoRequest =>
            /\ request[t].op \in {"write", "restore"}
            /\ request[t].pc \in {"change", "stage", "validate", "commit", "clear", "fill", "undo"}
            /\ request[t].new \in Payloads /\ request[t].old \in Payloads
      BY <2>1 DEF RequestSet
    <2>3. {payload, index, head} \cup committed \subseteq Payloads
      BY <2>1
    <2> QED
      BY <2>1, <2>2, <2>3 DEF HistoryTypeOK
  <1> QED
    BY <1>1, HistoryInvHolds, HistoryAssumption, PTL

-----------------------------------------------------------------------------
\* What the API keeps of a workspace beside its files, with the frame, the
\* orders and the audit log: a step is a step of one part and leaves the others
\* alone, so whatever is proved of a part is proved of all together.
THEOREM HistoriesAreTheirParts ==
  Spec => /\ HistorySpec /\ HistoryPanelSpec /\ MembersSpec /\ ShellSpec /\ OrdersSpec /\ AuditSpec
  <1>1. Init => /\ HistoryInit /\ HistoryPanelInit /\ MembersInit
                /\ ShellInit /\ OrdersInit /\ AuditInit
    BY DEF Init
  <1>2. [Next]_vars => /\ [HistoryNext]_historyVars /\ [HistoryPanelNext]_historyPanelVars
                       /\ [MembersNext]_membersVars /\ [ShellNext]_shellVars
                       /\ [OrdersNext]_ordersVars /\ [AuditNext]_auditVars
    BY DEF Next, vars
  <1> QED
    BY <1>1, <1>2, PTL DEF Spec, HistorySpec, HistoryPanelSpec, MembersSpec, ShellSpec, OrdersSpec, AuditSpec

\* The parts keep their types (mixins/history, useWorkspaceHistory.ts,
\* mixins/rbac.py, DeploymentWorkspaceContainer.tsx, BillingPanel.tsx,
\* audit_logs_query.py, AuditLogsPanel.tsx).
THEOREM HistoriesKeepTypes == AuditSpaces # {} /\ Shops # {} => (Spec => []HistoriesTypeOK)
  <1> SUFFICES ASSUME AuditSpaces # {}, Shops # {} PROVE Spec => []HistoriesTypeOK
    OBVIOUS
  <1>1. HistoryTypeOK /\ HistoryPanelTypeOK /\ MembersTypeOK /\ ShellTypeOK /\ OrdersTypeOK /\ AuditTypeOK
        => HistoriesTypeOK
    BY DEF HistoriesTypeOK
  <1>2. OrdersSpec => []OrdersTypeOK
    BY OrdersTyped
  <1>3. AuditSpec => []AuditTypeOK
    BY AuditTyped
  <1> QED
    BY <1>1, <1>2, <1>3, HistoriesAreTheirParts, HistoryTyped, DialogTyped, MembersTyped, ShellTyped, PTL

\* What the parts promise holds of them together, the specification of the run
\* (_validate_no_plaintext_secrets, useWorkspaceHistory.ts, mixins/rbac.py,
\* DeploymentWorkspaceContainer.tsx, BillingPanel.tsx, AuditLogsPanel.tsx).
THEOREM HistoriesKeepPromises ==
  AuditSpaces # {} /\ Shops # {} =>
    (Spec => /\ []NothingLeftStaged /\ []SecretsOnlyRenamed /\ []DiffIsOfSelection
             /\ []AddressesUnique /\ []DecisionsKept /\ []ShellAgrees
             /\ []OrdersAgree /\ []AuditAgrees /\ []PanelShowsItsQuery)
  <1> SUFFICES ASSUME AuditSpaces # {}, Shops # {}
               PROVE  Spec => /\ []NothingLeftStaged /\ []SecretsOnlyRenamed /\ []DiffIsOfSelection
                              /\ []AddressesUnique /\ []DecisionsKept /\ []ShellAgrees
                              /\ []OrdersAgree /\ []AuditAgrees /\ []PanelShowsItsQuery
    OBVIOUS
  <1>1. HistorySpec => []NothingLeftStaged /\ []SecretsOnlyRenamed
    BY NothingStaysStaged, SecretsAreInRenamed, HistoryAssumption, PTL
  <1>2. OrdersSpec => []OrdersAgree
    BY OrdersStayAgreed
  <1>3. AuditSpec => []AuditAgrees
    BY AuditStaysAgreed
  <1>4. AuditSpec => []PanelShowsItsQuery
    BY AuditPanelShowsItsQuery
  <1> QED
    BY <1>1, <1>2, <1>3, <1>4, HistoriesAreTheirParts, DiffStaysOfSelection, AddressesStayUnique, DecisionsAreKept,
       ShellStaysAgreed, PTL
=============================================================================
