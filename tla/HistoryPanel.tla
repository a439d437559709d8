---------------------------- MODULE HistoryPanel ----------------------------
(* The history dialog of the workspace panel (useWorkspaceHistory.ts,        *)
(* HistoryModal.tsx): the list of commits of a scope, the commit selected in *)
(* it and the diff of that commit.  Lists and diffs are fetched anew for     *)
(* every change of what is shown, and their replies come in any order.       *)
EXTENDS Naturals, Sequences

CONSTANTS
  MaxCommits,   \* bound: commits the workspace ever has, the first with its creation
  Touching,     \* the commits that touch the file whose history can be opened
  MaxFetches,   \* bound: fetches of a kind under way at a time
  MaxClicks     \* bound: what the user does in the dialog

ASSUME HistoryPanelAssumption ==
  /\ MaxCommits \in Nat \ {0} /\ {MaxFetches, MaxClicks} \subseteq Nat
  /\ Touching \subseteq 1 .. MaxCommits

VARIABLES
  log,                                       \* the API: how many commits there are
  opened, scope, against, commits, selected, diff, listing, restore,
  clicks, lists, diffs,                      \* fetches under way, oldest first
  diffLate                         \* history: the last reply was an overtaken one

historyPanelVars == <<log, opened, scope, against, commits, selected, diff, listing,
                      restore, clicks, lists, diffs, diffLate>>

Scopes == {"workspace", "file"}
InScopeFromZero(s) == {c \in 0 .. log : s = "workspace" \/ c \in Touching}  \* (Defect.)
InScope(s) == {c \in 1 .. log : s = "workspace" \/ c \in Touching}
NoCommit == 0
NoDiff == [sha |-> NoCommit]
NoRestore == [sha |-> NoCommit]
Newest(cs) == IF cs = {} THEN NoCommit ELSE CHOOSE c \in cs : \A d \in cs : d <= c

HistoryPanelTypeOK ==
  /\ log \in 1 .. MaxCommits /\ {opened, against, listing, diffLate} \subseteq BOOLEAN
  /\ scope \in Scopes /\ commits \subseteq 1 .. log /\ selected \in 0 .. log
  /\ clicks <= MaxClicks /\ Len(lists) <= MaxFetches /\ Len(diffs) <= MaxFetches
  /\ restore = NoRestore \/ restore.sha \in 1 .. log

HistoryPanelInit ==
  /\ log = 1 /\ opened = FALSE /\ scope = "workspace" /\ against = FALSE
  /\ commits = {} /\ selected = NoCommit /\ diff = NoDiff /\ listing = FALSE
  /\ restore = NoRestore /\ clicks = 0 /\ lists = <<>> /\ diffs = <<>> /\ diffLate = FALSE

Without(s, k) == [j \in 1 .. Len(s) - 1 |-> IF j < k THEN s[j] ELSE s[j + 1]]
\* The k-th fetch is answered: the ones issued before it are overtaken.
Overtake(s, k) == Without([j \in 1 .. Len(s) |-> IF j < k THEN [s[j] EXCEPT !.late = TRUE] ELSE s[j]], k)

Wanted(sha, s, a) == [sha |-> sha, scope |-> s, against |-> a]

\* The effect on the selection, the scope and the mode: a new diff is fetched when
\* one of them changed while the dialog is open.
ShowDiffOfMode(isOpen, sha, s, a) ==  \* (Defect: the mode is no dependency of the effect.)
  IF isOpen /\ sha # NoCommit /\ <<isOpen, sha, s>> # <<opened, selected, scope>>
  THEN /\ Len(diffs) < MaxFetches
       /\ diffs' = Append(diffs, [want |-> Wanted(sha, s, a), late |-> FALSE])
  ELSE UNCHANGED diffs
ShowDiff(isOpen, sha, s, a) ==
  IF isOpen /\ sha # NoCommit /\ <<isOpen, sha, s, a>> # <<opened, selected, scope, against>>
  THEN /\ Len(diffs) < MaxFetches
       /\ diffs' = Append(diffs, [want |-> Wanted(sha, s, a), late |-> FALSE])
  ELSE UNCHANGED diffs

FetchHistoryCommits(s, preserve) ==
  /\ Len(lists) < MaxFetches /\ listing' = TRUE
  /\ lists' = Append(lists, [scope |-> s, preserve |-> preserve])

Click == clicks < MaxClicks /\ clicks' = clicks + 1

\* The entry points of the panel and of the context menu; the commits and the
\* selection of the scope shown before stay until the list is there.
OpenHistory(s, a) ==
  /\ Click /\ ~opened /\ opened' = TRUE /\ scope' = s /\ against' = a
  /\ FetchHistoryCommits(s, FALSE) /\ ShowDiff(TRUE, selected, s, a)
  /\ UNCHANGED <<log, commits, selected, diff, restore, diffLate>>

CloseHistory ==
  /\ Click /\ opened /\ restore = NoRestore /\ opened' = FALSE
  /\ UNCHANGED <<log, scope, against, commits, selected, diff, listing, restore,
                 lists, diffs, diffLate>>

SetAgainstCurrent(a) ==
  /\ Click /\ opened /\ against' = a /\ ShowDiff(TRUE, selected, scope, a)
  /\ UNCHANGED <<log, opened, scope, commits, selected, diff, listing, restore, lists,
                 diffLate>>

RefreshHistory ==
  /\ Click /\ opened /\ ~listing /\ FetchHistoryCommits(scope, TRUE)
  /\ UNCHANGED <<log, opened, scope, against, commits, selected, diff, restore, diffs,
                 diffLate>>

SelectCommit(c) ==
  /\ Click /\ opened /\ ~listing /\ c \in commits /\ selected' = c
  /\ ShowDiff(TRUE, c, scope, against)
  /\ UNCHANGED <<log, opened, scope, against, commits, diff, listing, restore, lists,
                 diffLate>>

\* fetchHistoryCommits: the list replaces the one shown, whatever scope it is of.
CommitsArrive(k) ==
  LET fetched == InScope(lists[k].scope)
      next == IF lists[k].preserve /\ selected \in fetched THEN selected ELSE Newest(fetched)
  IN
  /\ commits' = fetched /\ selected' = next
  /\ diff' = IF fetched = {} THEN NoDiff ELSE diff
  /\ ShowDiff(opened, next, scope, against)
  /\ listing' = FALSE /\ lists' = Without(lists, k)
  /\ UNCHANGED <<clicks, log, opened, scope, against, restore, diffLate>>

CommitsFail(k) ==
  /\ commits' = {} /\ selected' = NoCommit /\ diff' = NoDiff
  /\ listing' = FALSE /\ lists' = Without(lists, k)
  /\ UNCHANGED <<clicks, log, opened, scope, against, restore, diffs, diffLate>>

\* loadHistoryDiff: the diff replaces the one shown, whatever commit it is of.
DiffArrives(k) ==
  /\ diff' \in {diffs[k].want, NoDiff}
  /\ diffLate' = diffs[k].late /\ diffs' = Overtake(diffs, k)
  /\ UNCHANGED <<clicks, log, opened, scope, against, commits, selected, listing, restore, lists>>

\* restoreHistoryWorkspace and restoreHistoryPath: the buttons do not wait for the list.
Restore(path) ==
  /\ Click /\ opened /\ selected # NoCommit /\ restore = NoRestore
  /\ path => scope = "file"
  /\ restore' = [sha |-> selected, path |-> path]
  /\ UNCHANGED <<log, opened, scope, against, commits, selected, diff, listing,
                 lists, diffs, diffLate>>

\* The restore is a new commit, and the list is fetched again.
RestoreDone ==
  /\ restore # NoRestore /\ restore' = NoRestore
  /\ log < MaxCommits /\ log' = log + 1
  /\ FetchHistoryCommits(scope, TRUE)
  /\ UNCHANGED <<clicks, opened, scope, against, commits, selected, diff, diffs, diffLate>>

RestoreFailed ==
  /\ restore # NoRestore /\ restore' = NoRestore
  /\ UNCHANGED <<clicks, log, opened, scope, against, commits, selected, diff, listing,
                 lists, diffs, diffLate>>

\* Another operation of the panel (a save, an import) adds a commit.
CommitElsewhere ==
  /\ log < MaxCommits /\ log' = log + 1
  /\ UNCHANGED <<clicks, opened, scope, against, commits, selected, diff, listing, restore,
                 lists, diffs, diffLate>>

ListReplies == \E k \in 1 .. Len(lists) : CommitsArrive(k) \/ CommitsFail(k)
DiffReplies == \E k \in 1 .. Len(diffs) : DiffArrives(k)
RestoreReplies == RestoreDone \/ RestoreFailed

HistoryPanelNext ==
  \/ \E s \in Scopes, a \in BOOLEAN : OpenHistory(s, a)
  \/ CloseHistory \/ RefreshHistory \/ CommitElsewhere
  \/ \E a \in BOOLEAN : SetAgainstCurrent(a) \/ Restore(a)
  \/ \E c \in commits : SelectCommit(c)
  \/ ListReplies \/ DiffReplies \/ RestoreReplies

HistoryPanelSpec == HistoryPanelInit /\ [][HistoryPanelNext]_historyPanelVars

------------------------------------------------------------------------------
(* With nothing under way the diff in the dialog is of the commit, the scope *)
(* and the mode that are selected, unless its reply had been overtaken: none *)
(* of the changes leaves an old diff standing (the effect on them).          *)
DiffIsOfSelection ==
  (opened /\ selected # NoCommit /\ diffs = <<>> /\ ~diffLate /\ diff # NoDiff) =>
    diff = Wanted(selected, scope, against)
=============================================================================
