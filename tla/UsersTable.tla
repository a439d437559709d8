----------------------------- MODULE UsersTable -----------------------------
(* The Users tab (UsersTabPanel.tsx): a table over group_vars/all.yml of the *)
(* open workspace that saves itself half a second after the last edit and    *)
(* polls the file for changes made elsewhere.  A save is a timer, then a PUT *)
(* that the API applies, then its answer; a load or a poll is a GET that the *)
(* API reads, then its answer; the tab may be left, the workspace switched   *)
(* and the file written by others between any two of these.                  *)
EXTENDS Naturals, FiniteSets, SequencesExt

CONSTANTS
  Homes,      \* workspaces
  UserCount,  \* user names are 1..UserCount
  NoOne,      \* no user, no workspace: null
  MaxEdits, MaxPolls, MaxWrites  \* bounds: user's steps, polls, writes by others

ASSUME UsersAssumption == UserCount \in Nat \ {0} /\ Homes # {} /\ NoOne \notin Homes \cup 1..UserCount

VARIABLES
  allYml,     \* the API: group_vars/all.yml of each workspace, or NoFile (404)
  home, onTab, rows, docOf, remoteFp, localFp, \* the panel; docOf: whose doc it keeps
  saveTimer, loading, failing, externalChanged, detailKey,
  enc, prompt,        \* the password being encrypted and its dialog
  puts, gets,         \* requests in flight
  editCount, pollCount, writeCount,
  meant, lossy, adrift, strayed, unseen  \* history: see the properties

panelState == <<rows, docOf, remoteFp, localFp, saveTimer, loading, failing, externalChanged, detailKey>>
bounds == <<editCount, pollCount, writeCount>>
usersVars == <<allYml, home, onTab, panelState, enc, prompt, puts, gets, bounds, meant, lossy, adrift, strayed, unseen>>

UserNames == 1..UserCount
Values == {0, 1}
Gone == 2                             \* the value of a name that no user has
Users == [UserNames -> Values \cup {Gone}]
Row == [name : UserNames, val : Values]

\* rowsToYamlMap: of two rows of one name the later one is written.
YamlMap(rs) ==
  [n \in UserNames |-> IF \E i \in DOMAIN rs : rs[i].name = n
                       THEN LET last == CHOOSE i \in DOMAIN rs : rs[i].name = n /\ \A j \in DOMAIN rs : rs[j].name = n => j <= i
                            IN  rs[last].val
                       ELSE Gone]
RowsOf(us) == SetToSeq({[name |-> n, val |-> us[n]] : n \in {m \in UserNames : us[m] # Gone}})

NoFile == [users |-> <<>>, rest |-> NoOne]
NoTimer == [rows |-> <<>>, home |-> NoOne, doc |-> NoOne]
InFile(f) == IF f = NoFile THEN [n \in UserNames |-> Gone] ELSE f.users
Twins(rs) == \E i, j \in DOMAIN rs : i # j /\ rs[i].name = rs[j].name

UsersTypeOK ==
  /\ \A w \in Homes : allYml[w] # NoFile => allYml[w] \in [users : Users, rest : Homes \cup {NoOne}]
  /\ home \in Homes /\ docOf \in Homes \cup {NoOne} /\ detailKey \in UserNames \cup {NoOne}
  /\ \A i \in DOMAIN rows : rows[i] \in Row
  /\ {remoteFp, localFp} \subseteq Users \cup {<<>>}
  /\ {onTab, loading, failing, externalChanged, prompt, lossy, adrift, strayed} \subseteq BOOLEAN
  /\ enc # NoOne => enc \in [name : UserNames, home : Homes, doc : Homes \cup {NoOne}]
  /\ \A p \in puts : p.state \in {"sent", "done", "failed"} /\ p.home \in Homes
  /\ \A g \in gets : g.kind \in {"load", "poll"} /\ g.state \in {"sent", "read", "stale", "failed"}

\* bound: every user there is, each with the same value, in the files at first
FirstFiles == {[users |-> [n \in UserNames |-> 0], rest |-> w] : w \in Homes}
UsersInit ==
  /\ home = (CHOOSE w \in Homes : TRUE) /\ onTab = FALSE
  /\ allYml \in [Homes -> {NoFile} \cup FirstFiles] /\ allYml[home] # NoFile
  /\ \A w \in Homes : allYml[w] # NoFile => allYml[w].rest = w
  /\ rows = <<>> /\ docOf = NoOne /\ remoteFp = <<>> /\ localFp = <<>>
  /\ saveTimer = NoTimer /\ loading = FALSE /\ failing = FALSE /\ externalChanged = FALSE
  /\ detailKey = NoOne /\ enc = NoOne /\ prompt = FALSE /\ puts = {} /\ gets = {}
  /\ editCount = 0 /\ pollCount = 0 /\ writeCount = 0
  /\ meant = allYml /\ lossy = FALSE /\ adrift = FALSE /\ strayed = FALSE /\ unseen = {}

Get(kind) == [kind |-> kind, home |-> home, state |-> "sent", reply |-> NoFile]
Edited == editCount < MaxEdits /\ editCount' = editCount + 1 /\ UNCHANGED <<pollCount, writeCount>>

------------------------------------------------------------------------------
(* Saving.                                                                     *)
\* (Defect: a pending save is not rescheduled, and writes the rows it was made for.)
ScheduleSaveOnce(next, w, doc) ==
  /\ rows' = next /\ localFp' = YamlMap(next)
  /\ IF YamlMap(next) = remoteFp \/ saveTimer # NoTimer
     THEN UNCHANGED <<saveTimer, failing, adrift>>
     ELSE saveTimer' = [rows |-> next, home |-> w, doc |-> doc] /\ failing' = FALSE /\ adrift' = FALSE
\* scheduleSave(next) as a rendering for workspace w and doc made it.  An edit
\* back to what the file last held returns early and leaves the timer running.
ScheduleSave(next, w, doc) ==
  /\ rows' = next /\ localFp' = YamlMap(next)
  /\ IF YamlMap(next) = remoteFp
     THEN UNCHANGED <<saveTimer, failing>> /\ adrift' = (adrift \/ saveTimer # NoTimer \/ puts # {})
     ELSE saveTimer' = [rows |-> next, home |-> w, doc |-> doc] /\ failing' = FALSE /\ adrift' = FALSE

\* The timer fires: writeYaml sends what was scheduled, whatever the table shows now.
FireSave ==
  /\ saveTimer # NoTimer /\ saveTimer' = NoTimer
  /\ puts' = puts \cup {[rows |-> saveTimer.rows, home |-> saveTimer.home, doc |-> saveTimer.doc,
                         mounted |-> TRUE, state |-> "sent"]}
  /\ lossy' = (lossy \/ puts # {}) /\ adrift' = (adrift \/ puts # {})
  /\ UNCHANGED <<allYml, home, onTab, rows, docOf, remoteFp, localFp, loading, failing, externalChanged,
                 detailKey, enc, prompt, gets, bounds, meant, strayed, unseen>>

Stale(w, gs) == {IF g.home = w /\ g.state = "read" THEN [g EXCEPT !.state = "stale"] ELSE g : g \in gs}

PutApplied(p) ==  \* the API writes the file, or refuses
  /\ p \in puts /\ p.state = "sent"
  /\ \/ /\ puts' = (puts \ {p}) \cup {[p EXCEPT !.state = "done"]}
        /\ allYml' = [allYml EXCEPT ![p.home] = [users |-> YamlMap(p.rows), rest |-> p.doc]]
        /\ gets' = Stale(p.home, gets) /\ lossy' = lossy
     \/ /\ puts' = (puts \ {p}) \cup {[p EXCEPT !.state = "failed"]} /\ lossy' = TRUE
        /\ UNCHANGED <<allYml, gets>>
  /\ UNCHANGED <<home, onTab, panelState, enc, prompt, bounds, meant, adrift, strayed, unseen>>

\* After writeYaml: it has set both fingerprints to the saved rows, so the
\* comparison that would reschedule an edit made meanwhile finds nothing.
PutAnswered(p) ==
  /\ p \in puts /\ p.state \in {"done", "failed"} /\ puts' = puts \ {p}
  /\ IF p.mounted
     THEN IF p.state = "done"
          THEN /\ remoteFp' = YamlMap(p.rows) /\ localFp' = YamlMap(p.rows)
               /\ prompt' \in {prompt, FALSE}  \* a row that was new is replaced, and the dialog on it closes
               /\ failing' = FALSE
          ELSE failing' = TRUE /\ UNCHANGED <<remoteFp, localFp, prompt>>
     ELSE UNCHANGED <<remoteFp, localFp, failing, prompt>>
  /\ UNCHANGED <<allYml, home, onTab, rows, docOf, saveTimer, loading, externalChanged, detailKey, enc, gets,
                 bounds, meant, lossy, adrift, strayed, unseen>>

------------------------------------------------------------------------------
(* Loading and polling.                                                        *)
Request(kind) == gets' = gets \cup {Get(kind)}

OpenUsersTab ==  \* the panel is mounted anew
  /\ ~onTab /\ onTab' = TRUE /\ Request("load") /\ loading' = TRUE
  /\ rows' = <<>> /\ docOf' = NoOne /\ remoteFp' = <<>> /\ localFp' = <<>>
  /\ failing' = FALSE /\ externalChanged' = FALSE /\ detailKey' = NoOne /\ adrift' = FALSE
  /\ Edited /\ UNCHANGED <<allYml, home, saveTimer, enc, prompt, puts, meant, lossy, strayed, unseen>>

\* The cleanup of the effect clears the timer: what it would have saved is gone.
LeaveUsersTab ==
  /\ onTab /\ ~prompt /\ detailKey = NoOne /\ onTab' = FALSE
  /\ saveTimer' = NoTimer /\ lossy' = (lossy \/ saveTimer # NoTimer)
  /\ puts' = {[p EXCEPT !.mounted = FALSE] : p \in puts} /\ gets' = {} /\ enc' = NoOne
  /\ Edited
  /\ UNCHANGED <<allYml, home, rows, docOf, remoteFp, localFp, loading, failing, externalChanged, detailKey,
                 prompt, meant, adrift, strayed, unseen>>

\* Another workspace is opened in the header: the rows stay until its own are
\* loaded, and what is on its way stays on its way.
SwitchHome(w) ==
  /\ w # home /\ ~prompt /\ detailKey = NoOne /\ home' = w
  /\ IF onTab THEN gets' = gets \cup {[Get("load") EXCEPT !.home = w]} /\ loading' = TRUE
              ELSE UNCHANGED <<gets, loading>>
  /\ Edited
  /\ UNCHANGED <<allYml, onTab, rows, docOf, remoteFp, localFp, saveTimer, failing, externalChanged, detailKey,
                 enc, prompt, puts, meant, lossy, adrift, strayed, unseen>>

Reload ==  \* "Reload (discard local edits)"; a save that waits is not discarded
  /\ onTab /\ externalChanged /\ ~prompt /\ detailKey = NoOne /\ Request("load") /\ loading' = TRUE
  /\ Edited
  /\ UNCHANGED <<allYml, home, onTab, rows, docOf, remoteFp, localFp, saveTimer, failing, externalChanged, detailKey,
                 enc, prompt, puts, meant, lossy, adrift, strayed, unseen>>

PollTick ==
  /\ onTab /\ pollCount < MaxPolls /\ pollCount' = pollCount + 1 /\ Request("poll")
  /\ UNCHANGED <<allYml, home, onTab, panelState, enc, prompt, puts, editCount, writeCount, meant, lossy, adrift, strayed, unseen>>

FileRead(g) ==  \* the API reads the file, or the request fails
  /\ g \in gets /\ g.state = "sent"
  /\ \E r \in {[g EXCEPT !.state = "read", !.reply = allYml[g.home]], [g EXCEPT !.state = "failed"]} :
       gets' = (gets \ {g}) \cup {r}
  /\ UNCHANGED <<allYml, home, onTab, panelState, enc, prompt, puts, bounds, meant, lossy, adrift, strayed, unseen>>

ShowAnswer(g) ==
  /\ rows' = RowsOf(InFile(g.reply)) /\ docOf' = g.reply.rest
  /\ remoteFp' = g.reply.users /\ localFp' = g.reply.users
  /\ prompt' = FALSE  \* rows are new objects: the dialog on one closes
  /\ adrift' = (saveTimer # NoTimer \/ puts # {})
  /\ detailKey' = IF detailKey # NoOne /\ InFile(g.reply)[detailKey] = Gone THEN NoOne ELSE detailKey
  /\ lossy' = (lossy \/ g.state = "stale" \/ ((g.kind = "load" \/ loading) /\ (saveTimer # NoTimer \/ puts # {})))
  /\ unseen' = IF g.state = "read" THEN unseen \ {g.home} ELSE unseen
  /\ strayed' = (strayed \/ g.home # home)

LoadAnswered(g) ==
  /\ g \in gets /\ g.kind = "load" /\ g.state # "sent" /\ gets' = gets \ {g} /\ loading' = FALSE
  /\ IF g.state = "failed"
     THEN /\ strayed' = (strayed \/ docOf # home)
          /\ UNCHANGED <<rows, docOf, remoteFp, localFp, externalChanged, detailKey, prompt, adrift, lossy, unseen>>
     ELSE ShowAnswer(g) /\ externalChanged' = FALSE
  /\ UNCHANGED <<allYml, home, onTab, saveTimer, failing, enc, puts, bounds, meant>>

PollAnswered(g) ==
  /\ g \in gets /\ g.kind = "poll" /\ g.state # "sent" /\ gets' = gets \ {g}
  /\ IF g.state = "failed" \/ g.reply = NoFile \/ InFile(g.reply) = remoteFp
     THEN UNCHANGED <<rows, docOf, remoteFp, localFp, externalChanged, detailKey, prompt, adrift, lossy, strayed, unseen>>
     ELSE IF localFp # remoteFp
     THEN /\ externalChanged' = TRUE
          /\ UNCHANGED <<rows, docOf, remoteFp, localFp, detailKey, prompt, adrift, lossy, strayed, unseen>>
     ELSE ShowAnswer(g) /\ UNCHANGED externalChanged
  /\ UNCHANGED <<allYml, home, onTab, saveTimer, loading, failing, enc, puts, bounds, meant>>

------------------------------------------------------------------------------
(* Edits.                                                                      *)
Free == onTab /\ ~prompt
InTable == Free /\ ~loading /\ detailKey = NoOne  \* while it loads the table shows no rows
InDialog(i) == Free /\ detailKey # NoOne /\ rows[i].name = detailKey  \* the dialog of a row lies over the page

\* What is meant to be in the file after an edit: the names it changed have
\* the values they have now.
Meaning(next, w) ==
  [users |-> [n \in UserNames |-> IF YamlMap(next)[n] # YamlMap(rows)[n] THEN YamlMap(next)[n] ELSE InFile(meant[w])[n]],
   rest |-> meant[w].rest]
Edit(next) ==
  /\ Edited /\ ScheduleSave(next, home, docOf)
  /\ meant' = [meant EXCEPT ![home] = Meaning(next, home)]
  /\ lossy' = (lossy \/ adrift' \/ Twins(next) \/ home \in unseen)
  /\ UNCHANGED <<allYml, home, onTab, docOf, remoteFp, loading, externalChanged, enc, prompt, puts, gets, unseen>>

CreateUser(n) ==  \* the draft row knows all rows
  /\ InTable /\ \A i \in DOMAIN rows : rows[i].name # n
  /\ Edit(Append(rows, [name |-> n, val |-> 0])) /\ UNCHANGED detailKey

\* updateRowByUsername patches every row of that name.
Patched(name, patch(_)) == [i \in DOMAIN rows |-> IF rows[i].name = name THEN patch(rows[i]) ELSE rows[i]]
ChangeField(i) == Edit(Patched(rows[i].name, LAMBDA r : [r EXCEPT !.val = 1 - @])) /\ UNCHANGED detailKey
ChangeInTable(i) == InTable /\ ChangeField(i)
ChangeInDialog(i) == InDialog(i) /\ ChangeField(i)

\* A row of the table compares its new name with the rows shown beside it: others
\* are on another page or filtered out.
RenameInTable(i, n, beside) ==
  /\ InTable /\ i \notin beside /\ n # rows[i].name /\ \A j \in beside : rows[j].name # n
  /\ Edit(Patched(rows[i].name, LAMBDA r : [r EXCEPT !.name = n])) /\ UNCHANGED detailKey

RenameInDialog(i, n) ==
  /\ InDialog(i) /\ \A j \in DOMAIN rows : rows[j].name # n
  /\ Edit(Patched(rows[i].name, LAMBDA r : [r EXCEPT !.name = n])) /\ detailKey' = n

\* The rows of all others, in their order.
Without(name) ==
  LET stay == {j \in DOMAIN rows : rows[j].name # name}
      Place(j) == Cardinality({h \in stay : h <= j})
  IN  [k \in 1 .. Cardinality(stay) |-> rows[CHOOSE j \in stay : Place(j) = k]]
RemoveUser(i) == InTable /\ Edit(Without(rows[i].name)) /\ UNCHANGED detailKey

\* importFile: by name, imported over present; the button is there while the table loads.
Imported(us) == RowsOf([n \in UserNames |-> IF us[n] # Gone THEN us[n] ELSE YamlMap(rows)[n]])
ImportFile(us) ==
  /\ Free /\ detailKey = NoOne /\ Edit(Imported(us)) /\ strayed' = (strayed \/ docOf # home)
  /\ UNCHANGED detailKey

OpenDetail(i) ==
  /\ InTable /\ detailKey' = rows[i].name /\ Edited
  /\ UNCHANGED <<allYml, home, onTab, rows, docOf, remoteFp, localFp, saveTimer, loading, failing, externalChanged,
                 enc, prompt, puts, gets, meant, lossy, adrift, strayed, unseen>>
CloseDetail ==
  /\ Free /\ detailKey # NoOne /\ detailKey' = NoOne
  /\ UNCHANGED <<allYml, home, onTab, rows, docOf, remoteFp, localFp, saveTimer, loading, failing, externalChanged,
                 enc, prompt, puts, gets, bounds, meant, lossy, adrift, strayed, unseen>>

\* A new password goes to the vault of the workspace, and comes back to the row
\* that had this name then, through the functions of the rendering that sent it.
EncryptPassword(i) ==
  /\ InDialog(i) /\ enc = NoOne /\ Edited
  /\ enc' = [name |-> rows[i].name, home |-> home, doc |-> docOf] /\ prompt' = TRUE
  /\ UNCHANGED <<allYml, home, onTab, panelState, puts, gets, meant, lossy, adrift, strayed, unseen>>
PasswordEncrypted ==
  /\ enc # NoOne /\ enc' = NoOne /\ prompt' = FALSE
  /\ LET next == Patched(enc.name, LAMBDA r : [r EXCEPT !.val = 1])
     IN  /\ ScheduleSave(next, enc.home, enc.doc)
         /\ meant' = [meant EXCEPT ![enc.home] = Meaning(next, enc.home)]
         /\ lossy' = (lossy \/ adrift' \/ Twins(next) \/ enc.home \in unseen \/ \A i \in DOMAIN rows : rows[i].name # enc.name)
  /\ strayed' = (strayed \/ enc.home # home \/ enc.doc # docOf \/ loading)
  /\ UNCHANGED <<allYml, home, onTab, docOf, remoteFp, loading, externalChanged, detailKey, puts, gets, bounds, unseen>>
EncryptFailed ==
  /\ enc # NoOne /\ enc' = NoOne /\ prompt' = FALSE
  /\ UNCHANGED <<allYml, home, onTab, panelState, puts, gets, bounds, meant, lossy, adrift, strayed, unseen>>

------------------------------------------------------------------------------
(* The file editor, the members of the workspace and its other panels write   *)
(* or delete the same file.                                                   *)
WrittenByOthers(w) ==
  /\ writeCount < MaxWrites /\ writeCount' = writeCount + 1
  /\ \E f \in {NoFile} \cup {[users |-> [InFile(allYml[w]) EXCEPT ![1] = v], rest |-> w] : v \in {1, Gone}} :
       f # allYml[w] /\ allYml' = [allYml EXCEPT ![w] = f] /\ meant' = [meant EXCEPT ![w] = f]
  /\ gets' = Stale(w, gets) /\ unseen' = unseen \cup {w}
  /\ lossy' = (lossy \/ saveTimer # NoTimer \/ puts # {})
  /\ UNCHANGED <<home, onTab, panelState, enc, prompt, puts, editCount, pollCount, adrift, strayed>>

UsersNext ==
  \/ FireSave \/ OpenUsersTab \/ LeaveUsersTab \/ Reload \/ PollTick \/ CloseDetail \/ PasswordEncrypted \/ EncryptFailed
  \/ \E p \in puts : PutApplied(p) \/ PutAnswered(p)
  \/ \E g \in gets : FileRead(g) \/ LoadAnswered(g) \/ PollAnswered(g)
  \/ \E w \in Homes : SwitchHome(w) \/ WrittenByOthers(w)
  \/ /\ UNCHANGED strayed
     /\ \/ \E n \in UserNames : CreateUser(n)
        \/ \E i \in DOMAIN rows :
             \/ ChangeInTable(i) \/ ChangeInDialog(i) \/ RemoveUser(i) \/ OpenDetail(i) \/ EncryptPassword(i)
             \/ \E n \in UserNames : RenameInDialog(i, n) \/ \E beside \in SUBSET DOMAIN rows : RenameInTable(i, n, beside)
  \/ ImportFile([n \in UserNames |-> IF n = 1 THEN 1 ELSE Gone])

UsersSpec == UsersInit /\ [][UsersNext]_usersVars

------------------------------------------------------------------------------
NothingToSave == saveTimer = NoTimer /\ puts = {}

\* Autosave (scheduleSave, writeYaml, the poll): once no save waits or runs, the
\* file of every workspace holds what its users were last given, each edit and
\* nothing else, unless a save failed, was left behind with the tab or overtook
\* another, the edit was undone before its save, two rows had one name, or the
\* rows it was made on were not those of the file (a late or failed answer, a
\* write by others that no poll had brought yet).
EditsReachFile == NothingToSave /\ ~lossy /\ ~strayed => allYml = meant
=============================================================================
