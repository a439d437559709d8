------------------------------ MODULE KdbxView ------------------------------
(* The read-only view of a KeePass file in the file editor                   *)
(* (actions/core/editor.ts): the master password is kept in a ref while the  *)
(* vault counts as unlocked, and its entries are decrypted in the browser    *)
(* after a download.  Locking and leaving the file do not cancel a download. *)
EXTENDS FiniteSets, Naturals

CONSTANTS
  KdbxFiles,      \* the paths that end in .kdbx
  OtherFiles,     \* the other files of the workspace
  Nothing,        \* no file, no entries
  RightPassword,  \* the master password of the files
  WrongPassword,
  MaxLoads        \* bound: downloads under way at a time

ASSUME KdbxAssumption ==
  /\ KdbxFiles \cap OtherFiles = {} /\ Nothing \notin KdbxFiles \cup OtherFiles
  /\ RightPassword # WrongPassword /\ Nothing \notin {RightPassword, WrongPassword}
  /\ MaxLoads \in Nat

VARIABLES
  activeFile, password, entriesOf,  \* activePath, kdbxPasswordRef, whose entries are shown
  prompted, kdbxLoads,              \* kdbxPromptOpen, the downloads: <<file, password>>
  overtaken                         \* history: a download that lock or a click overtook has shown its entries

kdbxVars == <<activeFile, password, entriesOf, prompted, kdbxLoads, overtaken>>

Passwords == {RightPassword, WrongPassword}
IsKdbxAny(file) == file # Nothing  \* (Defect: the suffix is not looked at.)
IsKdbx(file) == file \in KdbxFiles

KdbxTypeOK ==
  /\ activeFile \in KdbxFiles \cup OtherFiles \cup {Nothing}
  /\ password \in Passwords \cup {Nothing} /\ entriesOf \in KdbxFiles \cup {Nothing}
  /\ {prompted, overtaken} \subseteq BOOLEAN
  /\ \A load \in kdbxLoads : load.file \in KdbxFiles /\ load.password \in Passwords

KdbxInit ==
  /\ activeFile = Nothing /\ password = Nothing /\ entriesOf = Nothing
  /\ prompted = FALSE /\ kdbxLoads = {} /\ overtaken = FALSE

\* What a click does to the downloads under way: the user has moved on.
MovedOn == {[load EXCEPT !.stale = TRUE] : load \in kdbxLoads}
Download(file, word) == [file |-> file, password |-> word, stale |-> FALSE]

\* loadFile of a KeePass file: the entries shown before go at once.
OpenKdbx(file) ==
  /\ Cardinality(kdbxLoads) < MaxLoads
  /\ activeFile' = file /\ entriesOf' = Nothing /\ overtaken' = FALSE
  /\ IF password = Nothing
     THEN prompted' = TRUE /\ kdbxLoads' = MovedOn
     ELSE kdbxLoads' = MovedOn \cup {Download(file, password)} /\ UNCHANGED prompted
  /\ UNCHANGED password

\* Another file, or none, becomes active.  When a KeePass file was, the effect on
\* isKdbx forgets the password and the entries.
OpenOther(file) ==
  /\ activeFile' = file /\ kdbxLoads' = MovedOn /\ UNCHANGED prompted
  /\ IF IsKdbx(activeFile)
     THEN password' = Nothing /\ entriesOf' = Nothing /\ overtaken' = FALSE
     ELSE UNCHANGED <<password, entriesOf, overtaken>>

\* resetWorkspaceState: another workspace is about to be opened.
LeaveWorkspace ==
  /\ activeFile' = Nothing /\ entriesOf' = Nothing /\ prompted' = FALSE
  /\ kdbxLoads' = MovedOn /\ overtaken' = FALSE
  /\ password' = IF IsKdbx(activeFile) THEN Nothing ELSE password

\* handleKdbxSubmit: the password counts as the vault's before anything is decrypted.
\* The prompt can still be open after another file was opened.
SubmitPassword(word) ==
  /\ prompted /\ prompted' = FALSE /\ password' = word
  /\ \/ /\ IsKdbx(activeFile) /\ Cardinality(kdbxLoads) < MaxLoads
        /\ kdbxLoads' = kdbxLoads \cup {Download(activeFile, word)}
     \/ ~IsKdbx(activeFile) /\ UNCHANGED kdbxLoads
  /\ UNCHANGED <<activeFile, entriesOf, overtaken>>

ClosePrompt == prompted /\ prompted' = FALSE /\ UNCHANGED <<activeFile, password, entriesOf, kdbxLoads, overtaken>>

\* (Defect: lock keeps what is shown.)
KeepEntries ==
  /\ IsKdbx(activeFile) /\ password # Nothing
  /\ password' = Nothing /\ kdbxLoads' = MovedOn
  /\ UNCHANGED <<activeFile, prompted, entriesOf, overtaken>>
\* The Lock button of a vault with a password, the Unlock button of one without.
LockKdbx ==
  /\ IsKdbx(activeFile) /\ password # Nothing
  /\ password' = Nothing /\ entriesOf' = Nothing /\ kdbxLoads' = MovedOn /\ overtaken' = FALSE
  /\ UNCHANGED <<activeFile, prompted>>
UnlockKdbx ==
  /\ IsKdbx(activeFile) /\ password = Nothing /\ prompted' = TRUE
  /\ UNCHANGED <<activeFile, password, entriesOf, kdbxLoads, overtaken>>

\* loadKdbx: the entries are shown, whatever is active or locked by now.
Decrypted(load) ==
  /\ load.password = RightPassword
  /\ entriesOf' = load.file /\ overtaken' = load.stale /\ kdbxLoads' = kdbxLoads \ {load}
  /\ UNCHANGED <<activeFile, password, prompted>>

\* The download failed or the password is wrong: it stays the vault's.
NotDecrypted(load) ==
  /\ kdbxLoads' = kdbxLoads \ {load}
  /\ UNCHANGED <<activeFile, password, entriesOf, prompted, overtaken>>

KdbxNext ==
  \/ \E file \in KdbxFiles : OpenKdbx(file)
  \/ \E file \in OtherFiles \cup {Nothing} : OpenOther(file)
  \/ \E word \in Passwords : SubmitPassword(word)
  \/ \E load \in kdbxLoads : Decrypted(load) \/ NotDecrypted(load)
  \/ ClosePrompt \/ LeaveWorkspace \/ LockKdbx \/ UnlockKdbx

KdbxSpec == KdbxInit /\ [][KdbxNext]_kdbxVars

(* Entries that are decrypted are those of the file that is open, and the    *)
(* vault counts as unlocked, except when a download that was overtaken by    *)
(* Lock or by another file comes in (setKdbxEntries after the awaits).       *)
EntriesOfUnlocked ==
  (entriesOf # Nothing /\ ~overtaken) => entriesOf = activeFile /\ password = RightPassword
=============================================================================
