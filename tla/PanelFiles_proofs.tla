------------------------- MODULE PanelFiles_proofs --------------------------
(***************************************************************************)
(* The workspace panel's files, for any number of files, downloads,        *)
(* keystrokes and calls: the view of KeePass files shows entries of the    *)
(* file that is open, while its password is known; imports and cleanups    *)
(* send what was asked for; a text that is shown as saved was written, and *)
(* the guard leaves a workspace only with such a text; every password      *)
(* opens what it is kept for.                                              *)
(***************************************************************************)
EXTENDS MCFileEditor, TLAPS

Loads == [file : KdbxFiles, password : Passwords, stale : BOOLEAN]

\* A download nothing has overtaken is of the file that is open, with the
\* password that is remembered; while the prompt is open there is no password.
KdbxInv ==
  /\ kdbxLoads \subseteq Loads
  /\ entriesOf \in KdbxFiles \cup {Nothing}
  /\ password \in Passwords \cup {Nothing} /\ (prompted => password = Nothing)
  /\ \A load \in kdbxLoads :
       ~load.stale => load.file = activeFile /\ load.password = password
  /\ EntriesOfUnlocked

LEMMA MovedOnIsStale ==
  ASSUME kdbxLoads \subseteq Loads
  PROVE  /\ MovedOn \subseteq Loads
         /\ \A load \in MovedOn : load.stale
  BY DEF MovedOn, Loads

LEMMA DownloadIsLoad ==
  ASSUME NEW file \in KdbxFiles, NEW word \in Passwords
  PROVE  /\ Download(file, word) \in Loads
         /\ Download(file, word).file = file /\ Download(file, word).password = word
  BY DEF Download, Loads

\* A step of the view keeps KdbxInv.
LEMMA KdbxStep == KdbxAssumption /\ KdbxInv /\ [KdbxNext]_kdbxVars => KdbxInv'
  <1> SUFFICES ASSUME KdbxAssumption, KdbxInv, [KdbxNext]_kdbxVars PROVE KdbxInv'
    OBVIOUS
  <1> USE DEF KdbxInv, EntriesOfUnlocked, IsKdbx
  <1> Nothing \notin Passwords
    BY DEF KdbxAssumption, Passwords
  <1>1. ASSUME NEW file \in KdbxFiles, OpenKdbx(file) PROVE KdbxInv'
    <2>1. CASE password = Nothing
      BY <1>1, <2>1, MovedOnIsStale DEF OpenKdbx
    <2>2. CASE password # Nothing
      <3>1. Download(file, password) \in Loads
        BY <2>2, DownloadIsLoad
      <3>2. kdbxLoads' = MovedOn \cup {Download(file, password)} /\ UNCHANGED prompted
        BY <1>1, <2>2 DEF OpenKdbx
      <3>3. kdbxLoads' \subseteq Loads
        BY <3>1, <3>2, MovedOnIsStale
      <3>4. \A load \in kdbxLoads' : ~load.stale => load.file = file /\ load.password = password
        BY <3>2, MovedOnIsStale, DownloadIsLoad, <2>2
      <3> QED
        BY <1>1, <2>2, <3>2, <3>3, <3>4 DEF OpenKdbx
    <2> QED
      BY <2>1, <2>2
  <1>2. ASSUME NEW file \in OtherFiles \cup {Nothing}, OpenOther(file) PROVE KdbxInv'
    BY <1>2, MovedOnIsStale DEF OpenOther, KdbxAssumption
  <1>3. ASSUME NEW word \in Passwords, SubmitPassword(word) PROVE KdbxInv'
    <2>1. password = Nothing /\ prompted' = FALSE /\ password' = word
      BY <1>3 DEF SubmitPassword
    <2>2. \A load \in kdbxLoads : load.stale
      BY <2>1 DEF Loads
    <2>3. \A load \in kdbxLoads' :
            /\ load \in Loads
            /\ ~load.stale => load.file = activeFile /\ load.password = word
      <3>1. CASE UNCHANGED kdbxLoads
        BY <3>1, <2>2
      <3>2. CASE IsKdbx(activeFile) /\ kdbxLoads' = kdbxLoads \cup {Download(activeFile, word)}
        BY <3>2, <2>2, DownloadIsLoad
      <3> QED
        BY <1>3, <3>1, <3>2 DEF SubmitPassword
    <2> QED
      BY <1>3, <2>1, <2>3 DEF SubmitPassword
  <1>4. ASSUME NEW load \in kdbxLoads, Decrypted(load) PROVE KdbxInv'
    BY <1>4 DEF Decrypted, Loads
  <1>5. ASSUME NEW load \in kdbxLoads, NotDecrypted(load) PROVE KdbxInv'
    BY <1>5 DEF NotDecrypted
  <1>6. CASE ClosePrompt
    BY <1>6 DEF ClosePrompt
  <1>7. CASE LeaveWorkspace
    BY <1>7, MovedOnIsStale DEF LeaveWorkspace, KdbxAssumption
  <1>8. CASE LockKdbx
    BY <1>8, MovedOnIsStale DEF LockKdbx, KdbxAssumption
  <1>9. CASE UnlockKdbx
    BY <1>9 DEF UnlockKdbx
  <1>10. CASE UNCHANGED kdbxVars
    BY <1>10 DEF kdbxVars
  <1> QED
    BY <1>1, <1>2, <1>3, <1>4, <1>5, <1>6, <1>7, <1>8, <1>9, <1>10 DEF KdbxNext

\* Whatever is opened, locked and unlocked while downloads are under way, the
\* view never shows entries of another file, or without a password, unless the
\* download had been overtaken (actions/core/editor.ts, loadKdbx).
THEOREM EntriesAreOfTheOpenFile == KdbxAssumption => (KdbxSpec => []EntriesOfUnlocked)
  <1> SUFFICES ASSUME KdbxAssumption PROVE KdbxSpec => []EntriesOfUnlocked
    OBVIOUS
  <1>1. KdbxInit => KdbxInv
    BY DEF KdbxInit, KdbxInv, EntriesOfUnlocked
  <1>2. KdbxInv /\ [KdbxNext]_kdbxVars => KdbxInv'
    BY KdbxStep
  <1>3. KdbxInv => EntriesOfUnlocked
    BY DEF KdbxInv
  <1> QED
    BY <1>1, <1>2, <1>3, PTL DEF KdbxSpec


-----------------------------------------------------------------------------
(***************************************************************************)
(* The import and the cleanup of files.  What a modal would send overrides *)
(* only what was chosen, and deletes only orphans of the workspace that is *)
(* open; a request has what its modal had when it was sent.                *)
(***************************************************************************)
ZipModal == [open : BOOLEAN, busy : BOOLEAN, items : SUBSET HostFiles, exists : SUBSET HostFiles,
             modes : [HostFiles -> ImportModes], all : BOOLEAN, allMode : ImportModes]
Preview == [yard : Yards, files : SUBSET HostFiles, exists : SUBSET HostFiles, read : BOOLEAN]
Upload == [yard : Yards, files : SUBSET HostFiles, modes : [HostFiles -> ImportModes],
           kept : SUBSET HostFiles, at : {"sent", "done", "failed"}]

ZipInv ==
  /\ zip \in ZipModal /\ previews \subseteq Preview /\ (upload # NoCall => upload \in Upload)
  /\ zip.all = TRUE => \A f \in zip.items : zip.modes[f] = zip.allMode
  /\ \A f \in zip.items \cap zip.exists : f \notin chosen => zip.modes[f] = "merge"
  /\ upload # NoCall => \A f \in upload.files \cap upload.kept : upload.modes[f] = "merge"

CleanupModal == [open : BOOLEAN, items : SUBSET HostFiles, selected : SUBSET HostFiles]
Purge == [yard : Yards, items : SUBSET HostFiles, paths : SUBSET HostFiles, left : SUBSET HostFiles,
          failed : BOOLEAN]

CleanupInv ==
  /\ yard \in Yards /\ tree \subseteq HostFiles /\ mentioned \in [Yards -> SUBSET HostFiles]
  /\ cleanup \in CleanupModal /\ cleanup.selected \subseteq cleanup.items
  /\ scan \in Scans \cup {NoCall} /\ (purge # NoCall => purge \in Purge)
  /\ scan = NoCall \/ purge = NoCall
  /\ "cleanup" \notin stray =>
       /\ IF scan = NoCall THEN cleanup.items \cap mentioned[yard] = {}
          ELSE scan.yard = yard /\ (scan.at = "read" => scan.inventory = mentioned[yard])
       /\ purge # NoCall => purge.yard = yard /\ (purge.items \cup purge.left) \cap mentioned[yard] = {}

LEMMA ZipModals ==
  ASSUME NEW z \in ZipModal
  PROVE  \A v \in BOOLEAN : LET r == [z EXCEPT !.busy = v]
                          IN  /\ r \in ZipModal /\ r.items = z.items /\ r.exists = z.exists
                              /\ r.modes = z.modes /\ r.all = z.all /\ r.allMode = z.allMode
  BY DEF ZipModal

LEMMA ZipStep ==
  ASSUME ZipInv, CleanupInv, [BulkNext]_bulkVars
  PROVE  ZipInv'
  <1>0. zip \in ZipModal /\ previews \subseteq Preview /\ yard \in Yards
    BY DEF ZipInv, CleanupInv
  <1>c. ClosedZip \in ZipModal /\ ClosedZip.items = {} /\ ClosedZip.all = FALSE
    BY DEF ClosedZip, ZipModal, ImportModes
  <1>1. ASSUME NEW some \in SUBSET HostFiles, SelectZip(some) PROVE ZipInv'
    <2>1. /\ zip' = [zip EXCEPT !.busy = TRUE] /\ UNCHANGED <<upload, chosen>>
          /\ previews' = previews \cup {[yard |-> yard, files |-> some, exists |-> {}, read |-> FALSE]}
      BY <1>1 DEF SelectZip
    <2>2. [yard |-> yard, files |-> some, exists |-> {}, read |-> FALSE] \in Preview
      BY <1>0 DEF Preview
    <2>3. /\ zip' \in ZipModal /\ zip'.items = zip.items /\ zip'.exists = zip.exists
          /\ zip'.modes = zip.modes /\ zip'.all = zip.all /\ zip'.allMode = zip.allMode
      BY <2>1, <1>0, ZipModals
    <2> QED
      BY <2>1, <2>2, <2>3 DEF ZipInv
  <1>2. ASSUME NEW p \in previews, ServePreview(p) PROVE ZipInv'
    <2>1. p \in Preview
      BY <1>0
    <2>2. [p EXCEPT !.read = TRUE, !.exists = p.files \cap FilesOf(p.yard)] \in Preview
      BY <2>1 DEF Preview
    <2> QED
      BY <1>2, <2>2 DEF ServePreview, ZipInv
  <1>3. ASSUME NEW p \in previews, PreviewAnswered(p) PROVE ZipInv'
    <2> DEFINE modes == [f \in HostFiles |-> IF f \in p.exists THEN "merge" ELSE "override"]
    <2>1. p.files \subseteq HostFiles /\ p.exists \subseteq HostFiles
      BY <1>0 DEF Preview
    <2>2. /\ zip' = [open |-> TRUE, busy |-> FALSE, items |-> p.files, exists |-> p.exists,
                     modes |-> modes, all |-> FALSE, allMode |-> "override"]
          /\ chosen' = {} /\ previews' \subseteq previews /\ upload' = upload
      BY <1>3 DEF PreviewAnswered
    <2>3. modes \in [HostFiles -> ImportModes] /\ \A f \in p.exists : modes[f] = "merge"
      BY <2>1 DEF ImportModes
    <2> HIDE DEF modes
    <2>4. /\ zip' \in ZipModal /\ zip'.items = p.files /\ zip'.exists = p.exists /\ zip'.modes = modes
          /\ zip'.all = FALSE
      BY <2>1, <2>2, <2>3 DEF ZipModal, ImportModes
    <2> QED
      BY <2>2, <2>3, <2>4 DEF ZipInv
  <1>4. ASSUME NEW p \in previews, PreviewFailed(p) PROVE ZipInv'
    <2>1. zip' = [zip EXCEPT !.busy = FALSE] /\ previews' \subseteq previews /\ UNCHANGED <<upload, chosen>>
      BY <1>4 DEF PreviewFailed
    <2>2. /\ zip' \in ZipModal /\ zip'.items = zip.items /\ zip'.exists = zip.exists
          /\ zip'.modes = zip.modes /\ zip'.all = zip.all /\ zip'.allMode = zip.allMode
      BY <2>1, <1>0, ZipModals
    <2> QED
      BY <2>1, <2>2 DEF ZipInv
  <1>5. ASSUME NEW mode \in ImportModes, NEW f \in HostFiles, ChooseMode(f, mode) PROVE ZipInv'
    <2>1. /\ zip' = [zip EXCEPT !.modes[f] = mode] /\ UNCHANGED <<upload, previews>> /\ ~zip.all
          /\ chosen' = IF mode = "override" THEN chosen \cup {f} ELSE chosen \ {f}
      BY <1>5 DEF ChooseMode
    <2>2. /\ zip' \in ZipModal /\ zip'.items = zip.items /\ zip'.exists = zip.exists
          /\ zip'.modes = [zip.modes EXCEPT ![f] = mode] /\ zip'.all = zip.all
      BY <2>1, <1>0 DEF ZipModal
    <2>3. \A g \in HostFiles : zip'.modes[g] = IF g = f THEN mode ELSE zip.modes[g]
      BY <2>2, <1>0 DEF ZipModal
    <2>4. \A g \in zip'.items \cap zip'.exists : g \notin chosen' => zip'.modes[g] = "merge"
      <3>1. SUFFICES ASSUME NEW g \in zip.items \cap zip.exists, g \notin chosen' PROVE zip'.modes[g] = "merge"
        BY <2>2
      <3>2. g \in HostFiles
        BY <1>0 DEF ZipModal
      <3>3. CASE g = f
        BY <2>1, <2>3, <3>1, <3>2, <3>3 DEF ImportModes
      <3>4. CASE g # f
        BY <2>1, <2>3, <3>1, <3>2, <3>4 DEF ZipInv
      <3> QED
        BY <3>3, <3>4
    <2>5. zip'.all # TRUE
      BY <2>1, <2>2
    <2> QED
      BY <2>1, <2>2, <2>4, <2>5 DEF ZipInv
  <1>a. ASSUME NEW mode \in ImportModes
        PROVE  ForAll(mode) \in [HostFiles -> ImportModes] /\ \A f \in zip.items : ForAll(mode)[f] = mode
    BY <1>0 DEF ForAll, ImportModes, ZipModal
  <1>6. ASSUME NEW mode \in ImportModes, ChooseAllMode(mode) PROVE ZipInv'
    <2> DEFINE modes == IF zip.all THEN ForAll(mode) ELSE zip.modes
    <2>1. /\ zip' = [zip EXCEPT !.allMode = mode, !.modes = modes] /\ UNCHANGED <<upload, previews>>
          /\ chosen' = IF ~zip.all THEN chosen ELSE IF mode = "override" THEN zip.items ELSE {}
      BY <1>6 DEF ChooseAllMode
    <2>2. modes \in [HostFiles -> ImportModes]
      BY <1>0, <1>a DEF ZipModal
    <2>3. /\ zip' \in ZipModal /\ zip'.items = zip.items /\ zip'.exists = zip.exists
          /\ zip'.modes = modes /\ zip'.all = zip.all /\ zip'.allMode = mode
      <3> HIDE DEF modes
      <3> QED
        BY <2>1, <2>2, <1>0 DEF ZipModal
    <2>4. CASE zip.all = TRUE
      <3>1. \A f \in zip.items : modes[f] = mode
        BY <2>4, <1>a
      <3> QED
        BY <2>1, <2>3, <2>4, <3>1 DEF ZipInv, ImportModes
    <2>5. CASE zip.all = FALSE
      BY <2>1, <2>3, <2>5 DEF ZipInv
    <2> QED
      BY <2>4, <2>5, <1>0 DEF ZipModal
  <1>7. ASSUME NEW checked \in BOOLEAN, ApplyToAll(checked) PROVE ZipInv'
    <2> DEFINE modes == IF checked THEN ForAll(zip.allMode) ELSE zip.modes
    <2>1. /\ zip' = [zip EXCEPT !.all = checked, !.modes = modes] /\ UNCHANGED <<upload, previews>>
          /\ chosen' = IF ~checked THEN chosen ELSE IF zip.allMode = "override" THEN zip.items ELSE {}
      BY <1>7 DEF ApplyToAll
    <2>2. modes \in [HostFiles -> ImportModes] /\ zip.allMode \in ImportModes
      BY <1>0, <1>a DEF ZipModal
    <2>3. /\ zip' \in ZipModal /\ zip'.items = zip.items /\ zip'.exists = zip.exists
          /\ zip'.modes = modes /\ zip'.all = checked /\ zip'.allMode = zip.allMode
      <3> HIDE DEF modes
      <3> QED
        BY <2>1, <2>2, <1>0 DEF ZipModal
    <2>4. CASE checked = TRUE
      <3>1. \A f \in zip.items : modes[f] = zip.allMode
        BY <2>2, <2>4, <1>a
      <3> QED
        BY <2>1, <2>2, <2>3, <2>4, <3>1 DEF ZipInv, ImportModes
    <2>5. CASE checked = FALSE
      BY <2>1, <2>3, <2>5 DEF ZipInv
    <2> QED
      BY <2>4, <2>5
  <1>8. CASE ConfirmZip
    <2>1. /\ upload' = [yard |-> yard, files |-> zip.items, modes |-> ConfirmedModes,
                        kept |-> IF "zip" \in stray THEN {} ELSE zip.exists \ chosen, at |-> "sent"]
          /\ UNCHANGED <<zip, previews, chosen>>
      BY <1>8 DEF ConfirmZip
    <2>2. ConfirmedModes \in [HostFiles -> ImportModes]
      BY <1>0 DEF ConfirmedModes, ZipModal
    <2>3. \A f \in zip.items \cap zip.exists : f \notin chosen => ConfirmedModes[f] = "merge"
      <3>1. zip.items \subseteq HostFiles
        BY <1>0 DEF ZipModal
      <3>2. CASE zip.all = TRUE
        BY <3>1, <3>2 DEF ConfirmedModes, ZipInv
      <3>3. CASE zip.all = FALSE
        BY <3>3 DEF ConfirmedModes, ZipInv
      <3> QED
        BY <3>2, <3>3, <1>0 DEF ZipModal
    <2>4. upload' \in Upload
      BY <2>1, <2>2, <1>0 DEF Upload, ZipModal
    <2>5. \A f \in upload'.files \cap upload'.kept : upload'.modes[f] = "merge"
      BY <2>1, <2>3
    <2> QED
      BY <2>1, <2>4, <2>5 DEF ZipInv
  <1>9. CASE LoadZip
    <2>1. PICK at \in {"done", "failed"} : upload' = [upload EXCEPT !.at = at]
      BY <1>9 DEF LoadZip
    <2>2. upload # NoCall /\ upload \in Upload /\ UNCHANGED <<zip, previews, chosen>>
      BY <1>9 DEF LoadZip, ZipInv
    <2>3. /\ upload' \in Upload /\ upload'.files = upload.files /\ upload'.kept = upload.kept
          /\ upload'.modes = upload.modes
      BY <2>1, <2>2 DEF Upload
    <2> QED
      BY <2>2, <2>3 DEF ZipInv
  <1>10. CASE UploadAnswered \/ CloseZip \/ \E y \in Yards : SwitchYard(y)
    <2>1. /\ zip' = zip \/ zip' = ClosedZip
          /\ upload' = upload \/ upload' = NoCall
          /\ UNCHANGED <<previews, chosen>>
      BY <1>10 DEF UploadAnswered, CloseZip, SwitchYard
    <2> QED
      BY <2>1, <1>c DEF ZipInv
  <1>11. CASE \/ OpenCleanup \/ ServeScan \/ ScanAnswered \/ CloseCleanup
              \/ DeleteSelection \/ DeleteFails \/ DeleteAnswered
              \/ \E checked \in BOOLEAN : SelectOrphans(checked)
              \/ \E f \in HostFiles : ToggleOrphan(f) \/ DeleteOrphan(f)
              \/ \E y \in Yards, f \in HostFiles : ChangeRoles(y, f) \/ AddDevice(y, f)
              \/ UNCHANGED bulkVars
    <2>1. UNCHANGED zipVars
      BY <1>11 DEF OpenCleanup, ServeScan, ScanAnswered, CloseCleanup, DeleteSelection, DeleteFails,
                   DeleteAnswered, SelectOrphans, ToggleOrphan, DeleteOrphan, ChangeRoles, AddDevice, bulkVars,
                   zipVars
    <2> QED
      BY <2>1 DEF ZipInv, zipVars
  <1> QED
    BY <1>1, <1>2, <1>3, <1>4, <1>5, <1>6, <1>7, <1>8, <1>9, <1>10, <1>11 DEF BulkNext

LEMMA CleanupStep ==
  ASSUME BulkAssumption, CleanupInv, [BulkNext]_bulkVars
  PROVE  CleanupInv'
  <1>0. /\ yard \in Yards /\ tree \subseteq HostFiles /\ mentioned \in [Yards -> SUBSET HostFiles]
        /\ cleanup \in CleanupModal /\ cleanup.selected \subseteq cleanup.items
        /\ scan \in Scans \cup {NoCall} /\ (purge # NoCall => purge \in Purge)
    BY DEF CleanupInv
  <1>t. \A y : FilesOf(y) \subseteq HostFiles
    BY DEF FilesOf
  <1>n. NoCall \notin Scans
    BY DEF BulkAssumption
  <1>1. CASE OpenCleanup
    <2>1. /\ cleanup' = [cleanup EXCEPT !.open = TRUE] /\ purge = NoCall
          /\ scan' = [yard |-> yard, tree |-> tree, inventory |-> {}, at |-> "sent"]
          /\ UNCHANGED <<yard, tree, mentioned, purge>>
      BY <1>1 DEF OpenCleanup, filesVars
    <2>2. cleanup' \in CleanupModal /\ cleanup'.selected \subseteq cleanup'.items
      BY <2>1, <1>0 DEF CleanupModal
    <2>3. scan' \in Scans /\ scan'.yard = yard /\ scan'.at = "sent"
      BY <2>1, <1>0 DEF Scans
    <2> QED
      BY <2>1, <2>2, <2>3, <1>0, <1>n DEF CleanupInv
  <1>2. CASE ServeScan
    <2>1. PICK at \in {"read", "failed"} : scan' = [scan EXCEPT !.at = at, !.inventory = mentioned[scan.yard]]
      BY <1>2 DEF ServeScan
    <2>2. scan \in Scans /\ scan # NoCall /\ UNCHANGED <<yard, tree, mentioned, cleanup, purge, stray>>
      BY <1>2, <1>0 DEF ServeScan, filesVars
    <2>3. scan' \in Scans /\ scan'.yard = scan.yard /\ scan'.inventory = mentioned[scan.yard]
      BY <2>1, <2>2, <1>0 DEF Scans
    <2> QED
      BY <2>2, <2>3, <1>0, <1>n DEF CleanupInv
  <1>3. CASE ScanAnswered
    <2>1. /\ cleanup' = Scanned /\ scan' = NoCall /\ scan \in Scans /\ scan.at # "sent" /\ scan # NoCall
          /\ UNCHANGED <<yard, tree, mentioned, purge, stray>>
      BY <1>3, <1>0 DEF ScanAnswered, filesVars
    <2>2. /\ cleanup' \in CleanupModal /\ cleanup'.selected = cleanup'.items
          /\ cleanup'.items = IF scan.at = "read" THEN scan.tree \ scan.inventory ELSE {}
      BY <2>1, <1>0 DEF Scanned, Orphans, CleanupModal, Scans
    <2>3. purge = NoCall
      BY <2>1 DEF CleanupInv
    <2> QED
      BY <2>1, <2>2, <2>3, <1>0 DEF CleanupInv
  <1>4. CASE (\E checked \in BOOLEAN : SelectOrphans(checked)) \/ (\E f \in HostFiles : ToggleOrphan(f)) \/ CloseCleanup
    <2>1. UNCHANGED <<yard, tree, mentioned, scan, purge, stray>>
      BY <1>4 DEF SelectOrphans, ToggleOrphan, CloseCleanup, filesVars
    <2>2. cleanup' \in CleanupModal /\ cleanup'.items = cleanup.items /\ cleanup'.selected \subseteq cleanup.items
      <3>1. ASSUME NEW checked \in BOOLEAN, SelectOrphans(checked)
            PROVE  cleanup' \in CleanupModal /\ cleanup'.items = cleanup.items /\ cleanup'.selected \subseteq cleanup.items
        BY <3>1, <1>0 DEF SelectOrphans, CleanupModal
      <3>2. ASSUME NEW f \in HostFiles, ToggleOrphan(f)
            PROVE  cleanup' \in CleanupModal /\ cleanup'.items = cleanup.items /\ cleanup'.selected \subseteq cleanup.items
        BY <3>2, <1>0 DEF ToggleOrphan, CleanupModal
      <3>3. ASSUME CloseCleanup
            PROVE  cleanup' \in CleanupModal /\ cleanup'.items = cleanup.items /\ cleanup'.selected \subseteq cleanup.items
        BY <3>3, <1>0 DEF CloseCleanup, CleanupModal
      <3> QED
        BY <1>4, <3>1, <3>2, <3>3
    <2> QED
      BY <2>1, <2>2 DEF CleanupInv
  <1>5. CASE DeleteSelection
    <2>1. /\ purge' = [yard |-> yard, items |-> cleanup.items, paths |-> cleanup.selected,
                       left |-> cleanup.selected, failed |-> FALSE]
          /\ scan = NoCall /\ UNCHANGED <<yard, tree, mentioned, cleanup, scan, stray>>
      BY <1>5 DEF DeleteSelection, filesVars
    <2>2. purge' \in Purge /\ purge'.yard = yard /\ purge'.items = cleanup.items /\ purge'.left = cleanup.selected
      BY <2>1, <1>0 DEF Purge, CleanupModal
    <2> QED
      BY <2>1, <2>2 DEF CleanupInv
  <1>6. CASE (\E f \in HostFiles : DeleteOrphan(f)) \/ DeleteFails
    <2>1. /\ UNCHANGED <<yard, tree, mentioned, cleanup, scan, stray>> /\ purge # NoCall /\ purge \in Purge
          /\ (\E f : purge' = [purge EXCEPT !.left = @ \ {f}]) \/ purge' = [purge EXCEPT !.failed = TRUE]
      BY <1>6, <1>0 DEF DeleteOrphan, DeleteFails, filesVars
    <2>2. /\ purge' \in Purge /\ purge'.yard = purge.yard /\ purge'.items = purge.items
          /\ purge'.left \subseteq purge.left
      BY <2>1 DEF Purge
    <2> QED
      BY <2>1, <2>2 DEF CleanupInv
  <1>7. CASE DeleteAnswered
    <2>1. purge # NoCall /\ purge \in Purge /\ purge' = NoCall /\ UNCHANGED <<yard, mentioned, scan, stray>>
      BY <1>7, <1>0 DEF DeleteAnswered, filesVars
    <2>2. scan = NoCall
      BY <2>1 DEF CleanupInv
    <2>3. CASE purge.failed
      BY <1>7, <2>1, <2>3 DEF DeleteAnswered, CleanupInv
    <2>4. CASE ~purge.failed
      <3> DEFINE left == purge.items \ purge.paths
      <3>1. cleanup' = [cleanup EXCEPT !.items = left, !.selected = left] /\ tree' = FilesOf(purge.yard)
        BY <1>7, <2>4 DEF DeleteAnswered
      <3>2. left \subseteq HostFiles /\ left \subseteq purge.items
        BY <2>1 DEF Purge
      <3> HIDE DEF left
      <3>3. cleanup' \in CleanupModal /\ cleanup'.items = left /\ cleanup'.selected = left
        BY <3>1, <3>2, <1>0 DEF CleanupModal
      <3> QED
        BY <2>1, <2>2, <3>1, <3>2, <3>3, <1>0, <1>t DEF CleanupInv
    <2> QED
      BY <2>3, <2>4
  <1>8. ASSUME NEW y \in Yards, SwitchYard(y) \/ \E f \in HostFiles : ChangeRoles(y, f) PROVE CleanupInv'
    <2>1. "cleanup" \in stray' /\ UNCHANGED <<cleanup, scan, purge>> /\ yard' \in Yards /\ tree' \subseteq HostFiles
      BY <1>8, <1>0, <1>t DEF SwitchYard, ChangeRoles, cleanupVars
    <2>2. mentioned' \in [Yards -> SUBSET HostFiles]
      BY <1>8, <1>0 DEF SwitchYard, ChangeRoles, filesVars
    <2> QED
      BY <2>1, <2>2 DEF CleanupInv
  <1>9. CASE UploadAnswered
    <2>1. tree' \subseteq HostFiles /\ UNCHANGED <<yard, mentioned, cleanup, scan, purge, stray>>
      BY <1>9, <1>0, <1>t DEF UploadAnswered, filesVars, cleanupVars
    <2> QED
      BY <2>1 DEF CleanupInv
  <1>10. ASSUME NEW p \in previews, PreviewAnswered(p) PROVE CleanupInv'
    <2>1. "cleanup" \in stray' <=> "cleanup" \in stray
      BY <1>10 DEF PreviewAnswered
    <2>2. UNCHANGED <<yard, tree, mentioned, cleanup, scan, purge>>
      BY <1>10 DEF PreviewAnswered, filesVars, cleanupVars
    <2> QED
      BY <2>1, <2>2 DEF CleanupInv
  <1>11. CASE \/ \E some \in SUBSET HostFiles : SelectZip(some)
              \/ \E p \in previews : ServePreview(p) \/ PreviewFailed(p)
              \/ \E mode \in ImportModes : ChooseAllMode(mode) \/ \E f \in HostFiles : ChooseMode(f, mode)
              \/ \E checked \in BOOLEAN : ApplyToAll(checked)
              \/ CloseZip \/ ConfirmZip \/ LoadZip
              \/ \E y \in Yards, f \in HostFiles : AddDevice(y, f)
              \/ UNCHANGED bulkVars
    <2>1. UNCHANGED <<yard, tree, mentioned, cleanup, scan, purge, stray>>
      BY <1>11 DEF SelectZip, ServePreview, PreviewFailed, ChooseAllMode, ChooseMode, ApplyToAll, CloseZip,
                   ConfirmZip, LoadZip, AddDevice, filesVars, cleanupVars, bulkVars
    <2> QED
      BY <2>1 DEF CleanupInv
  <1> QED
    BY <1>1, <1>2, <1>3, <1>4, <1>5, <1>6, <1>7, <1>8, <1>9, <1>10, <1>11 DEF BulkNext

LEMMA BulkInitially ==
  ASSUME BulkAssumption, BulkInit
  PROVE  ZipInv /\ CleanupInv /\ harm = {}
  <1>1. yard \in Yards
    BY DEF BulkInit, BulkAssumption
  <1>2. tree \subseteq HostFiles
    BY DEF BulkInit, FilesOf
  <1>3. ZipInv
    BY DEF BulkInit, ZipInv, ClosedZip, ZipModal, ImportModes
  <1>4. CleanupInv
    BY <1>1, <1>2 DEF BulkInit, CleanupInv, ClosedCleanup, CleanupModal
  <1> QED
    BY <1>3, <1>4 DEF BulkInit

\* An import overrides no file that its modal showed as existing unless override
\* was chosen for it, and the cleanup deletes no host_vars of a device its
\* inventory mentions (useZipImportWorkflow.ts, useOrphanCleanup.ts).
THEOREM BulkDoesAsAsked == BulkSpec => []BulkAsAsked
  <1> DEFINE Inv == ZipInv /\ CleanupInv /\ harm = {}
  <1>1. BulkInit => Inv
    BY BulkInitially, BulkAssumption
  <1>2. ASSUME Inv, [BulkNext]_bulkVars PROVE Inv'
    <2>1. ZipInv' /\ CleanupInv'
      BY <1>2, ZipStep, CleanupStep, BulkAssumption
    <2>2. ASSUME LoadZip PROVE harm' = harm
      <3>1. \A f \in upload.files \cap upload.kept : upload.modes[f] # "override"
        BY <1>2, <2>2 DEF LoadZip, ZipInv
      <3>2. PICK sent \in SUBSET upload.files :
              harm' = IF \E f \in sent \cap upload.kept :
                           /\ store[upload.yard][f] # "none"
                           /\ upload.modes[f] = "override" \/ store[upload.yard][f] = "none"
                      THEN harm \cup {"overridden"} ELSE harm
        BY <2>2 DEF LoadZip
      <3> QED
        BY <3>1, <3>2
    <2>3. ASSUME NEW f \in HostFiles, DeleteOrphan(f) PROVE harm' = harm
      <3>1. purge # NoCall /\ f \in purge.left
            /\ harm' = IF f \in mentioned[purge.yard] /\ "cleanup" \notin stray
                       THEN harm \cup {"deleted"} ELSE harm
        BY <2>3 DEF DeleteOrphan
      <3>2. "cleanup" \notin stray => f \notin mentioned[purge.yard]
        BY <1>2, <3>1 DEF CleanupInv
      <3> QED
        BY <3>1, <3>2
    <2>4. ASSUME ~LoadZip, ~\E f \in HostFiles : DeleteOrphan(f) PROVE harm' = harm
      BY <1>2, <2>4 DEF BulkNext, SelectZip, ServePreview, PreviewAnswered, PreviewFailed, ChooseAllMode,
           ChooseMode, ApplyToAll, SelectOrphans, CloseZip, ConfirmZip, UploadAnswered, OpenCleanup, ServeScan,
           ScanAnswered, CloseCleanup, DeleteSelection, DeleteFails, DeleteAnswered, ToggleOrphan, SwitchYard,
           ChangeRoles, AddDevice, filesVars, bulkVars
    <2> QED
      BY <1>2, <2>1, <2>2, <2>3, <2>4
  <1>3. Inv => BulkAsAsked
    BY DEF BulkAsAsked
  <1> QED
    BY <1>1, <1>2, <1>3, PTL DEF BulkSpec


-----------------------------------------------------------------------------
(***************************************************************************)
(* The editor.  A text that is shown as saved was read from a file it had  *)
(* reached, or was written by the save that made it clean; a Save and      *)
(* leave finds the text it has saved, as nothing can be typed meanwhile.   *)
(***************************************************************************)
Kinds == {"load", "save", "leave", "create", "mkdir", "rename", "delete", "select", "restore", "restorePath"}
Calls == [kind : Kinds, pc : {"get", "put", "change", "list"}, ws : Workspaces,
          path : Paths \cup {NoPath}, to : Paths \cup {NoPath}, text : Texts \cup {Blank}, open : BOOLEAN,
          reply : {"none", "ok", "failed"}, got : Texts \cup {Absent}]

\* A text that was typed in w reached a file.
Kept(t, w, reached) == t.home = w /\ t.n > 0 => t.n \in reached

\* What a call has read, or has written, and the file it is about.
CallOK(c, reached) ==
  /\ c \in Calls
  /\ c.pc = "put" => c.kind \in {"save", "leave"} /\ c.text \in Texts
  /\ c.kind \in {"save", "leave"} /\ c.pc # "list" => c.pc = "put"
  /\ c.kind \notin {"restore", "select"} \/ c.pc = "get" => c.path \in Paths
  /\ c.kind = "rename" => c.to \in Paths
  /\ c.reply = "ok" /\ c.pc = "get" => c.got \in Texts /\ Kept(c.got, c.ws, reached)
  /\ c.reply = "ok" /\ c.pc = "put" => Kept(c.text, c.ws, reached)

\* A Save and leave that did not outlive what it was pressed for finds no later text.
LeaveOK(c, lives, queued, unsaved) ==
  c.kind = "leave" /\ lives = FALSE =>
    queued # NoWorkspace /\ (c.pc = "list" => unsaved = FALSE)

EditorTypes ==
  /\ disk \in [Workspaces -> [Paths -> Texts \cup {Absent}]]
  /\ current \in Workspaces /\ path \in Paths \cup {NoPath} /\ text \in Texts \cup {Blank}
  /\ leave \in Workspaces \cup {NoWorkspace} /\ edits \in 0 .. MaxEdits
  /\ DOMAIN calls = Slots /\ dirty \in BOOLEAN /\ outlived \in BOOLEAN /\ raced \in BOOLEAN

EditorInv ==
  /\ EditorTypes
  /\ \A w \in Workspaces, p \in Paths : Kept(disk[w][p], w, written)
  /\ \A i \in Slots : calls[i] # Idle =>
       CallOK(calls[i], written) /\ LeaveOK(calls[i], outlived, leave, dirty)
  /\ IF path = NoPath THEN text = Blank ELSE text \in Texts
  /\ CleanMeansSaved

LEMMA FixedTexts ==
  /\ Blank.n = 0 /\ Blank.home = NoWorkspace /\ Absent.home = NoWorkspace
  /\ \A w \in Workspaces : [home |-> w, n |-> 0] \in Texts /\ [home |-> w, n |-> 0].n = 0
  /\ \A w \in Workspaces : \A reached : Kept(Blank, w, reached) /\ Kept(Absent, w, reached)
                                 /\ Kept([home |-> w, n |-> 0], w, reached)
  BY EditorAssumption DEF Blank, Absent, Texts, Kept

LEMMA IdleIsNoCall == Idle \notin Calls
  BY DEF Idle, Calls, Kinds

LEMMA NewCall ==
  ASSUME EditorTypes, NEW kind \in Kinds, NEW pc \in {"get", "put", "change", "list"},
         NEW p \in Paths \cup {NoPath}, NEW to \in Paths \cup {NoPath}
  PROVE  LET c == Call(kind, pc, p, to)
         IN  c \in Calls /\ c.kind = kind /\ c.pc = pc /\ c.path = p /\ c.to = to /\ c.reply = "none"
  BY DEF Call, Calls, EditorTypes

LEMMA GoneOn ==
  ASSUME NEW c \in Calls
  PROVE  LET x == [c EXCEPT !.pc = "list", !.reply = "none", !.got = Absent]
         IN  /\ x \in Calls /\ x.kind = c.kind /\ x.pc = "list" /\ x.ws = c.ws /\ x.path = c.path
             /\ x.to = c.to /\ x.text = c.text /\ x.reply = "none"
  BY DEF Calls

LEMMA Reread ==
  ASSUME NEW c \in Calls, NEW p \in Paths \cup {NoPath}
  PROVE  LET x == [c EXCEPT !.pc = "get", !.reply = "none", !.path = p]
         IN  /\ x \in Calls /\ x.kind = c.kind /\ x.pc = "get" /\ x.ws = c.ws /\ x.path = p
             /\ x.to = c.to /\ x.reply = "none"
  BY DEF Calls

\* One call changes, and no text is taken back that has reached its file.
LEMMA OneCall ==
  ASSUME EditorInv, NEW i \in Slots, NEW c, calls' = [calls EXCEPT ![i] = c], written \subseteq written',
         c # Idle => CallOK(c, written') /\ LeaveOK(c, outlived', leave', dirty'),
         \A j \in Slots \ {i} : calls[j] # Idle => LeaveOK(calls[j], outlived', leave', dirty')
  PROVE  /\ DOMAIN calls' = Slots
         /\ \A j \in Slots : calls'[j] # Idle =>
              CallOK(calls'[j], written') /\ LeaveOK(calls'[j], outlived', leave', dirty')
  <1>1. DOMAIN calls' = Slots
    BY DEF EditorInv, EditorTypes
  <1>2. ASSUME NEW j \in Slots, calls'[j] # Idle
        PROVE  CallOK(calls'[j], written') /\ LeaveOK(calls'[j], outlived', leave', dirty')
    <2>1. CASE j = i
      <3>1. calls'[j] = c
        BY <2>1 DEF EditorInv, EditorTypes
      <3> QED
        BY <1>2, <3>1
    <2>2. CASE j # i
      <3>1. calls'[j] = calls[j]
        BY <2>2 DEF EditorInv, EditorTypes
      <3>2. CallOK(calls[j], written)
        BY <1>2, <3>1 DEF EditorInv
      <3>3. CallOK(calls[j], written')
        BY <3>2 DEF CallOK, Kept
      <3> QED
        BY <1>2, <2>2, <3>1, <3>3
    <2> QED
      BY <2>1, <2>2
  <1> QED
    BY <1>1, <1>2

\* What stays as it was when a call of another kind than "leave" changes.
LEMMA LeavesStay ==
  ASSUME EditorInv, UNCHANGED <<outlived, leave>>, dirty' \in {dirty, FALSE}
  PROVE  \A j \in Slots : calls[j] # Idle => LeaveOK(calls[j], outlived', leave', dirty')
  BY DEF EditorInv, EditorTypes, LeaveOK

\* Nothing is queued: every Save and leave that runs has outlived its queue.
LEMMA LeavesOutlive ==
  ASSUME EditorInv, leave = NoWorkspace, outlived' = outlived
  PROVE  \A j \in Slots : \A l, d : calls[j] # Idle => LeaveOK(calls[j], outlived', l, d)
  BY DEF EditorInv, LeaveOK

LEMMA ChangedKeeps ==
  ASSUME EditorInv, NEW i \in Slots, Pending(i, {"put", "change"}), Allowed(calls[i])
  PROVE  /\ Changed(calls[i]) \in [Workspaces -> [Paths -> Texts \cup {Absent}]]
         /\ \A w \in Workspaces, p \in Paths :
              Kept(Changed(calls[i])[w][p], w, written \cup Reached(calls[i]))
         /\ calls[i].pc = "put" => Kept(calls[i].text, calls[i].ws, written \cup Reached(calls[i]))
  <1> DEFINE c == calls[i]
             new == Changed(c)
             reached == written \cup Reached(c)
             KeepsAll(d) == /\ d \in [Workspaces -> [Paths -> Texts \cup {Absent}]]
                            /\ \A w \in Workspaces, p \in Paths : Kept(d[w][p], w, reached)
  <1>1. CallOK(c, written) /\ c.pc \in {"put", "change"}
    BY DEF Pending, EditorInv
  <1>2. c \in Calls /\ c.ws \in Workspaces
    BY <1>1 DEF CallOK, Calls
  <1>3. KeepsAll(disk)
    BY DEF EditorInv, EditorTypes, Kept
  <1>4. c.kind \in {"save", "leave"} => Kept(c.text, c.ws, reached) /\ c.text \in Texts
    BY <1>1, <1>2 DEF CallOK, Kept, Reached, Calls
  <1>k. c.kind \in {"create", "restorePath", "rename", "delete", "save", "leave"} => c.path \in Paths
    BY <1>1 DEF CallOK
  <1>5. ASSUME NEW p \in Paths, NEW t \in Texts \cup {Absent}, NEW d, KeepsAll(d), Kept(t, c.ws, reached)
        PROVE  KeepsAll([d EXCEPT ![c.ws][p] = t])
    <2>1. [d EXCEPT ![c.ws][p] = t] \in [Workspaces -> [Paths -> Texts \cup {Absent}]]
      BY <1>2, <1>5
    <2>2. \A w \in Workspaces, q \in Paths :
            [d EXCEPT ![c.ws][p] = t][w][q] = IF w = c.ws /\ q = p THEN t ELSE d[w][q]
      BY <1>2, <1>5
    <2> QED
      BY <1>5, <2>1, <2>2
  <1>6. \A t : t \in {Absent, [home |-> c.ws, n |-> 0]} => t \in Texts \cup {Absent} /\ Kept(t, c.ws, reached)
    BY <1>2, FixedTexts
  <1> HIDE DEF KeepsAll
  <1>7. KeepsAll(new)
    <2>1. CASE c.kind \in {"save", "leave"}
      BY <1>3, <1>4, <1>5, <1>k, <2>1 DEF Changed
    <2>2. CASE c.kind \in {"create", "restorePath"}
      BY <1>3, <1>5, <1>6, <1>k, <2>2 DEF Changed
    <2>3. CASE c.kind = "rename"
      <3>1. c.path \in Paths /\ c.to \in Paths
        BY <1>1, <2>3 DEF CallOK
      <3>2. disk[c.ws][c.path] \in Texts \cup {Absent} /\ Kept(disk[c.ws][c.path], c.ws, reached)
        BY <1>2, <1>3, <3>1 DEF KeepsAll
      <3>3. KeepsAll([disk EXCEPT ![c.ws][c.to] = disk[c.ws][c.path]])
        BY <1>3, <1>5, <3>1, <3>2
      <3>4. KeepsAll([[disk EXCEPT ![c.ws][c.to] = disk[c.ws][c.path]] EXCEPT ![c.ws][c.path] = Absent])
        BY <1>5, <1>6, <3>1, <3>3
      <3> QED
        BY <2>3, <3>4 DEF Changed
    <2>4. CASE c.kind = "delete"
      BY <1>3, <1>5, <1>6, <1>k, <2>4 DEF Changed
    <2>5. CASE c.kind = "restore"
      <3>1. new = [disk EXCEPT ![c.ws] = [p \in Paths |-> [home |-> c.ws, n |-> 0]]]
        BY <2>5 DEF Changed
      <3>2. [p \in Paths |-> [home |-> c.ws, n |-> 0]] \in [Paths -> Texts \cup {Absent}]
        BY <1>6
      <3>d. disk \in [Workspaces -> [Paths -> Texts \cup {Absent}]]
        BY DEF EditorInv, EditorTypes
      <3> HIDE DEF new
      <3>3. new \in [Workspaces -> [Paths -> Texts \cup {Absent}]]
        BY <1>2, <3>1, <3>2, <3>d
      <3>4. \A w \in Workspaces : w # c.ws => new[w] = disk[w]
        BY <3>1, <3>d
      <3>5. new[c.ws] = [p \in Paths |-> [home |-> c.ws, n |-> 0]]
        BY <1>2, <3>1, <3>d
      <3>6. \A w \in Workspaces, p \in Paths : Kept(new[w][p], w, reached)
        BY <1>3, <1>6, <3>4, <3>5 DEF KeepsAll
      <3> QED
        BY <3>3, <3>6 DEF KeepsAll
    <2>6. CASE c.kind \notin {"save", "leave", "create", "restorePath", "rename", "delete", "restore"}
      BY <1>3, <2>6 DEF Changed
    <2> QED
      BY <2>1, <2>2, <2>3, <2>4, <2>5, <2>6
  <1> QED
    BY <1>1, <1>4, <1>7 DEF KeepsAll, CallOK

-----------------------------------------------------------------------------
(* The file API.                                                             *)
LEMMA ServeStep ==
  ASSUME EditorInv, NEW i \in Slots, ServeChange(i) \/ ServeRefusedChange(i) \/ ServeRead(i)
  PROVE  EditorInv'
  <1> DEFINE c == calls[i]
  <1>1. c # Idle /\ CallOK(c, written) /\ c \in Calls /\ LeaveOK(c, outlived, leave, dirty)
    BY DEF ServeChange, ServeRefusedChange, ServeRead, Pending, EditorInv, CallOK
  <1>2. UNCHANGED <<current, path, text, dirty, leave, edits, raced, outlived>>
    BY DEF ServeChange, ServeRefusedChange, ServeRead, shown
  <1>3. PICK r \in {"ok", "failed"}, t \in Texts \cup {Absent} :
          /\ calls' = [calls EXCEPT ![i].reply = r, ![i].got = t]
          /\ \/ /\ c.pc \in {"put", "change"} /\ Allowed(c)
                /\ disk' = Changed(c) /\ written' = written \cup Reached(c)
             \/ c.pc \in {"put", "change"} /\ r = "failed" /\ UNCHANGED <<disk, written>>
             \/ /\ c.pc = "get" /\ UNCHANGED <<disk, written>>
                /\ r = "ok" => t = disk[c.ws][c.path] /\ t # Absent
    <2>1. CASE ServeChange(i)
      BY <2>1 DEF ServeChange, Reply, Pending
    <2>2. CASE ServeRefusedChange(i)
      BY <2>2 DEF ServeRefusedChange, Reply, Pending
    <2>3. CASE ServeRead(i)
      <3>1. c.pc = "get"
        BY <2>3 DEF ServeRead, Pending
      <3>2. c.path \in Paths /\ c.ws \in Workspaces
        BY <1>1, <3>1 DEF CallOK, Calls
      <3>3. disk[c.ws][c.path] \in Texts \cup {Absent}
        BY <3>2 DEF EditorInv, EditorTypes
      <3> QED
        BY <2>3, <3>1, <3>3 DEF ServeRead, Reply
    <2> QED
      BY <2>1, <2>2, <2>3
  <1> DEFINE x == [c EXCEPT !.reply = r, !.got = t]
  <1>4. calls' = [calls EXCEPT ![i] = x]
    BY <1>3 DEF EditorInv, EditorTypes
  <1>5. /\ x \in Calls /\ x.kind = c.kind /\ x.pc = c.pc /\ x.ws = c.ws /\ x.path = c.path
        /\ x.to = c.to /\ x.text = c.text /\ x.reply = r /\ x.got = t
    BY <1>1 DEF Calls
  <1> HIDE DEF x
  <1>6. /\ disk' \in [Workspaces -> [Paths -> Texts \cup {Absent}]] /\ written \subseteq written'
        /\ \A w \in Workspaces, p \in Paths : Kept(disk[w][p], w, written)'
        /\ r = "ok" /\ c.pc = "put" => Kept(c.text, c.ws, written')
    <2>1. CASE c.pc \in {"put", "change"} /\ Allowed(c) /\ disk' = Changed(c) /\ written' = written \cup Reached(c)
      <3>1. Pending(i, {"put", "change"})
        BY <2>1 DEF ServeChange, ServeRefusedChange, ServeRead, Pending
      <3> QED
        BY <2>1, <3>1, ChangedKeeps
    <2>2. CASE UNCHANGED <<disk, written>> /\ ~(r = "ok" /\ c.pc = "put")
      BY <2>2 DEF EditorInv, EditorTypes
    <2> QED
      BY <1>3, <2>1, <2>2
  <1>7. c.pc = "get" /\ r = "ok" => t \in Texts /\ Kept(t, c.ws, written')
    <2>1. SUFFICES ASSUME c.pc = "get", r = "ok" PROVE t \in Texts /\ Kept(t, c.ws, written)
      BY <1>6 DEF Kept
    <2>2. c.path \in Paths /\ c.ws \in Workspaces /\ t = disk[c.ws][c.path] /\ t # Absent
      BY <1>1, <1>3, <2>1 DEF CallOK, Calls
    <2> QED
      BY <2>2 DEF EditorInv
  <1>8. CallOK(x, written') /\ LeaveOK(x, outlived', leave', dirty')
    BY <1>1, <1>2, <1>5, <1>6, <1>7 DEF CallOK, LeaveOK
  <1>9. \A j \in Slots : calls[j] # Idle => LeaveOK(calls[j], outlived', leave', dirty')
    BY <1>2, LeavesStay
  <1>10. /\ DOMAIN calls' = Slots
         /\ \A j \in Slots : calls'[j] # Idle =>
              CallOK(calls'[j], written') /\ LeaveOK(calls'[j], outlived', leave', dirty')
    BY <1>4, <1>6, <1>8, <1>9, OneCall
  <1>11. CleanMeansSaved'
    BY <1>2, <1>6 DEF EditorInv, CleanMeansSaved
  <1> QED
    BY <1>2, <1>6, <1>10, <1>11 DEF EditorInv, EditorTypes

-----------------------------------------------------------------------------
(* The user.                                                                 *)
LEMMA AskStep ==
  ASSUME EditorInv, NEW i \in Slots,
         \/ \E p \in Paths : \/ LoadFile(i, p) \/ CreateFile(i, p) \/ CreateDirectory(i, p) \/ DeleteFile(i, p)
                            \/ RestorePath(i, p) \/ \E q \in Paths : RenameFile(i, p, q)
         \/ RestoreWorkspace(i) \/ \E button \in BOOLEAN : SaveFile(i, button)
  PROVE  EditorInv'
  <1>1. UNCHANGED <<disk, current, path, text, dirty, leave, edits, written, raced, outlived>>
    BY DEF LoadFile, CreateFile, CreateDirectory, DeleteFile, RestorePath, RenameFile, RestoreWorkspace, SaveFile,
           shown
  <1>2. PICK kind \in Kinds \ {"leave", "select"}, pc \in {"get", "put", "change"}, p \in Paths \cup {NoPath},
             to \in Paths \cup {NoPath} :
          /\ calls' = [calls EXCEPT ![i] = Call(kind, pc, p, to)]
          /\ pc = "put" <=> kind = "save"
          /\ kind # "restore" => p \in Paths
          /\ pc = "get" => p \in Paths
          /\ kind = "rename" => to \in Paths
          /\ pc = "put" => path # NoPath
    <2>1. ASSUME NEW p \in Paths, LoadFile(i, p) PROVE calls' = [calls EXCEPT ![i] = Call("load", "get", p, NoPath)]
      BY <2>1 DEF LoadFile, Ask, Start
    <2>2. ASSUME NEW p \in Paths, CreateFile(i, p)
          PROVE  calls' = [calls EXCEPT ![i] = Call("create", "change", p, NoPath)]
      BY <2>2 DEF CreateFile, Ask, Start
    <2>3. ASSUME NEW p \in Paths, CreateDirectory(i, p)
          PROVE  calls' = [calls EXCEPT ![i] = Call("mkdir", "change", p, NoPath)]
      BY <2>3 DEF CreateDirectory, Ask, Start
    <2>4. ASSUME NEW p \in Paths, DeleteFile(i, p)
          PROVE  calls' = [calls EXCEPT ![i] = Call("delete", "change", p, NoPath)]
      BY <2>4 DEF DeleteFile, Ask, Start
    <2>5. ASSUME NEW p \in Paths, RestorePath(i, p)
          PROVE  calls' = [calls EXCEPT ![i] = Call("restorePath", "change", p, NoPath)]
      BY <2>5 DEF RestorePath, Ask, Start
    <2>6. ASSUME NEW p \in Paths, NEW q \in Paths, RenameFile(i, p, q)
          PROVE  calls' = [calls EXCEPT ![i] = Call("rename", "change", p, q)]
      BY <2>6 DEF RenameFile, Ask, Start
    <2>7. ASSUME RestoreWorkspace(i)
          PROVE  calls' = [calls EXCEPT ![i] = Call("restore", "change", path, NoPath)]
      BY <2>7 DEF RestoreWorkspace, Ask, Start
    <2>8. ASSUME NEW button \in BOOLEAN, SaveFile(i, button)
          PROVE  calls' = [calls EXCEPT ![i] = Call("save", "put", path, NoPath)] /\ path # NoPath
      BY <2>8 DEF SaveFile, Savable, Start
    <2>9. path \in Paths \cup {NoPath}
      BY DEF EditorInv, EditorTypes
    <2> QED
      BY <2>1, <2>2, <2>3, <2>4, <2>5, <2>6, <2>7, <2>8, <2>9 DEF Kinds
  <1> DEFINE c == Call(kind, pc, p, to)
  <1>3. c \in Calls /\ c.kind = kind /\ c.pc = pc /\ c.path = p /\ c.to = to /\ c.reply = "none"
    BY NewCall DEF EditorInv
  <1>4. pc = "put" => c.text \in Texts
    BY <1>2 DEF Call, EditorInv
  <1> HIDE DEF c
  <1>5. CallOK(c, written') /\ LeaveOK(c, outlived', leave', dirty')
    BY <1>2, <1>3, <1>4 DEF CallOK, LeaveOK
  <1>6. \A j \in Slots : calls[j] # Idle => LeaveOK(calls[j], outlived', leave', dirty')
    BY <1>1, LeavesStay
  <1>7. /\ DOMAIN calls' = Slots
        /\ \A j \in Slots : calls'[j] # Idle =>
             CallOK(calls'[j], written') /\ LeaveOK(calls'[j], outlived', leave', dirty')
    BY <1>1, <1>2, <1>5, <1>6, OneCall DEF c
  <1> QED
    BY <1>1, <1>7 DEF EditorInv, EditorTypes, CleanMeansSaved

LEMMA TypeStep ==
  ASSUME EditorInv, Type
  PROVE  EditorInv'
  <1>1. /\ leave = NoWorkspace /\ path # NoPath /\ edits < MaxEdits /\ edits' = edits + 1 /\ dirty' = TRUE
        /\ text' = [home |-> IF text = Blank THEN current ELSE text.home, n |-> edits + 1]
        /\ UNCHANGED <<disk, current, path, leave, calls, written, raced, outlived>>
    BY DEF Type
  <1>2. edits' \in 0 .. MaxEdits /\ text' \in Texts
    <2>1. (IF text = Blank THEN current ELSE text.home) \in Workspaces
      BY DEF EditorInv, EditorTypes, Texts
    <2>2. MaxEdits \in Nat /\ edits \in 0 .. MaxEdits
      BY EditorAssumption DEF EditorInv, EditorTypes
    <2>3. edits + 1 \in 0 .. MaxEdits
      BY <1>1, <2>2
    <2> QED
      BY <1>1, <2>1, <2>3 DEF Texts
  <1>3. \A j \in Slots : calls[j] # Idle => LeaveOK(calls[j], outlived', leave', dirty')
    BY <1>1, LeavesOutlive
  <1> QED
    BY <1>1, <1>2, <1>3 DEF EditorInv, EditorTypes, CleanMeansSaved

\* What selecting a workspace leaves in the panel.
LEMMA SelectFromStep ==
  ASSUME EditorInv, NEW i \in Slots, NEW w \in Workspaces \cup {NoWorkspace}, w # NoWorkspace, SelectFrom(i, w),
         UNCHANGED <<disk, current, edits, written>>, leave' \in Workspaces \cup {NoWorkspace},
         outlived' \in BOOLEAN,
         \A j \in Slots \ {i} : calls[j] # Idle => LeaveOK(calls[j], outlived', leave', dirty')
  PROVE  EditorInv'
  <1> DEFINE c == [Call("select", "list", NoPath, NoPath) EXCEPT !.ws = w, !.open = FALSE]
  <1>1. /\ path' = NoPath /\ text' = Blank /\ dirty' = FALSE /\ raced' = FALSE
        /\ calls' = [calls EXCEPT ![i] = c]
    BY DEF SelectFrom, Start
  <1>2. Call("select", "list", NoPath, NoPath) \in Calls /\ Call("select", "list", NoPath, NoPath).kind = "select"
        /\ Call("select", "list", NoPath, NoPath).pc = "list"
    BY NewCall DEF EditorInv, Kinds
  <1>3. c \in Calls /\ c.kind = "select" /\ c.pc = "list"
    BY <1>2 DEF Calls
  <1> HIDE DEF c
  <1>4. CallOK(c, written') /\ LeaveOK(c, outlived', leave', dirty')
    BY <1>3 DEF CallOK, LeaveOK
  <1>5. /\ DOMAIN calls' = Slots
        /\ \A j \in Slots : calls'[j] # Idle =>
             CallOK(calls'[j], written') /\ LeaveOK(calls'[j], outlived', leave', dirty')
    BY <1>1, <1>4, OneCall
  <1> QED
    BY <1>1, <1>5 DEF EditorInv, EditorTypes, CleanMeansSaved

LEMMA LeaveStep ==
  ASSUME EditorInv,
         \/ CancelLeave
         \/ \E i \in Slots : SaveAndLeave(i) \/ \E w \in Workspaces : QueueLeave(i, w)
  PROVE  EditorInv'
  <1>1. CASE CancelLeave
    <2>1. /\ leave' = NoWorkspace /\ outlived' = (outlived \/ \E i \in Slots : Leaving(i))
          /\ UNCHANGED <<disk, current, path, text, dirty, calls, edits, written, raced>>
      BY <1>1 DEF CancelLeave, shown
    <2>2. \A j \in Slots : calls[j] # Idle => LeaveOK(calls[j], outlived', leave', dirty')
      BY <2>1 DEF LeaveOK, Leaving
    <2> QED
      BY <2>1, <2>2 DEF EditorInv, EditorTypes, CleanMeansSaved
  <1>2. ASSUME NEW i \in Slots, SaveAndLeave(i) PROVE EditorInv'
    <2>0. calls[i] = Idle /\ leave # NoWorkspace /\ UNCHANGED <<disk, current, edits, written>>
          /\ leave \in Workspaces \cup {NoWorkspace}
      BY <1>2 DEF SaveAndLeave, EditorInv, EditorTypes
    <2>1. CASE ~Savable
      <3>1. leave' = NoWorkspace /\ SelectFrom(i, leave) /\ outlived' = (outlived \/ OtherLeaves(i))
        BY <1>2, <2>1 DEF SaveAndLeave
      <3>2. \A j \in Slots \ {i} : calls[j] # Idle => LeaveOK(calls[j], outlived', leave', dirty')
        BY <3>1 DEF LeaveOK, OtherLeaves, Leaving
      <3>3. outlived' \in BOOLEAN
        BY <3>1
      <3> QED
        BY <2>0, <3>1, <3>2, <3>3, SelectFromStep
    <2>2. CASE Savable
      <3> DEFINE c == Call("leave", "put", path, NoPath)
      <3>1. calls' = [calls EXCEPT ![i] = c] /\ UNCHANGED <<path, text, dirty, leave, raced, outlived>> /\ path # NoPath
        BY <1>2, <2>2 DEF SaveAndLeave, Savable, Start, shown
      <3>2. path \in Paths /\ "leave" \in Kinds
        BY <3>1 DEF EditorInv, EditorTypes, Kinds
      <3>3. c \in Calls /\ c.kind = "leave" /\ c.pc = "put" /\ c.path = path /\ c.reply = "none"
        BY <3>2, NewCall DEF EditorInv
      <3>4. c.text \in Texts
        BY <3>1 DEF Call, EditorInv
      <3> HIDE DEF c
      <3>5. CallOK(c, written') /\ LeaveOK(c, outlived', leave', dirty')
        BY <2>0, <3>1, <3>2, <3>3, <3>4 DEF CallOK, LeaveOK
      <3>6. \A j \in Slots : calls[j] # Idle => LeaveOK(calls[j], outlived', leave', dirty')
        BY <3>1, LeavesStay
      <3>7. /\ DOMAIN calls' = Slots
            /\ \A j \in Slots : calls'[j] # Idle =>
                 CallOK(calls'[j], written') /\ LeaveOK(calls'[j], outlived', leave', dirty')
        BY <2>0, <3>1, <3>5, <3>6, OneCall
      <3> QED
        BY <2>0, <3>1, <3>7 DEF EditorInv, EditorTypes, CleanMeansSaved
    <2> QED
      BY <2>1, <2>2
  <1>3. ASSUME NEW i \in Slots, NEW w \in Workspaces, QueueLeave(i, w) PROVE EditorInv'
    <2>1. leave = NoWorkspace /\ UNCHANGED <<disk, current, edits, written, outlived>>
      BY <1>3 DEF QueueLeave, Free
    <2>2. \A j \in Slots : \A l, d : calls[j] # Idle => LeaveOK(calls[j], outlived', l, d)
      BY <2>1, LeavesOutlive
    <2>3. CASE SelectFrom(i, w) /\ UNCHANGED leave
      <3>1. w # NoWorkspace /\ leave' \in Workspaces \cup {NoWorkspace} /\ outlived' \in BOOLEAN
        BY <2>1, <2>3, EditorAssumption DEF EditorInv, EditorTypes
      <3>2. \A j \in Slots \ {i} : calls[j] # Idle => LeaveOK(calls[j], outlived', leave', dirty')
        BY <2>2
      <3> QED
        BY <2>1, <2>3, <3>1, <3>2, SelectFromStep
    <2>4. CASE leave' = w /\ UNCHANGED <<calls, shown, loading, raced>>
      <3>1. \A j \in Slots : calls[j] # Idle => LeaveOK(calls[j], outlived', leave', dirty')
        BY <2>2
      <3> QED
        BY <2>1, <2>4, <3>1 DEF EditorInv, EditorTypes, CleanMeansSaved, shown
    <2> QED
      BY <1>3, <2>3, <2>4 DEF QueueLeave
  <1> QED
    BY <1>1, <1>2, <1>3

-----------------------------------------------------------------------------
(* What follows each await.                                                  *)

\* The call ends; what it was about was neither a Save and leave nor queued.
LEMMA EndStep ==
  ASSUME EditorInv, NEW i \in Slots, Finish(i), UNCHANGED <<disk, leave, edits, written>>,
         outlived' = outlived \/ LeaveEnds(i), dirty' \in {dirty, FALSE}, raced' \in BOOLEAN,
         current' \in Workspaces, path' \in Paths \cup {NoPath},
         IF path' = NoPath THEN text' = Blank ELSE text' \in Texts, CleanMeansSaved'
  PROVE  EditorInv'
  <1>1. calls' = [calls EXCEPT ![i] = Idle] /\ dirty' \in BOOLEAN
    BY DEF Finish, Start, EditorInv, EditorTypes
  <1>2. outlived' \in BOOLEAN /\ \A j \in Slots \ {i} : calls[j] # Idle => LeaveOK(calls[j], outlived', leave', dirty')
    <2>1. CASE outlived' = outlived
      BY <2>1, LeavesStay DEF EditorInv, EditorTypes
    <2>2. CASE LeaveEnds(i) /\ OtherLeaves(i)
      <3>1. outlived' = outlived
        BY <2>2 DEF LeaveEnds, EditorInv, EditorTypes
      <3> QED
        BY <3>1, LeavesStay DEF EditorInv, EditorTypes
    <2>3. CASE LeaveEnds(i) /\ ~OtherLeaves(i)
      BY <2>3 DEF LeaveEnds, LeaveOK, OtherLeaves, Leaving
    <2> QED
      BY <2>1, <2>2, <2>3
  <1>3. /\ DOMAIN calls' = Slots
        /\ \A j \in Slots : calls'[j] # Idle =>
             CallOK(calls'[j], written') /\ LeaveOK(calls'[j], outlived', leave', dirty')
    BY <1>1, <1>2, OneCall
  <1>4. text' \in Texts \cup {Blank}
    OBVIOUS
  <1> QED
    BY <1>1, <1>2, <1>3, <1>4 DEF EditorInv, EditorTypes

\* The call goes on with what follows it.
LEMMA GoesOnStep ==
  ASSUME EditorInv, NEW i \in Slots, NEW c, calls' = [calls EXCEPT ![i] = c], c # Idle,
         CallOK(c, written), LeaveOK(c, outlived, leave, dirty'),
         UNCHANGED <<disk, current, leave, edits, written, outlived>>,
         dirty' \in {dirty, FALSE}, raced' \in BOOLEAN, path' \in Paths \cup {NoPath},
         IF path' = NoPath THEN text' = Blank ELSE text' \in Texts, CleanMeansSaved'
  PROVE  EditorInv'
  <1>1. \A j \in Slots : calls[j] # Idle => LeaveOK(calls[j], outlived', leave', dirty')
    BY LeavesStay
  <1>2. /\ DOMAIN calls' = Slots
        /\ \A j \in Slots : calls'[j] # Idle =>
             CallOK(calls'[j], written') /\ LeaveOK(calls'[j], outlived', leave', dirty')
    BY <1>1, OneCall
  <1>3. text' \in Texts \cup {Blank} /\ dirty' \in BOOLEAN
    BY DEF EditorInv, EditorTypes
  <1> QED
    BY <1>2, <1>3 DEF EditorInv, EditorTypes

LEMMA ReplyStep ==
  ASSUME EditorInv, NEW i \in Slots,
         \/ Loaded(i) \/ LoadFailed(i) \/ SaveFailed(i) \/ RestoredUnread(i) \/ ChangeFailed(i)
         \/ Selected(i) \/ NotSelected(i)
  PROVE  EditorInv'
  <1> DEFINE c == calls[i]
  <1>1. c # Idle /\ CallOK(c, written) /\ c \in Calls /\ c.ws \in Workspaces
    BY DEF Loaded, LoadFailed, SaveFailed, RestoredUnread, ChangeFailed, Selected, NotSelected,
           Done, Listed, EditorInv, CallOK, Calls
  <1>t. /\ path \in Paths \cup {NoPath} /\ current \in Workspaces /\ raced \in BOOLEAN /\ dirty \in BOOLEAN
        /\ IF path = NoPath THEN text = Blank ELSE text \in Texts
        /\ CleanMeansSaved
    BY DEF EditorInv, EditorTypes
  <1>2. CASE Loaded(i)
    <2>1. /\ c.pc = "get" /\ c.reply = "ok" /\ Finish(i)
          /\ path' = (IF c.kind = "rename" THEN c.to ELSE c.path)
          /\ text' = c.got /\ dirty' = FALSE
          /\ raced' = (c.ws # current \/ c.got.home # current)
          /\ UNCHANGED <<disk, current, leave, edits, written, outlived>>
      BY <1>2 DEF Loaded, Done
    <2>2. path' \in Paths /\ c.got \in Texts /\ Kept(c.got, c.ws, written)
      BY <1>1, <2>1 DEF CallOK
    <2>3. CleanMeansSaved'
      BY <2>1, <2>2 DEF CleanMeansSaved, Kept
    <2>4. IF path' = NoPath THEN text' = Blank ELSE text' \in Texts
      BY <2>1, <2>2, EditorAssumption
    <2> QED
      BY <1>t, <2>1, <2>2, <2>3, <2>4, EndStep
  <1>3. CASE LoadFailed(i) \/ ChangeFailed(i) \/ NotSelected(i) \/ SaveFailed(i)
    <2>1. /\ Finish(i) /\ UNCHANGED <<disk, current, path, text, dirty, leave, edits, written, raced>>
          /\ outlived' = outlived \/ LeaveEnds(i)
      BY <1>3 DEF LoadFailed, ChangeFailed, NotSelected, SaveFailed, shown
    <2>2. CleanMeansSaved'
      BY <1>t, <2>1 DEF CleanMeansSaved
    <2> QED
      BY <1>t, <2>1, <2>2, EndStep
  <1>4. CASE RestoredUnread(i)
    <2>1. /\ Finish(i) /\ UNCHANGED <<disk, current, path, text, leave, edits, written, outlived>>
          /\ dirty' = FALSE /\ raced' = (raced \/ dirty)
      BY <1>4 DEF RestoredUnread
    <2>2. CleanMeansSaved' /\ raced' \in BOOLEAN
      BY <1>t, <2>1 DEF CleanMeansSaved
    <2> QED
      BY <1>t, <2>1, <2>2, EndStep
  <1>5. CASE Selected(i)
    <2>1. /\ Finish(i) /\ UNCHANGED <<disk, path, text, dirty, leave, edits, written, outlived>>
          /\ current' = c.ws /\ raced' = (raced \/ path # NoPath)
      BY <1>5 DEF Selected, shown
    <2>2. CleanMeansSaved' /\ raced' \in BOOLEAN
      BY <1>t, <2>1 DEF CleanMeansSaved
    <2> QED
      BY <1>1, <1>t, <2>1, <2>2, EndStep
  <1> QED
    BY <1>2, <1>3, <1>4, <1>5

LEMMA SaveAnswered ==
  ASSUME EditorInv, NEW i \in Slots, Saved(i) \/ SaveDone(i)
  PROVE  EditorInv'
  <1> DEFINE c == calls[i]
  <1>1. /\ c # Idle /\ CallOK(c, written) /\ c \in Calls /\ LeaveOK(c, outlived, leave, dirty)
        /\ c.kind \in {"save", "leave"}
    BY DEF Saved, SaveDone, Done, Listed, EditorInv, CallOK
  <1>t. /\ path \in Paths \cup {NoPath} /\ current \in Workspaces /\ raced \in BOOLEAN /\ dirty \in BOOLEAN
        /\ IF path = NoPath THEN text = Blank ELSE text \in Texts
        /\ CleanMeansSaved /\ leave \in Workspaces \cup {NoWorkspace}
    BY DEF EditorInv, EditorTypes
  <1>2. CASE Saved(i)
    <2> DEFINE x == [c EXCEPT !.pc = "list", !.reply = "none", !.got = Absent]
    <2>1. /\ c.pc = "put" /\ c.reply = "ok" /\ calls' = [calls EXCEPT ![i] = x] /\ dirty' = FALSE
          /\ raced' = (c.text # text \/ c.ws # current \/ text.home # current)
          /\ UNCHANGED <<disk, current, path, text, leave, edits, written, outlived>>
      BY <1>2 DEF Saved, Done, GoOn, Start
    <2>2. /\ x \in Calls /\ x.kind = c.kind /\ x.pc = "list" /\ x.ws = c.ws /\ x.path = c.path
          /\ x.to = c.to /\ x.text = c.text /\ x.reply = "none"
      BY <1>1, GoneOn
    <2> HIDE DEF x
    <2>3. CallOK(x, written) /\ x # Idle
      BY <1>1, <2>2, IdleIsNoCall DEF CallOK
    <2>4. LeaveOK(x, outlived, leave, dirty')
      BY <1>1, <2>1, <2>2 DEF LeaveOK
    <2>5. CleanMeansSaved' /\ raced' \in BOOLEAN
      <3>1. Kept(c.text, c.ws, written)
        BY <1>1, <2>1 DEF CallOK
      <3> QED
        BY <2>1, <3>1 DEF CleanMeansSaved, Kept
    <2> QED
      BY <1>t, <2>1, <2>3, <2>4, <2>5, GoesOnStep
  <1>3. CASE SaveDone(i) /\ SelectFrom(i, leave)
    <2>1. CASE /\ calls[i].kind = "leave" /\ leave # NoWorkspace /\ leave' = NoWorkspace /\ outlived' = OtherLeaves(i)
      <3>1. \A j \in Slots \ {i} : calls[j] # Idle => LeaveOK(calls[j], outlived', leave', dirty')
        BY <2>1 DEF LeaveOK, OtherLeaves, Leaving
      <3>2. outlived' \in BOOLEAN /\ UNCHANGED <<disk, current, edits, written>>
        BY <1>3, <2>1 DEF SaveDone, OtherLeaves
      <3> QED
        BY <1>t, <1>3, <2>1, <3>1, <3>2, SelectFromStep
    <2>2. CASE /\ Finish(i) /\ LeaveEnds(i) /\ UNCHANGED <<shown, leave, raced>>
      <3>1. UNCHANGED <<disk, current, path, text, dirty, leave, edits, written, raced>>
        BY <1>3, <2>2 DEF SaveDone, shown
      <3>2. CleanMeansSaved'
        BY <1>t, <3>1 DEF CleanMeansSaved
      <3> QED
        BY <1>t, <2>2, <3>1, <3>2, EndStep
    <2> QED
      BY <1>3, <2>1, <2>2 DEF SaveDone
  <1>4. CASE SaveDone(i) /\ ~SelectFrom(i, leave)
    <2>1. /\ Finish(i) /\ LeaveEnds(i) /\ UNCHANGED <<disk, current, path, text, dirty, leave, edits, written, raced>>
      BY <1>4 DEF SaveDone, shown
    <2>2. CleanMeansSaved'
      BY <1>t, <2>1 DEF CleanMeansSaved
    <2> QED
      BY <1>t, <2>1, <2>2, EndStep
  <1> QED
    BY <1>2, <1>3, <1>4

LEMMA ChangeAnswered ==
  ASSUME EditorInv, NEW i \in Slots, FileChanged(i) \/ Refreshed(i)
  PROVE  EditorInv'
  <1> DEFINE c == calls[i]
  <1>1. /\ c # Idle /\ CallOK(c, written) /\ c \in Calls /\ LeaveOK(c, outlived, leave, dirty)
        /\ c.kind \in FileChanges
    BY DEF FileChanged, Refreshed, Done, Listed, EditorInv, CallOK
  <1>t. /\ path \in Paths \cup {NoPath} /\ current \in Workspaces /\ raced \in BOOLEAN /\ dirty \in BOOLEAN
        /\ IF path = NoPath THEN text = Blank ELSE text \in Texts
        /\ CleanMeansSaved
    BY DEF EditorInv, EditorTypes
  <1>2. CASE FileChanged(i)
    <2> DEFINE x == [c EXCEPT !.pc = "list", !.reply = "none", !.got = Absent]
               closes == c.kind = "delete" /\ c.open
    <2>1. /\ calls' = [calls EXCEPT ![i] = x]
          /\ path' = (IF closes THEN NoPath ELSE path) /\ text' = (IF closes THEN Blank ELSE text)
          /\ dirty' = (~closes /\ dirty) /\ raced' = (~closes /\ raced)
          /\ UNCHANGED <<disk, current, leave, edits, written, outlived>>
      BY <1>2 DEF FileChanged, GoOn, Start
    <2>2. /\ x \in Calls /\ x.kind = c.kind /\ x.pc = "list" /\ x.ws = c.ws /\ x.path = c.path
          /\ x.to = c.to /\ x.text = c.text /\ x.reply = "none"
      BY <1>1, GoneOn
    <2> HIDE DEF x
    <2>3. CallOK(x, written) /\ x # Idle
      BY <1>1, <2>2, IdleIsNoCall DEF CallOK
    <2>4. LeaveOK(x, outlived, leave, dirty')
      BY <1>1, <2>2 DEF LeaveOK, FileChanges, Restores
    <2>5. CASE closes
      BY <1>t, <2>1, <2>3, <2>4, <2>5, GoesOnStep DEF CleanMeansSaved
    <2>6. CASE ~closes
      <3>1. UNCHANGED <<path, text, dirty, raced>>
        BY <1>t, <2>1, <2>6
      <3>2. CleanMeansSaved'
        BY <1>t, <2>1, <3>1 DEF CleanMeansSaved
      <3> QED
        BY <1>t, <2>1, <2>3, <2>4, <3>1, <3>2, GoesOnStep
    <2> QED
      BY <2>5, <2>6
  <1>3. CASE Refreshed(i)
    <2> DEFINE p == IF c.kind = "rename" THEN c.to ELSE c.path
               x == [c EXCEPT !.pc = "get", !.reply = "none", !.path = p]
    <2>0. UNCHANGED <<disk, current, path, text, leave, edits, written, outlived>> /\ c.pc = "list"
      BY <1>3 DEF Refreshed, Listed
    <2>1. CASE /\ calls' = [calls EXCEPT ![i] = x] /\ UNCHANGED <<dirty, raced>>
               /\ c.kind \in {"create", "rename", "restorePath"} \/ (c.kind = "restore" /\ c.path # NoPath)
      <3>1. p \in Paths
        BY <1>1, <2>1 DEF CallOK, Calls
      <3>2. /\ x \in Calls /\ x.kind = c.kind /\ x.pc = "get" /\ x.ws = c.ws /\ x.path = p
            /\ x.to = c.to /\ x.reply = "none"
        <4> HIDE DEF p
        <4>1. p \in Paths \cup {NoPath}
          BY <3>1
        <4> QED
          BY <1>1, <4>1, Reread
      <3> HIDE DEF x, p
      <3>3. CallOK(x, written) /\ x # Idle
        BY <1>1, <2>1, <3>1, <3>2, IdleIsNoCall DEF CallOK
      <3>4. LeaveOK(x, outlived, leave, dirty')
        BY <2>1, <3>2 DEF LeaveOK
      <3>5. CleanMeansSaved'
        BY <1>t, <2>0, <2>1 DEF CleanMeansSaved
      <3> QED
        BY <1>t, <2>0, <2>1, <3>3, <3>4, <3>5, GoesOnStep
    <2>2. CASE Finish(i) /\ \/ UNCHANGED <<dirty, raced>>
                            \/ dirty' = FALSE /\ raced' = (raced \/ dirty)
      <3>1. CASE UNCHANGED <<dirty, raced>>
        <4>1. CleanMeansSaved'
          BY <1>t, <2>0, <3>1 DEF CleanMeansSaved
        <4> QED
          BY <1>t, <2>0, <2>2, <3>1, <4>1, EndStep
      <3>2. CASE dirty' = FALSE /\ raced' = (raced \/ dirty)
        <4>1. CleanMeansSaved' /\ raced' \in BOOLEAN
          BY <1>t, <2>0, <3>2 DEF CleanMeansSaved
        <4> QED
          BY <1>t, <2>0, <2>2, <3>2, <4>1, EndStep
      <3> QED
        BY <2>2, <3>1, <3>2
    <2> DEFINE loads == CASE c.kind = "create" -> TRUE
                          [] c.kind = "restore" -> c.path # NoPath
                          [] c.kind \in {"rename", "restorePath"} -> c.open
                          [] OTHER -> FALSE
    <2>3. loads => c.kind \in {"create", "rename", "restorePath"} \/ (c.kind = "restore" /\ c.path # NoPath)
      OBVIOUS
    <2>4. \/ loads /\ UNCHANGED <<dirty, raced, restoring>> /\ Start(i, x)
          \/ /\ Finish(i)
             /\ IF c.kind \in Restores
                THEN dirty' = FALSE /\ raced' = (raced \/ dirty) /\ restoring' = FALSE
                ELSE UNCHANGED <<dirty, raced, restoring>>
      BY <1>3 DEF Refreshed
    <2> HIDE DEF loads, x
    <2> QED
      BY <2>1, <2>2, <2>3, <2>4 DEF Start
  <1> QED
    BY <1>2, <1>3

-----------------------------------------------------------------------------
LEMMA EditorInitially == EditorInit => EditorInv
  <1> SUFFICES ASSUME EditorInit PROVE EditorInv
    OBVIOUS
  <1>1. EditorTypes /\ text \in Texts /\ path # NoPath
    <2>1. 0 \in 0 .. MaxEdits
      BY EditorAssumption
    <2>2. disk \in [Workspaces -> [Paths -> Texts \cup {Absent}]]
      BY FixedTexts DEF EditorInit
    <2>3. text = [home |-> First, n |-> 0]
      BY EditorAssumption DEF EditorInit
    <2> QED
      BY <2>1, <2>2, <2>3, FixedTexts, EditorAssumption DEF EditorInit, EditorTypes
  <1>2. \A w \in Workspaces, p \in Paths : Kept(disk[w][p], w, written)
    BY FixedTexts DEF EditorInit
  <1>3. \A i \in Slots : calls[i] = Idle
    BY DEF EditorInit
  <1>4. CleanMeansSaved
    <2>1. text.n = 0
      BY EditorAssumption DEF EditorInit
    <2> QED
      BY <2>1 DEF CleanMeansSaved
  <1> QED
    BY <1>1, <1>2, <1>3, <1>4 DEF EditorInv

LEMMA EditorStep == EditorInv /\ [EditorNext]_editorVars => EditorInv'
  <1> SUFFICES ASSUME EditorInv, [EditorNext]_editorVars PROVE EditorInv'
    OBVIOUS
  <1>1. CASE UNCHANGED editorVars
    <2>1. UNCHANGED <<disk, current, path, text, dirty, leave, calls, edits, written, raced, outlived>>
      BY <1>1 DEF editorVars, shown
    <2> QED
      BY <2>1 DEF EditorInv, EditorTypes, CleanMeansSaved
  <1>2. CASE Type
    BY <1>2, TypeStep
  <1>3. CASE \/ CancelLeave
             \/ \E i \in Slots : SaveAndLeave(i) \/ \E w \in Workspaces : QueueLeave(i, w)
    BY <1>3, LeaveStep
  <1>4. ASSUME NEW i \in Slots, ServeChange(i) \/ ServeRefusedChange(i) \/ ServeRead(i) PROVE EditorInv'
    BY <1>4, ServeStep
  <1>5. ASSUME NEW i \in Slots, Answer(i) PROVE EditorInv'
    BY <1>5, ReplyStep, SaveAnswered, ChangeAnswered DEF Answer
  <1>6. ASSUME NEW i \in Slots,
               \/ \E p \in Paths : \/ LoadFile(i, p) \/ CreateFile(i, p) \/ CreateDirectory(i, p) \/ DeleteFile(i, p)
                                   \/ RestorePath(i, p) \/ \E q \in Paths : RenameFile(i, p, q)
               \/ RestoreWorkspace(i) \/ \E button \in BOOLEAN : SaveFile(i, button)
        PROVE EditorInv'
    BY <1>6, AskStep
  <1> QED
    BY <1>1, <1>2, <1>3, <1>4, <1>5, <1>6 DEF EditorNext

LEMMA EditorInvariant == EditorInit /\ [][EditorNext]_editorVars => []EditorInv
  BY EditorInitially, EditorStep, PTL

(* A text the editor shows as saved is one that reached its file, except     *)
(* when the last acknowledgement was about another text (saveFile).          *)
THEOREM CleanTextIsSaved == EditorInit /\ [][EditorNext]_editorVars => []CleanMeansSaved
  <1>1. EditorInv => CleanMeansSaved
    BY DEF EditorInv
  <1> QED
    BY <1>1, EditorInvariant, PTL

(* The panel leaves a workspace only with the text saved (queueLeaveAction,  *)
(* saveAndExecutePendingLeaveAction).                                        *)
LEMMA LeftClean ==
  ASSUME EditorInv, [EditorNext]_editorVars, Leaves
  PROVE  raced \/ outlived \/ text.n = 0 \/ text.n \in written
  <1>1. PICK i \in Slots : /\ calls'[i] # Idle /\ calls'[i].kind = "select"
                           /\ calls[i] = Idle \/ calls[i].kind # "select"
    BY DEF Leaves
  <1>2. CASE ~dirty
    <2>1. CASE path = NoPath
      BY <2>1, FixedTexts DEF EditorInv
    <2>2. CASE path # NoPath
      <3>1. text.n \in Nat
        BY <2>2, EditorAssumption DEF EditorInv, Texts
      <3> QED
        BY <1>2, <2>2, <3>1 DEF EditorInv, CleanMeansSaved
    <2> QED
      BY <2>1, <2>2
  <1>3. CASE path = NoPath
    BY <1>3, FixedTexts DEF EditorInv
  <1>4. CASE dirty /\ path # NoPath
    <2>a. DOMAIN calls = Slots
      BY DEF EditorInv, EditorTypes
    <2>c. calls[i] # Idle => calls[i] \in Calls
      BY DEF EditorInv, CallOK
    <2>0. ASSUME NEW j \in Slots, NEW x, calls' = [calls EXCEPT ![j] = x], x # Idle => x.kind # "select"
          PROVE  FALSE
      <3>1. i # j
        BY <1>1, <2>0, <2>a
      <3> QED
        BY <1>1, <2>0, <2>a, <3>1
    <2>1. ~ UNCHANGED calls
      BY <1>1
    <2>2. ~ (Type \/ CancelLeave \/ UNCHANGED editorVars)
      BY <2>1 DEF Type, CancelLeave, editorVars
    <2>3. ASSUME NEW j \in Slots, ServeChange(j) \/ ServeRefusedChange(j) \/ ServeRead(j) PROVE FALSE
      <3>1. PICK r, t : calls' = [calls EXCEPT ![j].reply = r, ![j].got = t]
        BY <2>3 DEF ServeChange, ServeRefusedChange, ServeRead, Reply
      <3>2. calls[j] # Idle
        BY <2>3 DEF ServeChange, ServeRefusedChange, ServeRead, Pending
      <3>3. calls[j] \in Calls
        BY <3>2 DEF EditorInv, CallOK
      <3>4. calls' = [calls EXCEPT ![j] = [calls[j] EXCEPT !.reply = r, !.got = t]]
        BY <3>1, <2>a
      <3>5. [calls[j] EXCEPT !.reply = r, !.got = t].kind = calls[j].kind
        BY <3>3 DEF Calls
      <3>6. i = j
        BY <1>1, <3>4, <2>a
      <3> QED
        BY <1>1, <3>2, <3>4, <3>5, <3>6, <2>a
    <2>n. ASSUME NEW kind \in Kinds, NEW pc \in {"get", "put", "change", "list"}, NEW p \in Paths \cup {NoPath},
                 NEW to \in Paths \cup {NoPath}, kind # "select"
          PROVE  Call(kind, pc, p, to).kind # "select"
      BY <2>n DEF Call
    <2>4. ASSUME NEW j \in Slots, NEW w \in Workspaces, QueueLeave(j, w) PROVE FALSE
      BY <1>4, <2>1, <2>4 DEF QueueLeave, HasUnsavedChanges
    <2>5. ASSUME NEW j \in Slots, SaveAndLeave(j) PROVE FALSE
      BY <1>4, <2>0, <2>5 DEF SaveAndLeave, Savable, Start, Call
    <2>6. ASSUME NEW j \in Slots, SaveFile(j, TRUE) \/ SaveFile(j, FALSE) \/ RestoreWorkspace(j) PROVE FALSE
      BY <2>0, <2>6 DEF SaveFile, RestoreWorkspace, Ask, Start, Call
    <2>7. ASSUME NEW j \in Slots, NEW p \in Paths,
                 \/ LoadFile(j, p) \/ CreateFile(j, p) \/ CreateDirectory(j, p) \/ DeleteFile(j, p)
                 \/ RestorePath(j, p) \/ \E q \in Paths : RenameFile(j, p, q)
          PROVE  FALSE
      BY <2>0, <2>7 DEF LoadFile, CreateFile, CreateDirectory, DeleteFile, RestorePath, RenameFile, Ask, Start, Call
    <2>8. ASSUME NEW j \in Slots, Finish(j) PROVE FALSE
      BY <2>0, <2>8 DEF Finish, Start
    <2>9. ASSUME NEW j \in Slots, Saved(j) \/ FileChanged(j) PROVE FALSE
      <3>1. calls' = [calls EXCEPT ![j] = [calls[j] EXCEPT !.pc = "list", !.reply = "none", !.got = Absent]]
        BY <2>9 DEF Saved, FileChanged, GoOn, Start
      <3>2. calls[j] # Idle /\ calls[j].kind # "select"
        BY <2>9 DEF Saved, FileChanged, Done, FileChanges, Restores
      <3>3. calls[j] \in Calls
        BY <3>2 DEF EditorInv, CallOK
      <3>4. [calls[j] EXCEPT !.pc = "list", !.reply = "none", !.got = Absent].kind = calls[j].kind
        BY <3>3, GoneOn
      <3> QED
        BY <2>0, <3>1, <3>2, <3>4
    <2>10. ASSUME NEW j \in Slots, Refreshed(j) PROVE FALSE
      <3>1. \/ Finish(j)
            \/ calls' = [calls EXCEPT ![j] = [calls[j] EXCEPT !.pc = "get", !.reply = "none",
                              !.path = IF calls[j].kind = "rename" THEN calls[j].to ELSE calls[j].path]]
        BY <2>10 DEF Refreshed, Start
      <3>2. calls[j] # Idle /\ calls[j].kind # "select"
        BY <2>10 DEF Refreshed, Listed, FileChanges, Restores
      <3>3. calls[j] \in Calls
        BY <3>2 DEF EditorInv, CallOK
      <3>4. ASSUME NEW p PROVE [calls[j] EXCEPT !.pc = "get", !.reply = "none", !.path = p].kind = calls[j].kind
        BY <3>3 DEF Calls
      <3> QED
        BY <2>0, <2>8, <3>1, <3>2, <3>4
    <2>11. ASSUME NEW j \in Slots, SaveDone(j) PROVE outlived
      <3>1. CASE Finish(j)
        BY <2>8, <3>1
      <3>2. CASE calls[j].kind = "leave"
        <4>1. calls[j] # Idle /\ calls[j].pc = "list"
          BY <2>11 DEF SaveDone, Listed
        <4>2. LeaveOK(calls[j], outlived, leave, dirty) /\ outlived \in BOOLEAN
          BY <4>1 DEF EditorInv, EditorTypes
        <4> QED
          BY <1>4, <3>2, <4>1, <4>2 DEF LeaveOK
      <3> QED
        BY <2>11, <3>1, <3>2 DEF SaveDone
    <2>12. ASSUME NEW j \in Slots, Answer(j) PROVE outlived
      BY <2>8, <2>9, <2>10, <2>11, <2>12
         DEF Answer, Loaded, LoadFailed, SaveFailed, RestoredUnread, ChangeFailed, Selected, NotSelected
    <2> QED
      BY <2>2, <2>3, <2>4, <2>5, <2>6, <2>7, <2>12 DEF EditorNext
  <1> QED
    BY <1>2, <1>3, <1>4

THEOREM LeavingKeepsEdits == EditorInit /\ [][EditorNext]_editorVars => LeaveKeepsEdits
  <1>1. EditorInv /\ [EditorNext]_editorVars =>
          [Leaves => raced \/ outlived \/ text.n = 0 \/ text.n \in written]_editorVars
    BY LeftClean
  <1> QED
    BY <1>1, EditorInvariant, PTL DEF LeaveKeepsEdits


-----------------------------------------------------------------------------
(***************************************************************************)
(* The vault.  While a rotation holds the lock, the files it has visited   *)
(* have the password it made and the others the one of the vault; what a   *)
(* request was served for is the master password, or the session is torn.  *)
(***************************************************************************)
LEMMA OneOp ==
  ASSUME ops \in [OpSlots -> Ops], NEW i \in OpSlots, NEW o \in Ops, ops' = [ops EXCEPT ![i] = o]
  PROVE  ops' \in [OpSlots -> Ops] /\ ops'[i] = o /\ \A j \in OpSlots \ {i} : ops'[j] = ops[j]
  OBVIOUS

LEMMA NoOpIsOp == NoOp \in Ops /\ NoOp.kind = "none" /\ NoOp.at = "idle"
  BY VaultAssumption DEF NoOp, Ops, Secrets

\* A request that is sent takes a slot no request has.
LEMMA SendTakesSlot ==
  ASSUME ops \in [OpSlots -> Ops], NEW o \in Ops, Send(o)
  PROVE  \E i \in OpSlots : ops[i].kind = "none" /\ ops' = [ops EXCEPT ![i] = o]
  <1> DEFINE i == CHOOSE j \in OpSlots : ops[j].kind = "none"
  <1>1. i \in OpSlots /\ ops[i].kind = "none"
    BY DEF Send
  <1>2. ops' = [ops EXCEPT ![i] = o]
    BY DEF Send
  <1> QED
    BY <1>1, <1>2

\* How far a request is, alone.
LEMMA GetsTo ==
  ASSUME VaultTypeOK, NEW i \in OpSlots, NEW at \in {"sent", "served", "denied"},
         ops' = [ops EXCEPT ![i].at = at]
  PROVE  /\ ops' = [ops EXCEPT ![i] = [ops[i] EXCEPT !.at = at]] /\ [ops[i] EXCEPT !.at = at] \in Ops
         /\ [ops[i] EXCEPT !.at = at].kind = ops[i].kind /\ [ops[i] EXCEPT !.at = at].typed = ops[i].typed
         /\ [ops[i] EXCEPT !.at = at].next = ops[i].next /\ [ops[i] EXCEPT !.at = at].made = ops[i].made
         /\ [ops[i] EXCEPT !.at = at].at = at
  BY DEF VaultTypeOK, Ops

LEMMA AskedOnce == VaultTypeOK /\ Asked => asks' \in 0 .. MaxAsks
  <1> SUFFICES ASSUME VaultTypeOK, Asked PROVE asks' \in 0 .. MaxAsks
    OBVIOUS
  <1>1. asks \in 0 .. MaxAsks /\ asks < MaxAsks /\ asks' = asks + 1 /\ MaxAsks \in Nat
    BY VaultAssumption DEF VaultTypeOK, Asked
  <1> QED
    BY <1>1

LEMMA VaultTypesAsked ==
  ASSUME VaultTypeOK,
         \/ \E mode \in CredentialKinds : OpenPrompt(mode)
         \/ CancelPrompt
         \/ \E mode \in ValueKinds : OpenVaultValueModal(mode)
         \/ CloseVaultValueModal
         \/ (\E f \in VFiles : OpenFile(f)) \/ TypeText \/ SaveText
  PROVE  VaultTypeOK'
  <1>1. asks' \in 0 .. MaxAsks
    BY AskedOnce
       DEF OpenPrompt, CancelPrompt, OpenVaultValueModal, CloseVaultValueModal, OpenFile, TypeText, SaveText, VaultTypeOK
  <1>2. UNCHANGED <<vault, keyPass, opened, kept, ops, holder, todo, remembered, torn, lastSecret>>
    BY DEF OpenPrompt, CancelPrompt, OpenVaultValueModal, CloseVaultValueModal, OpenFile, TypeText, SaveText
  <1>3. prompt' \in CredentialKinds \cup {"none"}
    BY DEF OpenPrompt, CancelPrompt, OpenVaultValueModal, CloseVaultValueModal, OpenFile, TypeText, SaveText, VaultTypeOK
  <1>4. modal' \in [mode : ValueKinds, loading : BOOLEAN] \cup {NoModal}
    <2>1. ASSUME NEW mode \in ValueKinds, OpenVaultValueModal(mode)
          PROVE  modal' \in [mode : ValueKinds, loading : BOOLEAN]
      BY <2>1 DEF OpenVaultValueModal
    <2>2. CloseVaultValueModal => modal' = NoModal
      BY DEF CloseVaultValueModal
    <2>3. UNCHANGED modal => modal' \in [mode : ValueKinds, loading : BOOLEAN] \cup {NoModal}
      BY DEF VaultTypeOK
    <2> QED
      BY <2>1, <2>2, <2>3 DEF OpenPrompt, CancelPrompt, OpenFile, TypeText, SaveText
  <1>5. files' \in [VFiles -> Secrets] /\ lost' \subseteq VFiles
        /\ editor' \in [file : VFiles, block : Secrets, dirty : BOOLEAN]
    <2>t. files \in [VFiles -> Secrets] /\ lost \subseteq VFiles /\ editor \in [file : VFiles, block : Secrets, dirty : BOOLEAN]
      BY DEF VaultTypeOK
    <2>1. ASSUME NEW f \in VFiles, OpenFile(f)
          PROVE  UNCHANGED <<files, lost>> /\ editor' \in [file : VFiles, block : Secrets, dirty : BOOLEAN]
      BY <2>1, <2>t DEF OpenFile
    <2>2. ASSUME TypeText
          PROVE  UNCHANGED <<files, lost>> /\ editor' \in [file : VFiles, block : Secrets, dirty : BOOLEAN]
      BY <2>2, <2>t DEF TypeText
    <2>3. ASSUME SaveText
          PROVE  files' \in [VFiles -> Secrets] /\ lost' \subseteq VFiles
                 /\ editor' \in [file : VFiles, block : Secrets, dirty : BOOLEAN]
      <3>1. files' = [files EXCEPT ![editor.file] = editor.block] /\ editor.block \in Secrets /\ editor.file \in VFiles
        BY <2>3, <2>t DEF SaveText
      <3>2. lost' \in {lost \ {editor.file}, lost \cup {editor.file}} /\ editor' = [editor EXCEPT !.dirty = FALSE]
        BY <2>3 DEF SaveText
      <3> QED
        BY <2>t, <3>1, <3>2
    <2> QED
      BY <2>t, <2>1, <2>2, <2>3 DEF OpenPrompt, CancelPrompt, OpenVaultValueModal, CloseVaultValueModal
  <1> QED
    BY <1>1, <1>2, <1>3, <1>4, <1>5 DEF VaultTypeOK

\* A request that is sent, with what it must be sent with.
SentAs(o) ==
  /\ Send(o) /\ o.at = "sent" /\ o.kind # "none"
  /\ o.kind \in CredentialKinds \cup ValueKinds => o.typed \in Masters
  /\ o.kind = "master" => o.next \in Masters

\* The actions that send a request.
Sends ==
  \/ \E m \in Masters, targets \in SUBSET VFiles, force \in BOOLEAN :
       SubmitPrompt(m, targets, force)
  \/ \E m \in Masters \cup {NoMaster}, n \in Masters : SubmitMasterChange(m, n)
  \/ \E m \in Masters :
       SubmitKeyPassphraseChange(m) \/ SubmitVaultValue(m) \/ SubmitKeygen(m)
  \/ \E m \in Masters, pass \in Secrets \ {0} : SubmitEntry(m, pass)

LEMMA VaultTypesSent ==
  ASSUME VaultTypeOK,
         Sends
  PROVE  /\ VaultTypeOK'
         /\ UNCHANGED <<vault, keyPass, opened, kept, files, holder, todo, lost, lastSecret>>
         /\ UNCHANGED <<remembered, torn>> \/ \E m \in Masters : Prompted(m)
         /\ \E i \in OpSlots, o \in Ops : ops[i].kind = "none" /\ ops' = [ops EXCEPT ![i] = o] /\ SentAs(o)
  <1>0. ops \in [OpSlots -> Ops]
    BY DEF VaultTypeOK
  <1> DEFINE Rest ==
               /\ Asked
               /\ UNCHANGED <<vault, keyPass, opened, kept, files, holder, todo, editor, lost, lastSecret>>
               /\ prompt' \in {prompt, "none"} /\ (modal' = modal \/ (modal # NoModal /\ modal' = [modal EXCEPT !.loading = TRUE]))
               /\ UNCHANGED <<remembered, torn>> \/ \E m \in Masters : Prompted(m)
  <1>a. Rest
    <2>1. ASSUME NEW m \in Masters, NEW targets \in SUBSET VFiles, NEW force \in BOOLEAN,
                 SubmitPrompt(m, targets, force)
          PROVE  Rest
      BY <2>1 DEF SubmitPrompt
    <2>2. ASSUME NEW m \in Masters \cup {NoMaster}, NEW n \in Masters, SubmitMasterChange(m, n) PROVE Rest
      BY <2>2 DEF SubmitMasterChange
    <2>3. ASSUME NEW m \in Masters, SubmitKeyPassphraseChange(m) PROVE Rest
      BY <2>3 DEF SubmitKeyPassphraseChange
    <2>4. ASSUME NEW m \in Masters, SubmitVaultValue(m) PROVE Rest
      BY <2>4 DEF SubmitVaultValue
    <2>5. ASSUME NEW m \in Masters, SubmitKeygen(m) PROVE Rest
      BY <2>5 DEF SubmitKeygen
    <2>6. ASSUME NEW m \in Masters, NEW pass \in Secrets, SubmitEntry(m, pass) PROVE Rest
      BY <2>6 DEF SubmitEntry
    <2> QED
      BY <2>1, <2>2, <2>3, <2>4, <2>5, <2>6 DEF Sends
  <1>t. asks' \in 0 .. MaxAsks
    BY <1>a, AskedOnce
  <1>m. prompt' \in CredentialKinds \cup {"none"} /\ modal' \in [mode : ValueKinds, loading : BOOLEAN] \cup {NoModal}
    <2>1. prompt' \in CredentialKinds \cup {"none"}
      BY <1>a DEF VaultTypeOK
    <2>2. CASE modal' = modal
      BY <2>1, <2>2 DEF VaultTypeOK
    <2>3. CASE modal # NoModal /\ modal' = [modal EXCEPT !.loading = TRUE]
      <3>1. modal \in [mode : ValueKinds, loading : BOOLEAN]
        BY <2>3 DEF VaultTypeOK
      <3>2. modal' \in [mode : ValueKinds, loading : BOOLEAN]
        BY <2>3, <3>1
      <3> QED
        BY <2>1, <3>2
    <2> QED
      BY <1>a, <2>2, <2>3
  <1>r. UNCHANGED <<remembered, torn>> \/ \E m \in Masters : Prompted(m)
    BY <1>a
  <1>s. remembered' \in Masters \cup {NoMaster} /\ torn' \subseteq {"session", "passphrase"}
    BY <1>r DEF Prompted, VaultTypeOK
  <1>1. PICK o \in Ops : SentAs(o)
    <2>1. ASSUME NEW m \in Masters, NEW targets \in SUBSET VFiles, NEW force \in BOOLEAN,
                 SubmitPrompt(m, targets, force)
          PROVE  \E o \in Ops : SentAs(o)
      <3> DEFINE o == [NoOp EXCEPT !.kind = prompt, !.at = "sent", !.typed = m, !.targets = targets, !.force = force]
      <3>1. o \in Ops /\ o.kind = prompt /\ o.at = "sent" /\ o.typed = m
        BY <2>1, NoOpIsOp DEF SubmitPrompt, VaultTypeOK, Ops
      <3>2. Send(o) /\ prompt \in CredentialKinds
        BY <2>1 DEF SubmitPrompt, VaultTypeOK
      <3> HIDE DEF o
      <3> QED
        BY <3>1, <3>2 DEF SentAs, CredentialKinds
    <2>2. ASSUME NEW m \in Masters \cup {NoMaster}, NEW n \in Masters, SubmitMasterChange(m, n)
          PROVE  \E o \in Ops : SentAs(o)
      <3> DEFINE o == [NoOp EXCEPT !.kind = "master", !.at = "sent", !.typed = m, !.next = n]
      <3>1. o \in Ops /\ o.kind = "master" /\ o.at = "sent" /\ o.next = n
        BY NoOpIsOp DEF Ops
      <3>2. Send(o)
        BY <2>2 DEF SubmitMasterChange
      <3> HIDE DEF o
      <3> QED
        BY <3>1, <3>2 DEF SentAs, CredentialKinds, ValueKinds
    <2>3. ASSUME NEW m \in Masters, SubmitKeyPassphraseChange(m)
          PROVE  \E o \in Ops : SentAs(o)
      <3> DEFINE o == [NoOp EXCEPT !.kind = "key", !.at = "sent", !.typed = m]
      <3>1. o \in Ops /\ o.kind = "key" /\ o.at = "sent"
        BY NoOpIsOp DEF Ops
      <3>2. Send(o)
        BY <2>3 DEF SubmitKeyPassphraseChange
      <3> HIDE DEF o
      <3> QED
        BY <3>1, <3>2 DEF SentAs, CredentialKinds, ValueKinds
    <2>4. ASSUME NEW m \in Masters, SubmitVaultValue(m)
          PROVE  \E o \in Ops : SentAs(o)
      <3> DEFINE made == IF modal.mode = "show" THEN editor.block ELSE 0
                 o == [NoOp EXCEPT !.kind = modal.mode, !.at = "sent", !.typed = m, !.made = made]
      <3>0. made \in Secrets
        BY VaultAssumption DEF VaultTypeOK, Secrets
      <3>1. modal.mode \in ValueKinds
        BY <2>4 DEF SubmitVaultValue, VaultTypeOK
      <3> HIDE DEF made
      <3>2. o \in Ops /\ o.kind = modal.mode /\ o.at = "sent" /\ o.typed = m
        BY <3>0, <3>1, NoOpIsOp DEF Ops
      <3>3. Send(o)
        BY <2>4 DEF SubmitVaultValue, made
      <3> HIDE DEF o
      <3> QED
        BY <3>1, <3>2, <3>3 DEF SentAs, ValueKinds
    <2>5. ASSUME NEW m \in Masters, NEW pass \in Secrets, SubmitEntry(m, pass)
          PROVE  \E o \in Ops : SentAs(o)
      <3> DEFINE o == [NoOp EXCEPT !.kind = "entry", !.at = "sent", !.typed = m, !.made = pass]
      <3>1. o \in Ops /\ o.kind = "entry" /\ o.at = "sent"
        BY NoOpIsOp DEF Ops
      <3>2. Send(o)
        BY <2>5 DEF SubmitEntry
      <3> HIDE DEF o
      <3> QED
        BY <3>1, <3>2 DEF SentAs, CredentialKinds, ValueKinds
    <2>6. ASSUME NEW m \in Masters, SubmitKeygen(m)
          PROVE  \E o \in Ops : SentAs(o)
      <3> DEFINE o == [NoOp EXCEPT !.kind = "keygen", !.at = "sent", !.typed = m]
      <3>1. o \in Ops /\ o.kind = "keygen" /\ o.at = "sent"
        BY NoOpIsOp DEF Ops
      <3>2. Send(o)
        BY <2>6 DEF SubmitKeygen
      <3> HIDE DEF o
      <3> QED
        BY <3>1, <3>2 DEF SentAs, CredentialKinds, ValueKinds
    <2> QED
      BY <2>1, <2>2, <2>3, <2>4, <2>5, <2>6 DEF Sends
  <1>2. PICK i \in OpSlots : ops[i].kind = "none" /\ ops' = [ops EXCEPT ![i] = o]
    BY <1>0, <1>1, SendTakesSlot DEF SentAs
  <1>3. ops' \in [OpSlots -> Ops]
    BY <1>0, <1>2, OneOp
  <1>4. VaultTypeOK'
    BY <1>a, <1>t, <1>m, <1>s, <1>3 DEF VaultTypeOK
  <1> QED
    BY <1>a, <1>r, <1>1, <1>2, <1>4

-----------------------------------------------------------------------------
\* What a request was made with; and, once it is served, for which master password.
OpOK(o) ==
  /\ o.kind \in CredentialKinds \cup ValueKinds => o.typed \in Masters
  /\ o.kind = "master" => o.next \in Masters
  /\ o.at # "idle" => o.kind # "none"
ServedFor(o, master) ==
  /\ o.kind \in CredentialKinds \cup ValueKinds => o.typed = master
  /\ o.kind = "master" => o.next = master

\* The request that holds the lock, and the vault it has opened.
HolderOK(o, now, open) ==
  /\ o.at = "sent" /\ o.kind \in {"vault-reset", "key", "keygen"}
  /\ o.kind \in {"vault-reset", "key"} => now \in {open, NoVault}
  /\ o.kind = "vault-reset" => o.typed = open.master

BlocksOpen ==
  \A f \in VFiles \ lost :
    IF Visited(f) THEN files[f] \in {0, ops[holder].made} ELSE files[f] \in {0, vault.key}
KeyOpens ==
  "passphrase" \notin torn /\ ~(holder # 0 /\ ops[holder].kind \in {"key", "keygen"}) => Fits(keyPass, vault.pass)

VaultInv ==
  /\ VaultTypeOK
  /\ \A i \in OpSlots : OpOK(ops[i])
  /\ holder # 0 => HolderOK(ops[holder], vault, opened)
  /\ BlocksOpen /\ KeyOpens
  /\ "session" \notin torn => \A i \in OpSlots : ops[i].at = "served" => ServedFor(ops[i], vault.master)
  /\ SessionOpensVault

\* What was served for no master password was served for any.
LEMMA ServedStill ==
  ASSUME VaultInv, "session" \notin torn, vault.master \in {vault.master', NoMaster},
         NEW j \in OpSlots, ops[j].at = "served"
  PROVE  ServedFor(ops[j], vault.master')
  <1>1. ServedFor(ops[j], vault.master) /\ OpOK(ops[j])
    BY DEF VaultInv
  <1> QED
    BY <1>1, VaultAssumption DEF ServedFor, OpOK

\* The same for what is remembered.
LEMMA SessionStill ==
  ASSUME VaultInv, vault.master \in {vault.master', NoMaster}, "session" \in torn => "session" \in torn',
         remembered' = remembered,
         \A j \in OpSlots : ops[j].kind = "master" /\ ops[j].at = "served" => ops'[j] = ops[j]
  PROVE  SessionOpensVault'
  <1>1. CASE remembered \in {NoMaster, vault.master} \/ "session" \in torn
    BY <1>1 DEF SessionOpensVault
  <1>2. ASSUME NEW j \in OpSlots, ops[j].kind = "master" /\ ops[j].at = "served" PROVE SessionOpensVault'
    BY <1>2 DEF SessionOpensVault
  <1> QED
    BY <1>1, <1>2 DEF VaultInv, SessionOpensVault

\* A request changes that does not hold the lock, and nothing else but what is
\* torn or remembered.
LEMMA RequestStep ==
  ASSUME VaultInv, VaultTypeOK', NEW i \in OpSlots, i # holder, NEW o \in Ops, ops' = [ops EXCEPT ![i] = o], OpOK(o),
         UNCHANGED <<vault, keyPass, opened, files, holder, todo, lost>>, torn \subseteq torn',
         remembered' \in {remembered, vault.master} \/ "session" \in torn',
         o.at = "served" => ServedFor(o, vault.master),
         ops[i].at = "served" /\ ops[i].kind = "master" => "session" \in torn'
  PROVE  VaultInv'
  <1>1. ops'[i] = o /\ \A j \in OpSlots \ {i} : ops'[j] = ops[j]
    BY OneOp DEF VaultInv, VaultTypeOK
  <1>2. \A j \in OpSlots : OpOK(ops'[j])
    BY <1>1 DEF VaultInv
  <1>3. holder # 0 => holder \in OpSlots \ {i}
    BY DEF VaultInv, VaultTypeOK
  <1>4. holder # 0 => ops'[holder] = ops[holder]
    BY <1>1, <1>3
  <1>5. holder' # 0 => HolderOK(ops'[holder'], vault', opened')
    BY <1>4 DEF VaultInv
  <1>6. BlocksOpen' /\ KeyOpens'
    BY <1>4 DEF VaultInv, BlocksOpen, KeyOpens, Visited
  <1>7. "session" \notin torn' => \A j \in OpSlots : ops'[j].at = "served" => ServedFor(ops'[j], vault.master')
    BY <1>1 DEF VaultInv
  <1>8. SessionOpensVault'
    <2>1. CASE remembered' = vault.master \/ "session" \in torn'
      BY <2>1 DEF SessionOpensVault
    <2>2. CASE remembered' = remembered /\ "session" \notin torn'
      <3>1. \A j \in OpSlots : ops[j].kind = "master" /\ ops[j].at = "served" => ops'[j] = ops[j]
        BY <1>1, <2>2
      <3> QED
        BY <2>2, <3>1, SessionStill
    <2> QED
      BY <2>1, <2>2
  <1> QED
    BY <1>2, <1>5, <1>6, <1>7, <1>8 DEF VaultInv

LEMMA VaultAskedStep ==
  ASSUME VaultInv,
         \/ \E mode \in CredentialKinds : OpenPrompt(mode)
         \/ CancelPrompt
         \/ \E mode \in ValueKinds : OpenVaultValueModal(mode)
         \/ CloseVaultValueModal
         \/ (\E f \in VFiles : OpenFile(f)) \/ TypeText \/ SaveText
  PROVE  VaultInv'
  <1>1. VaultTypeOK'
    BY VaultTypesAsked DEF VaultInv
  <1>2. UNCHANGED <<vault, keyPass, opened, ops, holder, todo, remembered, torn>>
    BY DEF OpenPrompt, CancelPrompt, OpenVaultValueModal, CloseVaultValueModal, OpenFile, TypeText, SaveText
  <1>3. CASE SaveText
    <2>1. /\ holder = 0 /\ files' = [files EXCEPT ![editor.file] = editor.block]
          /\ lost' = IF editor.block \in {0, vault.key} THEN lost \ {editor.file} ELSE lost \cup {editor.file}
      BY <1>3 DEF SaveText
    <2>2. \A f \in VFiles : files'[f] = IF f = editor.file THEN editor.block ELSE files[f]
      BY <2>1 DEF VaultInv, VaultTypeOK
    <2>3. BlocksOpen'
      BY <1>2, <2>1, <2>2 DEF VaultInv, BlocksOpen, Visited
    <2> QED
      BY <1>1, <1>2, <2>3 DEF VaultInv, KeyOpens, SessionOpensVault
  <1>4. CASE UNCHANGED <<files, lost>>
    BY <1>1, <1>2, <1>4 DEF VaultInv, BlocksOpen, KeyOpens, SessionOpensVault, Visited
  <1> QED
    BY <1>3, <1>4 DEF OpenPrompt, CancelPrompt, OpenVaultValueModal, CloseVaultValueModal, OpenFile, TypeText

LEMMA VaultSentStep ==
  ASSUME VaultInv, Sends
  PROVE  VaultInv'
  <1>1. /\ VaultTypeOK'
        /\ UNCHANGED <<vault, keyPass, opened, kept, files, holder, todo, lost, lastSecret>>
        /\ UNCHANGED <<remembered, torn>> \/ \E m \in Masters : Prompted(m)
        /\ \E i \in OpSlots, o \in Ops : ops[i].kind = "none" /\ ops' = [ops EXCEPT ![i] = o] /\ SentAs(o)
    BY VaultTypesSent DEF VaultInv
  <1>2. PICK i \in OpSlots, o \in Ops :
              /\ ops[i].kind = "none" /\ ops' = [ops EXCEPT ![i] = o]
              /\ o.at = "sent" /\ OpOK(o)
    BY <1>1 DEF OpOK, SentAs
  <1>3. i # holder
    BY <1>2, VaultAssumption DEF VaultInv, HolderOK
  <1>4. torn \subseteq torn' /\ (remembered' \in {remembered, vault.master} \/ "session" \in torn')
    BY <1>1 DEF Prompted
  <1> QED
    BY <1>1, <1>2, <1>3, <1>4, RequestStep

\* A password typed for a deployment, and a commit, touch no request.
LEMMA RememberStep ==
  ASSUME VaultInv, CommitKept \/ \E m \in Masters \cup {NoMaster} : PromptForDeployment(m)
  PROVE  VaultInv'
  <1>0. VaultTypeOK
    BY DEF VaultInv
  <1>1. UNCHANGED <<vault, keyPass, opened, files, ops, holder, todo, prompt, modal, editor, lost, lastSecret>>
    BY DEF CommitKept, PromptForDeployment
  <1>2. /\ remembered' \in Masters \cup {NoMaster} /\ torn' \subseteq {"session", "passphrase"} /\ torn \subseteq torn'
        /\ SessionOpensVault'
    <2>1. CASE CommitKept
      BY <1>0, <1>1, <2>1 DEF CommitKept, VaultTypeOK, VaultInv, SessionOpensVault
    <2>2. ASSUME NEW m \in Masters \cup {NoMaster}, PromptForDeployment(m)
          PROVE  /\ remembered' \in Masters \cup {NoMaster} /\ torn' \subseteq {"session", "passphrase"} /\ torn \subseteq torn'
                 /\ SessionOpensVault'
      BY <1>0, <1>1, <2>2 DEF PromptForDeployment, VaultTypeOK, SessionOpensVault
    <2> QED
      BY <2>1, <2>2
  <1>3. kept' \in [files : [VFiles -> Secrets], key : Secrets \cup {NoKey}]
    BY <1>0 DEF CommitKept, PromptForDeployment, VaultTypeOK
  <1>4. asks' \in 0 .. MaxAsks
    BY <1>0, AskedOnce DEF CommitKept, PromptForDeployment, VaultTypeOK
  <1>5. VaultTypeOK'
    BY <1>0, <1>1, <1>2, <1>3, <1>4 DEF VaultTypeOK
  <1>6. BlocksOpen' /\ KeyOpens'
    BY <1>1, <1>2 DEF VaultInv, BlocksOpen, KeyOpens, Visited
  <1> QED
    BY <1>1, <1>2, <1>5, <1>6 DEF VaultInv

\* A block or a key of an older commit opens, or is known not to.
LEMMA RestoreStep ==
  ASSUME VaultInv, (\E f \in VFiles : RestoreFile(f)) \/ RestoreKey \/ RestoreTree
  PROVE  VaultInv'
  <1>0. VaultTypeOK /\ kept.files \in [VFiles -> Secrets] /\ kept.key \in Secrets \cup {NoKey}
    BY DEF VaultInv, VaultTypeOK
  <1>1. /\ asks' \in 0 .. MaxAsks
        /\ UNCHANGED <<opened, kept, ops, holder, todo, remembered, prompt, modal, editor, lastSecret>>
    BY <1>0, AskedOnce DEF RestoreFile, RestoreKey, RestoreTree
  <1>2. ASSUME NEW f \in VFiles, RestoreFile(f) PROVE VaultInv'
    <2>1. /\ files' = [files EXCEPT ![f] = kept.files[f]] /\ UNCHANGED <<vault, keyPass, torn>>
          /\ lost' = IF kept.files[f] = 0 \/ (kept.files[f] = vault.key /\ ~Visited(f)) THEN lost \ {f} ELSE lost \cup {f}
      BY <1>2 DEF RestoreFile
    <2>2. /\ files' \in [VFiles -> Secrets] /\ lost' \subseteq VFiles
          /\ files'[f] = kept.files[f] /\ \A g \in VFiles \ {f} : files'[g] = files[g]
      BY <1>0, <2>1 DEF VaultTypeOK
    <2>3. VaultTypeOK'
      BY <1>0, <1>1, <2>1, <2>2 DEF VaultTypeOK
    <2>4. BlocksOpen'
      BY <1>1, <2>1, <2>2 DEF VaultInv, BlocksOpen, Visited
    <2> QED
      BY <1>1, <2>1, <2>3, <2>4 DEF VaultInv, KeyOpens, SessionOpensVault
  <1>3. CASE RestoreKey
    <2>1. /\ keyPass' = kept.key /\ UNCHANGED <<vault, files, lost>>
          /\ torn' = IF holder = 0 /\ Fits(kept.key, vault.pass) THEN torn \ {"passphrase"} ELSE torn \cup {"passphrase"}
      BY <1>3 DEF RestoreKey
    <2>2. torn' \subseteq {"session", "passphrase"} /\ ("session" \in torn' <=> "session" \in torn)
      BY <1>0, <2>1 DEF VaultTypeOK
    <2>3. VaultTypeOK'
      BY <1>0, <1>1, <2>1, <2>2 DEF VaultTypeOK
    <2>4. BlocksOpen' /\ KeyOpens'
      BY <1>1, <2>1 DEF VaultInv, BlocksOpen, KeyOpens, Visited
    <2> QED
      BY <1>1, <2>1, <2>2, <2>3, <2>4 DEF VaultInv, SessionOpensVault
  <1>4. CASE RestoreTree
    <2>1. /\ vault' = NoVault /\ files' = kept.files /\ keyPass' = kept.key /\ lost' = {f \in VFiles : kept.files[f] # 0}
          /\ torn' = {"session"} \cup (IF Fits(kept.key, 0) THEN {} ELSE {"passphrase"})
      BY <1>4 DEF RestoreTree
    <2>2. torn' \subseteq {"session", "passphrase"} /\ "session" \in torn' /\ ("passphrase" \notin torn' => Fits(kept.key, 0))
      BY <2>1
    <2>3. NoVault \in Vaults /\ NoVault.pass = 0
      BY VaultAssumption DEF NoVault, Vaults, Secrets
    <2>4. VaultTypeOK'
      BY <1>0, <1>1, <2>1, <2>2, <2>3 DEF VaultTypeOK
    <2>5. BlocksOpen' /\ KeyOpens'
      BY <2>1, <2>2, <2>3 DEF BlocksOpen, KeyOpens
    <2>6. holder' # 0 => HolderOK(ops'[holder'], vault', opened')
      BY <1>1, <2>1 DEF VaultInv, HolderOK
    <2> QED
      BY <1>1, <2>2, <2>4, <2>5, <2>6 DEF VaultInv, SessionOpensVault
  <1> QED
    BY <1>2, <1>3, <1>4

LEMMA VaultRequestStep ==
  ASSUME VaultInv, NEW i \in OpSlots, Refuse(i) \/ ServeValue(i) \/ LoseAnswer(i) \/ AnswerDenied(i)
  PROVE  VaultInv'
  <1>0. ops[i] \in Ops /\ OpOK(ops[i]) /\ VaultTypeOK
    BY DEF VaultInv, VaultTypeOK
  <1>h. i = holder => holder # 0 /\ HolderOK(ops[i], vault, opened)
    BY VaultAssumption DEF VaultInv
  <1>v. UNCHANGED <<vault, keyPass, opened, kept, files, holder, todo, lost, remembered, prompt, editor, lastSecret, asks>>
    BY DEF Refuse, ServeValue, LoseAnswer, AnswerDenied
  <1>1. CASE Refuse(i) \/ LoseAnswer(i)
    <2>1. /\ i # holder /\ ops' = [ops EXCEPT ![i].at = "denied"] /\ UNCHANGED modal
          /\ torn' = (IF ops[i].at = "served" /\ ops[i].kind = "master" THEN torn \cup {"session"} ELSE torn)
          /\ ops[i].at # "idle"
      BY <1>1, <1>h DEF Refuse, LoseAnswer, HolderOK
    <2> DEFINE o == [ops[i] EXCEPT !.at = "denied"]
    <2>2. /\ ops' = [ops EXCEPT ![i] = o] /\ o \in Ops /\ o.kind = ops[i].kind /\ o.typed = ops[i].typed
          /\ o.next = ops[i].next /\ o.at = "denied"
      BY <1>0, <2>1, GetsTo
    <2> HIDE DEF o
    <2>3. OpOK(o)
      BY <1>0, <2>1, <2>2 DEF OpOK
    <2>4. VaultTypeOK'
      <3>1. ops' \in [OpSlots -> Ops]
        BY <1>0, <2>2, OneOp DEF VaultTypeOK
      <3>2. torn' \subseteq {"session", "passphrase"}
        BY <1>0, <2>1 DEF VaultTypeOK
      <3>3. modal' = modal
        BY <2>1
      <3> HIDE DEF o
      <3> QED
        BY <1>0, <1>v, <3>1, <3>2, <3>3 DEF VaultTypeOK
    <2> QED
      BY <1>v, <2>1, <2>2, <2>3, <2>4, RequestStep
  <1>2. CASE ServeValue(i)
    <2> DEFINE o == [ops[i] EXCEPT !.at = "served", !.made = vault.key]
    <2>1. /\ ops' = [ops EXCEPT ![i].at = "served", ![i].made = vault.key] /\ UNCHANGED <<modal, torn>>
          /\ ops[i].kind \in ValueKinds /\ ops[i].typed = vault.master /\ ops[i].at = "sent"
      BY <1>2 DEF ServeValue, Opens
    <2>2. ops' = [ops EXCEPT ![i] = o]
      BY <2>1 DEF VaultInv, VaultTypeOK
    <2>3. o \in Ops /\ o.kind = ops[i].kind /\ o.typed = ops[i].typed /\ o.next = ops[i].next /\ o.at = "served"
      BY <1>0 DEF Ops, VaultTypeOK, Vaults
    <2> HIDE DEF o
    <2>4. OpOK(o) /\ ServedFor(o, vault.master)
      BY <1>0, <2>1, <2>3 DEF OpOK, ServedFor, ValueKinds
    <2>5. VaultTypeOK'
      <3>1. ops' \in [OpSlots -> Ops]
        BY <1>0, <2>2, <2>3, OneOp DEF VaultTypeOK
      <3> QED
        BY <1>0, <1>v, <2>1, <3>1 DEF VaultTypeOK
    <2>6. i # holder
      BY <1>h, <2>1 DEF HolderOK, ValueKinds
    <2> QED
      BY <1>v, <2>1, <2>2, <2>3, <2>4, <2>5, <2>6, RequestStep
  <1>3. CASE AnswerDenied(i)
    <2>1. /\ ops' = [ops EXCEPT ![i] = NoOp] /\ UNCHANGED torn /\ ops[i].at = "denied"
          /\ modal' = IF ops[i].kind \in ValueKinds
                      THEN [mode |-> ops[i].kind, loading |-> FALSE] ELSE modal
      BY <1>3 DEF AnswerDenied
    <2>2. NoOp \in Ops /\ OpOK(NoOp) /\ NoOp.at # "served"
      BY NoOpIsOp DEF OpOK, CredentialKinds, ValueKinds
    <2>3. modal' \in [mode : ValueKinds, loading : BOOLEAN] \cup {NoModal}
      BY <1>0, <2>1 DEF VaultTypeOK
    <2>4. VaultTypeOK'
      BY <1>0, <1>v, <2>1, <2>2, <2>3 DEF VaultTypeOK
    <2>5. i # holder
      BY <1>h, <2>1 DEF HolderOK
    <2> QED
      BY <1>v, <2>1, <2>2, <2>4, <2>5, RequestStep
  <1> QED
    BY <1>1, <1>2, <1>3

LEMMA AnswerServedStep ==
  ASSUME VaultInv, NEW i \in OpSlots, AnswerServed(i)
  PROVE  VaultInv'
  <1>0. ops[i] \in Ops /\ OpOK(ops[i]) /\ VaultTypeOK
    BY DEF VaultInv, VaultTypeOK
  <1>1. /\ ops' = [ops EXCEPT ![i] = NoOp] /\ remembered' = PasswordOf(ops[i]) /\ ops[i].at = "served"
        /\ torn' = IF remembered' = vault.master /\ \A j \in OpSlots \ {i} : ops[j].at # "served"
                   THEN torn \ {"session"} ELSE torn
        /\ UNCHANGED <<vault, keyPass, opened, kept, files, holder, todo, prompt, lost, lastSecret, asks>>
    BY DEF AnswerServed
  <1>2. ops' \in [OpSlots -> Ops] /\ ops'[i] = NoOp /\ \A j \in OpSlots \ {i} : ops'[j] = ops[j]
    BY <1>0, <1>1, OneOp, NoOpIsOp DEF VaultTypeOK
  <1>3. remembered' \in Masters \cup {NoMaster}
    BY <1>0, <1>1 DEF PasswordOf, VaultTypeOK, Ops
  <1>4. modal' \in [mode : ValueKinds, loading : BOOLEAN] \cup {NoModal}
    <2>1. \/ modal' = [mode |-> "show", loading |-> FALSE] \/ modal' = NoModal \/ modal' = modal
      BY DEF AnswerServed
    <2>2. [mode |-> "show", loading |-> FALSE] \in [mode : ValueKinds, loading : BOOLEAN]
      BY DEF ValueKinds
    <2>3. modal \in [mode : ValueKinds, loading : BOOLEAN] \cup {NoModal}
      BY <1>0 DEF VaultTypeOK
    <2> QED
      BY <2>1, <2>2, <2>3
  <1>5. editor' \in [file : VFiles, block : Secrets, dirty : BOOLEAN]
    <2>1. ops[i].made \in Secrets
      BY <1>0 DEF Ops
    <2>2. editor' \in {[editor EXCEPT !.block = ops[i].made, !.dirty = TRUE], editor}
      BY DEF AnswerServed
    <2> QED
      BY <1>0, <2>1, <2>2 DEF VaultTypeOK
  <1>6. VaultTypeOK'
    BY <1>0, <1>1, <1>2, <1>3, <1>4, <1>5 DEF VaultTypeOK
  <1>7. \A j \in OpSlots : OpOK(ops'[j])
    BY <1>2, NoOpIsOp DEF VaultInv, OpOK, CredentialKinds, ValueKinds
  <1>8. holder # 0 => holder \in OpSlots \ {i} /\ ops'[holder] = ops[holder]
    BY <1>1, <1>2 DEF VaultInv, VaultTypeOK, HolderOK
  <1>9. /\ holder' # 0 => HolderOK(ops'[holder'], vault', opened')
        /\ BlocksOpen' /\ KeyOpens'
    BY <1>1, <1>8 DEF VaultInv, BlocksOpen, KeyOpens, Visited
  <1>10. "session" \notin torn' => \A j \in OpSlots : ops'[j].at = "served" => ServedFor(ops'[j], vault.master')
    BY <1>1, <1>2, NoOpIsOp DEF VaultInv
  <1>11. SessionOpensVault'
    <2>1. CASE "session" \in torn'
      BY <2>1 DEF SessionOpensVault
    <2>2. CASE "session" \in torn /\ "session" \notin torn'
      BY <1>1, <2>2 DEF SessionOpensVault
    <2>3. CASE "session" \notin torn
      <3>1. ServedFor(ops[i], vault.master) /\ ops[i].kind # "none"
        BY <1>0, <1>1, <2>3 DEF VaultInv, OpOK
      <3>2. CASE ops[i].kind \in {"key", "keygen", "entry"}
        <4>1. remembered' = remembered
          BY <1>1, <3>2 DEF PasswordOf
        <4>2. \A j \in OpSlots : ops[j].kind = "master" => ops'[j] = ops[j]
          BY <1>2, <3>2
        <4> QED
          BY <1>1, <2>3, <4>1, <4>2 DEF VaultInv, SessionOpensVault
      <3>3. CASE ops[i].kind \notin {"key", "keygen", "entry"}
        <4>1. remembered' = vault.master
          BY <1>0, <1>1, <3>1, <3>3 DEF PasswordOf, ServedFor, Ops
        <4> QED
          BY <1>1, <4>1 DEF SessionOpensVault
      <3> QED
        BY <3>2, <3>3
    <2> QED
      BY <2>1, <2>2, <2>3
  <1> QED
    BY <1>6, <1>7, <1>9, <1>10, <1>11 DEF VaultInv

LEMMA NewSecret == VaultTypeOK /\ lastSecret < MaxSecrets => lastSecret + 1 \in Secrets
  <1> SUFFICES ASSUME VaultTypeOK, lastSecret < MaxSecrets PROVE lastSecret + 1 \in Secrets
    OBVIOUS
  <1>1. lastSecret \in 0 .. MaxSecrets /\ MaxSecrets \in Nat
    BY VaultAssumption DEF VaultTypeOK, Secrets
  <1> QED
    BY <1>1 DEF Secrets

LEMMA ServeGenerateStep ==
  ASSUME VaultInv, NEW i \in OpSlots, ServeGenerate(i)
  PROVE  VaultInv'
  <1>0. /\ ops[i] \in Ops /\ OpOK(ops[i]) /\ VaultTypeOK /\ holder = 0
        /\ ops[i].kind = "generate" /\ ops[i].at = "sent"
        /\ ops[i].typed = vault.master \/ vault.master = NoMaster
    BY DEF VaultInv, VaultTypeOK, ServeGenerate, At, Opens
  <1>1. ops[i].typed \in Masters
    BY <1>0 DEF OpOK, CredentialKinds
  <1>2. /\ lastSecret' = IF vault.key = 0 THEN lastSecret + 1 ELSE lastSecret
        /\ vault.key = 0 => lastSecret < MaxSecrets
        /\ vault' = [vault EXCEPT !.master = ops[i].typed, !.key = IF @ = 0 THEN lastSecret' ELSE @]
        /\ UNCHANGED <<keyPass, opened, kept, holder, todo, remembered, prompt, modal, editor, torn, asks>>
    BY DEF ServeGenerate
  <1>3. lastSecret' \in Secrets
    BY <1>0, <1>2, NewSecret DEF VaultTypeOK
  <1>4. /\ vault' \in Vaults
        /\ vault'.master = ops[i].typed /\ vault'.pass = vault.pass /\ (vault.key # 0 => vault'.key = vault.key)
    BY <1>0, <1>1, <1>2, <1>3 DEF VaultTypeOK, Vaults
  <1>5. PICK f \in ops[i].targets, writes \in BOOLEAN, fails \in BOOLEAN :
          /\ files' = IF writes THEN [files EXCEPT ![f] = vault'.key] ELSE files
          /\ lost' = IF writes THEN lost \ {f} ELSE lost
          /\ ops' = [ops EXCEPT ![i].targets = ops[i].targets \ {f},
                       ![i].at = IF fails THEN "denied"
                                 ELSE IF ops[i].targets \ {f} = {} THEN "served" ELSE @]
    <2>1. PICK f \in ops[i].targets, wrote \in BOOLEAN, fails \in BOOLEAN :
            LET writes == wrote /\ (files[f] = 0 \/ ops[i].force)
                left == ops[i].targets \ {f}
            IN  /\ files' = IF writes THEN [files EXCEPT ![f] = vault'.key] ELSE files
                /\ lost' = IF writes THEN lost \ {f} ELSE lost
                /\ ops' = [ops EXCEPT ![i].targets = left,
                             ![i].at = IF fails THEN "denied"
                                       ELSE IF left = {} THEN "served" ELSE @]
      BY DEF ServeGenerate
    <2> DEFINE writes == wrote /\ (files[f] = 0 \/ ops[i].force)
    <2>2. writes \in BOOLEAN
      OBVIOUS
    <2>3. /\ files' = IF writes THEN [files EXCEPT ![f] = vault'.key] ELSE files
          /\ lost' = IF writes THEN lost \ {f} ELSE lost
          /\ ops' = [ops EXCEPT ![i].targets = ops[i].targets \ {f},
                       ![i].at = IF fails THEN "denied"
                                 ELSE IF ops[i].targets \ {f} = {} THEN "served" ELSE @]
      BY <2>1
    <2> HIDE DEF writes
    <2> QED
      BY <2>2, <2>3
  <1> DEFINE at == IF fails THEN "denied" ELSE IF ops[i].targets \ {f} = {} THEN "served" ELSE ops[i].at
             o == [ops[i] EXCEPT !.targets = ops[i].targets \ {f}, !.at = at]
  <1>6. at \in {"sent", "served", "denied"} /\ f \in VFiles /\ ops[i].targets \ {f} \subseteq VFiles
    BY <1>0, <1>5 DEF Ops
  <1>7. ops' = [ops EXCEPT ![i] = o]
    BY <1>0, <1>5 DEF VaultTypeOK
  <1> HIDE DEF at
  <1>8. o \in Ops /\ o.kind = "generate" /\ o.typed = ops[i].typed /\ o.at \in {"sent", "served", "denied"}
    BY <1>0, <1>6 DEF Ops
  <1> HIDE DEF o
  <1>9. ops' \in [OpSlots -> Ops] /\ ops'[i] = o /\ \A j \in OpSlots \ {i} : ops'[j] = ops[j]
    BY <1>0, <1>7, <1>8, OneOp DEF VaultTypeOK
  <1>10. files' \in [VFiles -> Secrets] /\ lost' \subseteq VFiles
         /\ \A g \in VFiles \ lost' : files'[g] = vault'.key \/ (files'[g] = files[g] /\ g \notin lost)
    <2>1. files \in [VFiles -> Secrets] /\ lost \subseteq VFiles /\ vault'.key \in Secrets
      BY <1>0, <1>4 DEF VaultTypeOK, Vaults
    <2> QED
      BY <1>5, <1>6, <2>1
  <1>11. VaultTypeOK'
    BY <1>0, <1>2, <1>3, <1>4, <1>9, <1>10 DEF VaultTypeOK
  <1>12. \A j \in OpSlots : OpOK(ops'[j])
    BY <1>1, <1>8, <1>9 DEF VaultInv, OpOK
  <1>13. BlocksOpen' /\ KeyOpens'
    <2>1. \A g \in VFiles \ lost : files[g] \in {0, vault.key}
      BY <1>0 DEF VaultInv, BlocksOpen, Visited
    <2>2. \A g \in VFiles \ lost' : files'[g] \in {0, vault'.key}
      BY <1>4, <1>10, <2>1
    <2>3. "passphrase" \notin torn' => Fits(keyPass', vault'.pass)
      BY <1>0, <1>2, <1>4 DEF VaultInv, KeyOpens
    <2>4. holder' = 0
      BY <1>0, <1>2
    <2> QED
      BY <2>2, <2>3, <2>4 DEF BlocksOpen, KeyOpens, Visited
  <1>14. CASE "session" \in torn
    BY <1>0, <1>2, <1>11, <1>12, <1>13, <1>14 DEF VaultInv, SessionOpensVault
  <1>15. CASE "session" \notin torn
    <2>1. vault.master \in {vault.master', NoMaster}
      BY <1>0, <1>4
    <2>2. \A j \in OpSlots \ {i} : ops[j].at = "served" => ServedFor(ops[j], vault'.master)
      BY <1>15, <2>1, ServedStill
    <2>3. \A j \in OpSlots : ops'[j].at = "served" => ServedFor(ops'[j], vault'.master)
      BY <1>4, <1>8, <1>9, <2>2 DEF ServedFor
    <2>4. SessionOpensVault'
      BY <1>0, <1>2, <1>9, <1>15, <2>1, SessionStill
    <2> QED
      BY <1>0, <1>2, <1>11, <1>12, <1>13, <2>3, <2>4 DEF VaultInv
  <1> QED
    BY <1>14, <1>15

LEMMA ServeMasterChangeStep ==
  ASSUME VaultInv, NEW i \in OpSlots, ServeMasterChange(i)
  PROVE  VaultInv'
  <1>0. /\ ops[i] \in Ops /\ OpOK(ops[i]) /\ VaultTypeOK /\ holder = 0
        /\ ops[i].kind = "master" /\ ops[i].at = "sent" /\ ops[i].next \in Masters
    BY DEF VaultInv, VaultTypeOK, ServeMasterChange, At, OpOK
  <1>1. PICK at \in {"served", "denied"} :
          /\ ops' = [ops EXCEPT ![i].at = at]
          /\ torn' = IF at = "denied" \/ \E j \in OpSlots \ {i} : ops[j].at = "served"
                     THEN torn \cup {"session"} ELSE torn
    BY DEF ServeMasterChange
  <1>2. /\ vault' = [vault EXCEPT !.master = ops[i].next]
        /\ UNCHANGED <<keyPass, opened, kept, files, holder, todo, remembered, prompt, modal, editor, lost, lastSecret, asks>>
    BY DEF ServeMasterChange
  <1>3. /\ vault' \in Vaults
        /\ vault'.master = ops[i].next /\ vault'.pass = vault.pass /\ vault'.key = vault.key
    BY <1>0, <1>2 DEF VaultTypeOK, Vaults
  <1> DEFINE o == [ops[i] EXCEPT !.at = at]
  <1>4. /\ ops' = [ops EXCEPT ![i] = o] /\ o \in Ops /\ o.kind = "master" /\ o.next = ops[i].next /\ o.at = at
    BY <1>0, <1>1, GetsTo
  <1> HIDE DEF o
  <1>5. ops' \in [OpSlots -> Ops] /\ ops'[i] = o /\ \A j \in OpSlots \ {i} : ops'[j] = ops[j]
    BY <1>0, <1>4, OneOp DEF VaultTypeOK
  <1>6. torn' \subseteq {"session", "passphrase"} /\ ("passphrase" \in torn' <=> "passphrase" \in torn)
    BY <1>0, <1>1 DEF VaultTypeOK
  <1>7. VaultTypeOK'
    BY <1>0, <1>2, <1>3, <1>5, <1>6 DEF VaultTypeOK
  <1>8. \A j \in OpSlots : OpOK(ops'[j])
    BY <1>0, <1>4, <1>5 DEF VaultInv, OpOK, CredentialKinds, ValueKinds
  <1>9. BlocksOpen' /\ KeyOpens'
    BY <1>0, <1>2, <1>3, <1>6 DEF VaultInv, BlocksOpen, KeyOpens, Visited
  <1>10. "session" \notin torn' => at = "served" /\ \A j \in OpSlots \ {i} : ops[j].at # "served"
    BY <1>1
  <1>11. "session" \notin torn' => \A j \in OpSlots : ops'[j].at = "served" => ServedFor(ops'[j], vault'.master)
    BY <1>3, <1>4, <1>5, <1>10 DEF ServedFor, CredentialKinds, ValueKinds
  <1>12. SessionOpensVault'
    BY <1>4, <1>5, <1>10 DEF SessionOpensVault
  <1> QED
    BY <1>0, <1>2, <1>7, <1>8, <1>9, <1>11, <1>12 DEF VaultInv

\* A step of the request that holds the lock, takes it, or does all of its work
\* at one go: only it goes on, and no master password changes to another one.
LEMMA LockStep ==
  ASSUME VaultInv, VaultTypeOK', NEW i \in OpSlots, NEW o \in Ops, ops' = [ops EXCEPT ![i] = o],
         o.kind = ops[i].kind, ops[i].kind \in {"vault-reset", "key", "keygen", "entry"}, o.typed = ops[i].typed,
         o.at \in {"sent", "served", "denied"},
         o.kind = "vault-reset" /\ o.at = "served" => o.typed = vault'.master,
         ops[i].at = "sent",
         vault.master \in {vault'.master, NoMaster}, remembered' = remembered, "session" \in torn => "session" \in torn',
         holder' \in {0, i}, holder' = i => HolderOK(o, vault', opened'), BlocksOpen', KeyOpens'
  PROVE  VaultInv'
  <1>1. ops'[i] = o /\ \A j \in OpSlots \ {i} : ops'[j] = ops[j]
    BY OneOp DEF VaultInv, VaultTypeOK
  <1>2. \A j \in OpSlots : OpOK(ops'[j])
    BY <1>1 DEF VaultInv, OpOK
  <1>3. holder' # 0 => HolderOK(ops'[holder'], vault', opened')
    BY <1>1
  <1>4. o.at = "served" => ServedFor(o, vault'.master)
    BY DEF ServedFor, CredentialKinds, ValueKinds
  <1>5. "session" \notin torn' => \A j \in OpSlots \ {i} : ops[j].at = "served" => ServedFor(ops[j], vault'.master)
    BY ServedStill
  <1>6. "session" \notin torn' => \A j \in OpSlots : ops'[j].at = "served" => ServedFor(ops'[j], vault.master')
    BY <1>1, <1>4, <1>5
  <1>7. SessionOpensVault'
    BY <1>1, SessionStill
  <1> QED
    BY <1>2, <1>3, <1>6, <1>7 DEF VaultInv

LEMMA RotationStep ==
  ASSUME VaultInv, NEW i \in OpSlots,
         \/ StartReset(i) \/ (\E f \in VFiles : RotateFile(i, f))
         \/ AbortReset(i) \/ FinishReset(i)
  PROVE  VaultInv'
  <1>0. ops[i] \in Ops /\ VaultTypeOK /\ ops \in [OpSlots -> Ops] /\ i # 0
    BY VaultAssumption DEF VaultInv, VaultTypeOK
  <1>k. ops[i].kind = "vault-reset"
    BY DEF StartReset, RotateFile, AbortReset, FinishReset, At, Rotating
  <1>p. UNCHANGED <<keyPass, kept, remembered, prompt, modal, editor, torn, asks>>
    BY DEF StartReset, RotateFile, AbortReset, FinishReset
  <1>q. "passphrase" \notin torn => Fits(keyPass, vault.pass)
    BY <1>0, <1>k DEF VaultInv, KeyOpens, StartReset, RotateFile, AbortReset, FinishReset, At, Rotating
  <1>1. CASE StartReset(i)
    <2> DEFINE o == [ops[i] EXCEPT !.made = lastSecret + 1]
    <2>1. /\ holder = 0 /\ ops[i].at = "sent" /\ ops[i].typed = vault.master /\ lastSecret < MaxSecrets
          /\ lastSecret' = lastSecret + 1 /\ ops' = [ops EXCEPT ![i].made = lastSecret + 1]
          /\ holder' = i /\ opened' = vault /\ todo' = VFiles /\ UNCHANGED <<vault, files, lost>>
      BY <1>1 DEF StartReset, At, Opens
    <2>2. lastSecret + 1 \in Secrets
      BY <1>0, <2>1, NewSecret
    <2>3. ops' = [ops EXCEPT ![i] = o]
      BY <1>0, <2>1
    <2>4. o \in Ops /\ o.kind = "vault-reset" /\ o.at = "sent" /\ o.typed = vault.master
      BY <1>0, <1>k, <2>1, <2>2 DEF Ops
    <2> HIDE DEF o
    <2>5. ops' \in [OpSlots -> Ops] /\ ops'[i] = o
      BY <1>0, <2>3, <2>4, OneOp
    <2>6. VaultTypeOK'
      BY <1>0, <1>p, <2>1, <2>2, <2>5 DEF VaultTypeOK
    <2>7. BlocksOpen' /\ KeyOpens'
      BY <1>p, <1>q, <2>1, <2>4, <2>5 DEF VaultInv, BlocksOpen, KeyOpens, Visited
    <2>8. HolderOK(o, vault', opened')
      BY <2>1, <2>4 DEF HolderOK
    <2> QED
      BY <1>k, <1>p, <2>1, <2>3, <2>4, <2>6, <2>7, <2>8, LockStep
  <1>2. ASSUME NEW f \in VFiles, RotateFile(i, f) PROVE VaultInv'
    <2>1. /\ holder = i /\ f \in todo /\ files[f] \in {0, opened.key} /\ todo' = todo \ {f}
          /\ files' = IF files[f] = 0 THEN files ELSE [files EXCEPT ![f] = ops[i].made]
          /\ UNCHANGED <<vault, opened, ops, holder, lost, lastSecret>>
      BY <1>2 DEF RotateFile, Rotating
    <2>2. ops[i].made \in Secrets /\ files \in [VFiles -> Secrets]
      BY <1>0 DEF Ops, VaultTypeOK
    <2>3. files' \in [VFiles -> Secrets] /\ \A g \in VFiles : g # f => files'[g] = files[g]
      BY <2>1, <2>2
    <2>4. files'[f] \in {0, ops[i].made}
      BY <2>1, <2>2
    <2>5. VaultTypeOK'
      BY <1>0, <1>p, <2>1, <2>3 DEF VaultTypeOK
    <2>6. \A g \in VFiles \ lost : IF g \notin todo THEN files[g] \in {0, ops[i].made} ELSE files[g] \in {0, vault.key}
      BY <1>0, <1>k, <2>1 DEF VaultInv, BlocksOpen, Visited
    <2>7. BlocksOpen'
      BY <1>0, <1>k, <2>1, <2>3, <2>4, <2>6 DEF BlocksOpen, Visited
    <2>8. KeyOpens'
      BY <1>p, <1>q, <2>1 DEF KeyOpens
    <2> QED
      BY <1>p, <2>1, <2>5, <2>7, <2>8 DEF VaultInv, SessionOpensVault
  <1>3. CASE AbortReset(i) \/ FinishReset(i)
    <2>1. PICK at \in {"served", "denied"} : ops' = [ops EXCEPT ![i].at = at] /\ (at = "served" => FinishReset(i))
      BY <1>3 DEF AbortReset, FinishReset
    <2>2. holder = i /\ holder' = 0 /\ opened' = NoVault /\ UNCHANGED <<files, lastSecret>> /\ todo' \subseteq todo
      BY <1>3 DEF AbortReset, FinishReset, Rotating, Release
    <2>3. HolderOK(ops[i], vault, opened)
      BY <1>0, <2>2 DEF VaultInv
    <2> DEFINE o == [ops[i] EXCEPT !.at = at]
    <2>4. /\ ops' = [ops EXCEPT ![i] = o] /\ o \in Ops /\ o.kind = ops[i].kind /\ o.typed = ops[i].typed /\ o.at = at
      BY <1>0, <2>1, GetsTo
    <2> HIDE DEF o
    <2>5. ops' \in [OpSlots -> Ops]
      BY <1>0, <2>4, OneOp
    <2>6. \A g \in VFiles \ lost : IF g \notin todo THEN files[g] \in {0, ops[i].made} ELSE files[g] \in {0, vault.key}
      BY <1>0, <1>k, <2>2 DEF VaultInv, BlocksOpen, Visited
    <2>n. NoVault.master = NoMaster /\ NoVault.key = 0 /\ NoVault.pass = 0 /\ NoVault \in Vaults
      BY VaultAssumption DEF NoVault, Vaults, Secrets
    <2>7. /\ vault' \in Vaults /\ vault.master \in {vault'.master, NoMaster}
          /\ FinishReset(i) => vault'.master = ops[i].typed
          /\ "passphrase" \notin torn => Fits(keyPass, vault'.pass)
          /\ lost' \subseteq VFiles /\ \A g \in VFiles \ lost' : files[g] \in {0, vault'.key}
      <3>1. CASE AbortReset(i) /\ ~FinishReset(i)
        <4>1. lost' = lost \cup {g \in VFiles : files[g] = ops[i].made} /\ vault' = vault
          BY <3>1 DEF AbortReset
        <4> QED
          BY <1>0, <1>q, <2>6, <3>1, <4>1 DEF VaultTypeOK
      <3>2. CASE FinishReset(i)
        <4>1. todo = {} /\ vault' = [opened EXCEPT !.key = ops[i].made] /\ lost' = lost
          BY <3>2 DEF FinishReset
        <4>2. ops[i].made \in Secrets /\ opened \in Vaults
          BY <1>0 DEF Ops, VaultTypeOK
        <4>3. vault' \in Vaults /\ vault'.master = opened.master /\ vault'.pass = opened.pass /\ vault'.key = ops[i].made
          BY <4>1, <4>2 DEF Vaults
        <4>4. vault \in {opened, NoVault} /\ ops[i].typed = opened.master
          BY <1>k, <2>3 DEF HolderOK
        <4>5. "passphrase" \notin torn => Fits(keyPass, vault'.pass)
          BY <1>q, <2>n, <4>3, <4>4 DEF Fits
        <4>6. lost' \subseteq VFiles /\ \A g \in VFiles \ lost' : files[g] \in {0, vault'.key}
          BY <1>0, <2>6, <4>1, <4>3 DEF VaultTypeOK
        <4> QED
          BY <2>n, <4>3, <4>4, <4>5, <4>6
      <3> QED
        BY <1>3, <3>1, <3>2
    <2>8. VaultTypeOK'
      BY <1>0, <1>p, <2>2, <2>5, <2>7, <2>n DEF VaultTypeOK
    <2>9. BlocksOpen' /\ KeyOpens'
      BY <1>p, <2>2, <2>7 DEF BlocksOpen, KeyOpens, Visited
    <2>10. o.at = "served" => o.typed = vault'.master
      BY <2>1, <2>4, <2>7
    <2>11. ops[i].at = "sent"
      BY <2>3 DEF HolderOK
    <2> QED
      BY <1>0, <1>k, <1>p, <2>2, <2>4, <2>7, <2>8, <2>9, <2>10, <2>11, LockStep
  <1> QED
    BY <1>1, <1>2, <1>3

LEMMA StartKeyStep ==
  ASSUME VaultInv, NEW i \in OpSlots, StartKeyPassphrase(i) \/ StartKeygen(i)
  PROVE  VaultInv'
  <1>0. ops[i] \in Ops /\ VaultTypeOK /\ ops \in [OpSlots -> Ops] /\ i # 0
    BY VaultAssumption DEF VaultInv, VaultTypeOK
  <1> DEFINE o == [ops[i] EXCEPT !.made = lastSecret + 1]
  <1>1. /\ holder = 0 /\ ops[i].at = "sent" /\ ops[i].kind \in {"key", "keygen"} /\ lastSecret < MaxSecrets
        /\ lastSecret' = lastSecret + 1 /\ keyPass' = lastSecret + 1 /\ holder' = i
        /\ ops' = [ops EXCEPT ![i].made = lastSecret + 1]
        /\ (ops[i].kind = "key" => opened' = vault) /\ opened' \in {opened, vault}
        /\ UNCHANGED <<vault, kept, files, todo, remembered, prompt, modal, editor, lost, torn, asks>>
    BY DEF StartKeyPassphrase, StartKeygen, At
  <1>2. lastSecret + 1 \in Secrets
    BY <1>0, <1>1, NewSecret
  <1>3. ops' = [ops EXCEPT ![i] = o]
    BY <1>0, <1>1
  <1>4. o \in Ops /\ o.kind = ops[i].kind /\ o.at = "sent" /\ o.typed = ops[i].typed
    BY <1>0, <1>1, <1>2 DEF Ops
  <1> HIDE DEF o
  <1>5. ops' \in [OpSlots -> Ops] /\ ops'[i] = o
    BY <1>0, <1>3, <1>4, OneOp
  <1>6. VaultTypeOK'
    BY <1>0, <1>1, <1>2, <1>5 DEF VaultTypeOK
  <1>7. BlocksOpen' /\ KeyOpens'
    BY <1>0, <1>1, <1>4, <1>5 DEF VaultInv, BlocksOpen, KeyOpens, Visited
  <1>8. HolderOK(o, vault', opened')
    BY <1>1, <1>4 DEF HolderOK
  <1> QED
    BY <1>1, <1>3, <1>4, <1>6, <1>7, <1>8, LockStep

\* The passphrase of the vault and the one of the key change together, or what
\* is torn says so.
LEMMA EndKeyStep ==
  ASSUME VaultInv, NEW i \in OpSlots,
         \/ \E saved \in BOOLEAN : FinishKeyPassphrase(i, saved) \/ FinishKeygen(i, saved)
         \/ KeygenFails(i) \/ ServeEntry(i)
  PROVE  VaultInv'
  <1>0. ops[i] \in Ops /\ VaultTypeOK /\ ops \in [OpSlots -> Ops] /\ i # 0
    BY VaultAssumption DEF VaultInv, VaultTypeOK
  <1>n. NoVault.master = NoMaster /\ NoVault.key = 0 /\ NoVault.pass = 0 /\ NoVault \in Vaults
    BY VaultAssumption DEF NoVault, Vaults, Secrets
  <1>s. ops[i].made \in Secrets /\ ops[i].typed \in Masters \cup {NoMaster} /\ vault \in Vaults /\ opened \in Vaults
    BY <1>0 DEF Ops, VaultTypeOK
  <1>1. PICK at \in {"served", "denied"} : ops' = [ops EXCEPT ![i].at = at]
    BY DEF FinishKeyPassphrase, FinishKeygen, KeygenFails, ServeEntry
  <1>2. /\ holder \in {0, i} /\ holder' = 0 /\ opened' \in {opened, NoVault}
        /\ ops[i].kind \in {"key", "keygen", "entry"}
        /\ UNCHANGED <<kept, files, todo, remembered, prompt, modal, editor, lost, lastSecret, asks>>
    BY DEF FinishKeyPassphrase, FinishKeygen, KeygenFails, ServeEntry, At, Release
  <1>3. ops[i].at = "sent" /\ (holder = i => HolderOK(ops[i], vault, opened))
    BY <1>0 DEF VaultInv, HolderOK, FinishKeyPassphrase, FinishKeygen, KeygenFails, ServeEntry, At
  <1> DEFINE o == [ops[i] EXCEPT !.at = at]
  <1>4. /\ ops' = [ops EXCEPT ![i] = o] /\ o \in Ops /\ o.kind = ops[i].kind /\ o.typed = ops[i].typed /\ o.at = at
    BY <1>0, <1>1, GetsTo
  <1> HIDE DEF o
  <1>5. ops' \in [OpSlots -> Ops]
    BY <1>0, <1>4, OneOp
  <1> DEFINE PassOK ==
               /\ vault' \in Vaults /\ vault.master \in {vault'.master, NoMaster} /\ vault.key \in {0, vault'.key}
               /\ keyPass' \in Secrets \cup {NoKey} /\ torn' \in {torn \ {"passphrase"}, torn \cup {"passphrase"}}
               /\ "passphrase" \notin torn' => Fits(keyPass', vault'.pass)
  <1>6. PassOK
    <2>1. ASSUME NEW saved \in BOOLEAN, FinishKeyPassphrase(i, saved)
          PROVE  PassOK
      <3>1. /\ holder = i /\ ops[i].kind = "key" /\ keyPass' = keyPass
            /\ vault' = IF saved THEN [opened EXCEPT !.pass = ops[i].made] ELSE vault
            /\ torn' = IF saved /\ keyPass = ops[i].made THEN torn \ {"passphrase"} ELSE torn \cup {"passphrase"}
        BY <2>1 DEF FinishKeyPassphrase
      <3>2. vault \in {opened, NoVault}
        BY <1>3, <3>1 DEF HolderOK
      <3>3. CASE saved
        <4>1. vault' \in Vaults /\ vault'.master = opened.master /\ vault'.key = opened.key /\ vault'.pass = ops[i].made
          BY <1>s, <3>1, <3>3 DEF Vaults
        <4> QED
          BY <1>0, <1>n, <3>1, <3>2, <4>1 DEF VaultTypeOK, Fits
      <3>4. CASE ~saved
        BY <1>0, <1>s, <3>1, <3>4 DEF VaultTypeOK
      <3> QED
        BY <3>3, <3>4
    <2>2. ASSUME NEW saved \in BOOLEAN, FinishKeygen(i, saved)
          PROVE  PassOK
      <3>1. /\ keyPass' = keyPass /\ (saved => ops[i].typed = vault.master \/ vault.master = NoMaster)
            /\ vault' = IF saved THEN [vault EXCEPT !.master = ops[i].typed, !.pass = ops[i].made] ELSE vault
            /\ torn' = IF saved /\ keyPass = ops[i].made THEN torn \ {"passphrase"} ELSE torn \cup {"passphrase"}
        BY <2>2 DEF FinishKeygen, Opens
      <3>2. CASE saved
        <4>1. vault' \in Vaults /\ vault'.master = ops[i].typed /\ vault'.key = vault.key /\ vault'.pass = ops[i].made
          BY <1>s, <3>1, <3>2 DEF Vaults
        <4> QED
          BY <1>0, <3>1, <3>2, <4>1 DEF VaultTypeOK, Fits
      <3>3. CASE ~saved
        BY <1>0, <1>s, <3>1, <3>3 DEF VaultTypeOK
      <3> QED
        BY <3>2, <3>3
    <2>3. CASE KeygenFails(i)
      BY <1>0, <1>s, <2>3 DEF KeygenFails, VaultTypeOK, Fits
    <2>4. CASE ServeEntry(i)
      <3>1. /\ keyPass' = keyPass /\ (ops[i].typed = vault.master \/ vault.master = NoMaster)
            /\ vault' = [vault EXCEPT !.master = ops[i].typed, !.pass = ops[i].made]
            /\ torn' = IF Fits(keyPass, ops[i].made) THEN torn \ {"passphrase"} ELSE torn \cup {"passphrase"}
        BY <2>4 DEF ServeEntry, Opens
      <3>2. vault' \in Vaults /\ vault'.master = ops[i].typed /\ vault'.key = vault.key /\ vault'.pass = ops[i].made
        BY <1>s, <3>1 DEF Vaults
      <3> QED
        BY <1>0, <3>1, <3>2 DEF VaultTypeOK
    <2> QED
      BY <2>1, <2>2, <2>3, <2>4
  <1>7. torn' \subseteq {"session", "passphrase"} /\ ("session" \in torn => "session" \in torn')
    BY <1>0, <1>6 DEF VaultTypeOK
  <1>8. VaultTypeOK'
    BY <1>0, <1>2, <1>5, <1>6, <1>7, <1>n DEF VaultTypeOK
  <1>9. BlocksOpen' /\ KeyOpens'
    <2>1. \A g \in VFiles \ lost : files[g] \in {0, vault.key}
      BY <1>0, <1>2 DEF VaultInv, BlocksOpen, Visited
    <2> QED
      BY <1>2, <1>6, <2>1 DEF BlocksOpen, KeyOpens, Visited
  <1> QED
    BY <1>0, <1>2, <1>3, <1>4, <1>6, <1>7, <1>8, <1>9, LockStep

\* The API takes a vault password that no block is encrypted with.
LEMMA SetPasswordStep ==
  ASSUME VaultInv, NEW v \in Secrets \ {0}, SetVaultPassword(v)
  PROVE  VaultInv'
  <1>0. VaultTypeOK /\ vault \in Vaults /\ asks' \in 0 .. MaxAsks
    BY AskedOnce DEF VaultInv, VaultTypeOK, SetVaultPassword
  <1>1. /\ holder = 0 /\ vault' = [vault EXCEPT !.key = v] /\ lastSecret' \in {v, lastSecret}
        /\ lost' = {f \in VFiles : files[f] \notin {0, v}}
        /\ UNCHANGED <<keyPass, opened, kept, files, ops, holder, todo, remembered, prompt, modal, editor, torn>>
    BY DEF SetVaultPassword
  <1>2. vault' \in Vaults /\ vault'.master = vault.master /\ vault'.pass = vault.pass /\ vault'.key = v
    BY <1>0, <1>1 DEF Vaults
  <1>3. VaultTypeOK'
    BY <1>0, <1>1, <1>2 DEF VaultTypeOK
  <1>4. BlocksOpen' /\ KeyOpens'
    BY <1>1, <1>2 DEF VaultInv, BlocksOpen, KeyOpens, Visited
  <1> QED
    BY <1>1, <1>2, <1>3, <1>4 DEF VaultInv, SessionOpensVault

-----------------------------------------------------------------------------
LEMMA VaultInitially == VaultInit => VaultInv
  <1> SUFFICES ASSUME VaultInit PROVE VaultInv
    OBVIOUS
  <1>1. 0 \in Secrets /\ 1 \in Secrets /\ AFile \in VFiles /\ 0 \in 0 .. MaxAsks
    BY VaultAssumption DEF Secrets, AFile
  <1>2. vault \in Vaults /\ NoVault \in Vaults
    <2>1. NoVault \in Vaults
      BY <1>1 DEF NoVault, Vaults
    <2>2. ASSUME NEW m \in Masters, vault = [master |-> m, key |-> 1, pass |-> 1] PROVE vault \in Vaults
      BY <1>1, <2>2 DEF Vaults
    <2> QED
      BY <2>1, <2>2 DEF VaultInit
  <1>3. /\ files = [f \in VFiles |-> IF f = AFile THEN vault.key ELSE 0]
        /\ lastSecret = vault.key /\ keyPass = (IF vault = NoVault THEN NoKey ELSE vault.pass)
        /\ opened = NoVault /\ kept = [files |-> files, key |-> keyPass]
        /\ ops = [i \in OpSlots |-> NoOp] /\ holder = 0 /\ todo = {}
        /\ remembered = NoMaster /\ prompt = "none" /\ modal = NoModal
        /\ editor = [file |-> AFile, block |-> vault.key, dirty |-> FALSE]
        /\ lost = {} /\ torn = {} /\ asks = 0
    BY DEF VaultInit
  <1>t. vault.key \in Secrets /\ vault.pass \in Secrets
    BY <1>2 DEF Vaults
  <1>f. files \in [VFiles -> Secrets] /\ keyPass \in Secrets \cup {NoKey}
    BY <1>1, <1>3, <1>t
  <1>k. kept \in [files : [VFiles -> Secrets], key : Secrets \cup {NoKey}]
    BY <1>3, <1>f
  <1>4. VaultTypeOK
    BY <1>1, <1>2, <1>3, <1>t, <1>f, <1>k, NoOpIsOp DEF VaultTypeOK
  <1>5. BlocksOpen /\ KeyOpens /\ SessionOpensVault
    BY <1>3 DEF BlocksOpen, KeyOpens, SessionOpensVault, Visited, Fits
  <1>6. \A i \in OpSlots : OpOK(ops[i]) /\ ops[i].at = "idle"
    BY <1>3, NoOpIsOp DEF OpOK, CredentialKinds, ValueKinds
  <1> QED
    BY <1>3, <1>4, <1>5, <1>6 DEF VaultInv

LEMMA VaultStep == VaultInv /\ [VaultNext]_vaultVars => VaultInv'
  <1> SUFFICES ASSUME VaultInv, [VaultNext]_vaultVars PROVE VaultInv'
    OBVIOUS
  <1>1. CASE UNCHANGED vaultVars
    BY <1>1 DEF vaultVars, VaultInv, VaultTypeOK, BlocksOpen, KeyOpens, SessionOpensVault, Visited
  <1>2. CASE VaultNext
    BY <1>2, VaultAskedStep, VaultSentStep, RememberStep, RestoreStep, VaultRequestStep, AnswerServedStep,
       ServeGenerateStep, ServeMasterChangeStep, RotationStep, StartKeyStep, EndKeyStep, SetPasswordStep DEF VaultNext, Sends
  <1> QED
    BY <1>1, <1>2

(* Every password opens what it is kept for: the vault password the blocks,  *)
(* the passphrase the key, and the master password of the session the vault  *)
(* (security.py, vault_rotation.py, vault.ts).                               *)
THEOREM PasswordsStayOpen == VaultSpec => []PasswordsOpen
  <1>1. VaultInv => PasswordsOpen
    BY DEF VaultInv, PasswordsOpen, VaultOpensAll, BlocksOpen, KeyOpens, Visited
  <1> QED
    BY <1>1, VaultInitially, VaultStep, PTL DEF VaultSpec

-----------------------------------------------------------------------------
\* The types of the four parts, from here on.
\* The rest of the types of the view of KeePass files.
KdbxRest ==
  /\ activeFile \in KdbxFiles \cup OtherFiles \cup {Nothing}
  /\ prompted \in BOOLEAN /\ overtaken \in BOOLEAN

LEMMA KdbxRestStep ==
  ASSUME KdbxInv, KdbxRest, [KdbxNext]_kdbxVars
  PROVE  KdbxRest'
  <1>1. CASE UNCHANGED kdbxVars
    BY <1>1 DEF kdbxVars, KdbxRest
  <1>2. ASSUME NEW file \in KdbxFiles, OpenKdbx(file) PROVE KdbxRest'
    BY <1>2 DEF OpenKdbx, KdbxRest
  <1>3. ASSUME NEW file \in OtherFiles \cup {Nothing}, OpenOther(file) PROVE KdbxRest'
    BY <1>3 DEF OpenOther, KdbxRest
  <1>4. ASSUME NEW word \in Passwords, SubmitPassword(word) PROVE KdbxRest'
    BY <1>4 DEF SubmitPassword, KdbxRest
  <1>5. ASSUME NEW load \in kdbxLoads, Decrypted(load) \/ NotDecrypted(load) PROVE KdbxRest'
    <2>1. load.stale \in BOOLEAN
      BY DEF KdbxInv, Loads
    <2> QED
      BY <1>5, <2>1 DEF Decrypted, NotDecrypted, KdbxRest
  <1>6. CASE ClosePrompt \/ LeaveWorkspace \/ LockKdbx \/ UnlockKdbx
    BY <1>6 DEF ClosePrompt, LeaveWorkspace, LockKdbx, UnlockKdbx, KdbxRest
  <1> QED
    BY <1>1, <1>2, <1>3, <1>4, <1>5, <1>6 DEF KdbxNext

LEMMA KdbxTyped == KdbxSpec => []KdbxTypeOK
  <1>1. KdbxInit => KdbxInv /\ KdbxRest
    BY DEF KdbxInit, KdbxInv, KdbxRest, EntriesOfUnlocked
  <1>2. KdbxInv /\ KdbxRest /\ [KdbxNext]_kdbxVars => KdbxInv' /\ KdbxRest'
    BY KdbxStep, KdbxRestStep, KdbxAssumption
  <1>3. KdbxInv /\ KdbxRest => KdbxTypeOK
    BY DEF KdbxInv, KdbxRest, KdbxTypeOK, Loads
  <1> QED
    BY <1>1, <1>2, <1>3, PTL DEF KdbxSpec

\* The rest of the types of the import and the cleanup: what the files hold,
\* what the users have done, and what is left of a deletion.
BulkRest ==
  /\ store \in [Yards -> [HostFiles -> {"none", "mine", "merged", "zip"}]]
  /\ purge = NoCall \/ purge.left \subseteq purge.paths
  /\ bulk \in 0 .. MaxBulk /\ chosen \subseteq HostFiles /\ stray \subseteq {"zip", "cleanup"}

LEMMA Counted ==
  ASSUME bulk \in 0 .. MaxBulk, May
  PROVE  bulk' \in 0 .. MaxBulk
  BY BulkAssumption DEF May

\* The steps of the import.
LEMMA ZipRest ==
  ASSUME ZipInv, CleanupInv, BulkRest,
         \/ \E f \in SUBSET HostFiles : SelectZip(f)
         \/ \E p \in previews : ServePreview(p) \/ PreviewAnswered(p) \/ PreviewFailed(p)
         \/ \E mode \in ImportModes : ChooseAllMode(mode) \/ \E f \in HostFiles : ChooseMode(f, mode)
         \/ \E checked \in BOOLEAN : ApplyToAll(checked)
         \/ CloseZip \/ ConfirmZip \/ UploadAnswered
  PROVE  BulkRest'
  <1>1. UNCHANGED <<store, purge>>
    BY DEF SelectZip, ServePreview, PreviewAnswered, PreviewFailed, ChooseAllMode, ChooseMode, ApplyToAll,
       CloseZip, ConfirmZip, UploadAnswered, filesVars, cleanupVars
  <1>2. bulk' = bulk \/ May
    BY DEF SelectZip, ServePreview, PreviewAnswered, PreviewFailed, ChooseAllMode, ChooseMode, ApplyToAll,
       CloseZip, ConfirmZip, UploadAnswered
  <1>3. bulk' \in 0 .. MaxBulk
    BY <1>2, Counted DEF BulkRest
  <1>4. zip.items \subseteq HostFiles
    BY DEF ZipInv, ZipModal
  <1>5. chosen' \subseteq HostFiles
    BY <1>4 DEF BulkRest, SelectZip, ServePreview, PreviewAnswered, PreviewFailed, ChooseAllMode, ChooseMode,
       ApplyToAll, CloseZip, ConfirmZip, UploadAnswered
  <1>6. stray' \subseteq {"zip", "cleanup"}
    BY DEF BulkRest, SelectZip, ServePreview, PreviewAnswered, PreviewFailed, ChooseAllMode, ChooseMode,
       ApplyToAll, CloseZip, ConfirmZip, UploadAnswered
  <1> QED
    BY <1>1, <1>3, <1>5, <1>6 DEF BulkRest

\* The steps of the cleanup, and those of the rest of the page.
LEMMA CleanupRest ==
  ASSUME ZipInv, CleanupInv, BulkRest,
         \/ \E checked \in BOOLEAN : SelectOrphans(checked)
         \/ OpenCleanup \/ ServeScan \/ ScanAnswered \/ CloseCleanup
         \/ DeleteSelection \/ DeleteFails \/ DeleteAnswered
         \/ \E f \in HostFiles : ToggleOrphan(f) \/ DeleteOrphan(f)
         \/ \E y \in Yards : SwitchYard(y) \/ \E f \in HostFiles : ChangeRoles(y, f)
  PROVE  BulkRest'
  <1>1. UNCHANGED store \/ \E f \in HostFiles : DeleteOrphan(f)
    BY DEF SelectOrphans, OpenCleanup, ServeScan, ScanAnswered, CloseCleanup, DeleteSelection, DeleteFails,
       DeleteAnswered, ToggleOrphan, SwitchYard, ChangeRoles, filesVars
  <1>2. store' \in [Yards -> [HostFiles -> {"none", "mine", "merged", "zip"}]]
    <2>1. ASSUME NEW f \in HostFiles, DeleteOrphan(f)
          PROVE  store' \in [Yards -> [HostFiles -> {"none", "mine", "merged", "zip"}]]
      <3>1. purge.yard \in Yards
        BY <2>1 DEF DeleteOrphan, CleanupInv, Purge
      <3>2. store' = [store EXCEPT ![purge.yard][f] = "none"]
        BY <2>1 DEF DeleteOrphan
      <3> QED
        BY <3>1, <3>2 DEF BulkRest
    <2> QED
      BY <1>1, <2>1 DEF BulkRest
  <1>3. bulk' = bulk \/ May
    BY DEF SelectOrphans, OpenCleanup, ServeScan, ScanAnswered, CloseCleanup, DeleteSelection, DeleteFails,
       DeleteAnswered, ToggleOrphan, SwitchYard, ChangeRoles, DeleteOrphan
  <1>4. bulk' \in 0 .. MaxBulk
    BY <1>3, Counted DEF BulkRest
  <1>5. chosen' = chosen
    BY DEF SelectOrphans, OpenCleanup, ServeScan, ScanAnswered, CloseCleanup, DeleteSelection, DeleteFails,
       DeleteAnswered, ToggleOrphan, SwitchYard, ChangeRoles, DeleteOrphan, zipVars
  <1>6. stray' \subseteq stray \cup {"cleanup"}
    BY DEF SelectOrphans, OpenCleanup, ServeScan, ScanAnswered, CloseCleanup, DeleteSelection, DeleteFails,
       DeleteAnswered, ToggleOrphan, SwitchYard, ChangeRoles, DeleteOrphan
  <1>7. purge' = NoCall \/ purge'.left \subseteq purge'.paths
    <2>1. CASE UNCHANGED purge
      BY <2>1 DEF BulkRest
    <2>2. CASE DeleteSelection
      BY <2>2 DEF DeleteSelection
    <2>3. CASE DeleteFails \/ \E f \in HostFiles : DeleteOrphan(f)
      <3>1. purge # NoCall /\ purge \in Purge
        BY <2>3 DEF DeleteFails, DeleteOrphan, CleanupInv
      <3>2. CASE DeleteFails
        <4>1. purge' = [purge EXCEPT !.failed = TRUE]
          BY <3>2 DEF DeleteFails
        <4> QED
          BY <3>1, <4>1 DEF Purge, BulkRest
      <3>3. ASSUME NEW f \in HostFiles, DeleteOrphan(f) PROVE purge'.left \subseteq purge'.paths
        <4>1. purge' = [purge EXCEPT !.left = @ \ {f}]
          BY <3>3 DEF DeleteOrphan
        <4> QED
          BY <3>1, <4>1 DEF Purge, BulkRest
      <3> QED
        BY <2>3, <3>2, <3>3
    <2>4. CASE DeleteAnswered
      BY <2>4 DEF DeleteAnswered
    <2>5. UNCHANGED purge \/ DeleteSelection \/ DeleteFails \/ DeleteAnswered \/ \E f \in HostFiles : DeleteOrphan(f)
      BY DEF SelectOrphans, OpenCleanup, ServeScan, ScanAnswered, CloseCleanup, ToggleOrphan, SwitchYard,
         ChangeRoles, cleanupVars
    <2> QED
      BY <2>1, <2>2, <2>3, <2>4, <2>5
  <1> QED
    BY <1>2, <1>4, <1>5, <1>6, <1>7 DEF BulkRest

LEMMA BulkRestStep ==
  ASSUME ZipInv, CleanupInv, BulkRest, [BulkNext]_bulkVars
  PROVE  BulkRest'
  <1>1. CASE UNCHANGED bulkVars
    BY <1>1 DEF bulkVars, BulkRest
  <1>2. CASE LoadZip
    <2>1. PICK y \in Yards, t \in [HostFiles -> {"none", "mine", "merged", "zip"}] : store' = [store EXCEPT ![y] = t]
      <3>1. upload.yard \in Yards
        BY <1>2 DEF LoadZip, ZipInv, Upload
      <3>2. PICK sent \in SUBSET upload.files :
              store' = [store EXCEPT ![upload.yard] = [f \in HostFiles |->
                  IF f \notin sent THEN @[f]
                  ELSE IF upload.modes[f] = "override" \/ store[upload.yard][f] = "none" THEN "zip" ELSE "merged"]]
        BY <1>2 DEF LoadZip
      <3> DEFINE t == [f \in HostFiles |->
                  IF f \notin sent THEN store[upload.yard][f]
                  ELSE IF upload.modes[f] = "override" \/ store[upload.yard][f] = "none" THEN "zip" ELSE "merged"]
      <3>3. store' = [store EXCEPT ![upload.yard] = t]
        BY <3>2
      <3>4. t \in [HostFiles -> {"none", "mine", "merged", "zip"}]
        BY <3>1 DEF BulkRest
      <3> HIDE DEF t
      <3> QED
        BY <3>1, <3>3, <3>4
    <2>2. store' \in [Yards -> [HostFiles -> {"none", "mine", "merged", "zip"}]]
      BY <2>1 DEF BulkRest
    <2>3. UNCHANGED <<purge, bulk, chosen, stray>>
      BY <1>2 DEF LoadZip, cleanupVars
    <2> QED
      BY <2>2, <2>3 DEF BulkRest
  <1>3. ASSUME NEW y \in Yards, NEW f \in HostFiles, AddDevice(y, f) PROVE BulkRest'
    <2>1. bulk' \in 0 .. MaxBulk
      BY <1>3, Counted DEF AddDevice, BulkRest
    <2>2. store' \in [Yards -> [HostFiles -> {"none", "mine", "merged", "zip"}]]
      BY <1>3 DEF AddDevice, BulkRest
    <2> QED
      BY <1>3, <2>1, <2>2 DEF AddDevice, BulkRest, zipVars, cleanupVars
  <1> QED
    BY <1>1, <1>2, <1>3, ZipRest, CleanupRest DEF BulkNext

LEMMA BulkTyped == BulkSpec => []BulkTypeOK
  <1>1. BulkInit => ZipInv /\ CleanupInv
    BY BulkInitially, BulkAssumption
  <1>2. BulkInit => BulkRest
    BY BulkAssumption DEF BulkInit, BulkRest
  <1>3. ZipInv /\ CleanupInv /\ BulkRest /\ [BulkNext]_bulkVars => (ZipInv /\ CleanupInv /\ BulkRest)'
    BY ZipStep, CleanupStep, BulkRestStep, BulkAssumption
  <1>4. ZipInv /\ CleanupInv /\ BulkRest => BulkTypeOK
    BY DEF ZipInv, CleanupInv, BulkRest, BulkTypeOK, ZipModal, Preview, Upload, CleanupModal
  <1> QED
    BY <1>1, <1>2, <1>3, <1>4, PTL DEF BulkSpec

\* The rest of the types of the editor: its other flags, and what is counted.
EditorRest ==
  /\ loading \in BOOLEAN /\ saving \in BOOLEAN /\ restoring \in BOOLEAN
  /\ commands \in 0 .. MaxCommands /\ written \subseteq 1 .. MaxEdits

LEMMA ReachedIsTyped ==
  ASSUME EditorInv, NEW i \in Slots, calls[i] # Idle
  PROVE  Reached(calls[i]) \subseteq 1 .. MaxEdits
  <1>1. calls[i].text \in Texts \cup {Blank}
    BY DEF EditorInv, CallOK, Calls
  <1>2. calls[i].text.n \in 0 .. MaxEdits
    BY <1>1, EditorAssumption DEF Texts, Blank
  <1>3. calls[i].text.n > 0 => calls[i].text.n \in 1 .. MaxEdits
    BY <1>2, EditorAssumption
  <1> QED
    BY <1>3 DEF Reached

LEMMA ServeRest ==
  ASSUME EditorInv, EditorRest, NEW i \in Slots, ServeChange(i) \/ ServeRefusedChange(i) \/ ServeRead(i)
  PROVE  EditorRest'
  <1>1. UNCHANGED <<loading, saving, restoring, commands>>
    BY DEF ServeChange, ServeRefusedChange, ServeRead
  <1>2. calls[i] # Idle
    BY DEF ServeChange, ServeRefusedChange, ServeRead, Pending
  <1>3. written' = written \/ written' = written \cup Reached(calls[i])
    BY DEF ServeChange, ServeRefusedChange, ServeRead
  <1>4. written' \subseteq 1 .. MaxEdits
    BY <1>2, <1>3, ReachedIsTyped DEF EditorRest
  <1> QED
    BY <1>1, <1>4 DEF EditorRest

LEMMA AnswerRest ==
  ASSUME EditorRest, NEW i \in Slots, Answer(i)
  PROVE  EditorRest'
  <1>1. UNCHANGED <<commands, written>>
    BY DEF Answer, Loaded, LoadFailed, Saved, SaveFailed, SaveDone, FileChanged, Refreshed, RestoredUnread,
       ChangeFailed, Selected, NotSelected
  <1>2. loading' \in BOOLEAN
    BY DEF Answer, Loaded, LoadFailed, Saved, SaveFailed, SaveDone, FileChanged, Refreshed, RestoredUnread,
       ChangeFailed, Selected, NotSelected, SelectFrom, EditorRest, shown
  <1>3. saving' \in BOOLEAN
    BY DEF Answer, Loaded, LoadFailed, Saved, SaveFailed, SaveDone, FileChanged, Refreshed, RestoredUnread,
       ChangeFailed, Selected, NotSelected, EditorRest
  <1>4. restoring' \in BOOLEAN
    BY DEF Answer, Loaded, LoadFailed, Saved, SaveFailed, SaveDone, FileChanged, Refreshed, RestoredUnread,
       ChangeFailed, Selected, NotSelected, EditorRest
  <1> QED
    BY <1>1, <1>2, <1>3, <1>4 DEF EditorRest

LEMMA AskRest ==
  ASSUME EditorRest, NEW i \in Slots,
         \/ RestoreWorkspace(i) \/ \E w \in Workspaces : QueueLeave(i, w)
         \/ \E p \in Paths :
              \/ LoadFile(i, p) \/ CreateFile(i, p) \/ CreateDirectory(i, p) \/ DeleteFile(i, p)
              \/ RestorePath(i, p) \/ \E q \in Paths : RenameFile(i, p, q)
  PROVE  EditorRest'
  <1>1. commands < MaxCommands /\ commands' = commands + 1
    BY DEF RestoreWorkspace, QueueLeave, LoadFile, CreateFile, CreateDirectory, DeleteFile, RestorePath, RenameFile,
       Ask, Free
  <1>2. commands' \in 0 .. MaxCommands
    BY <1>1, EditorAssumption DEF EditorRest
  <1>3. UNCHANGED <<saving, written>>
    BY DEF RestoreWorkspace, QueueLeave, LoadFile, CreateFile, CreateDirectory, DeleteFile, RestorePath, RenameFile
  <1>4. loading' \in BOOLEAN /\ restoring' \in BOOLEAN
    BY DEF RestoreWorkspace, QueueLeave, LoadFile, CreateFile, CreateDirectory, DeleteFile, RestorePath, RenameFile,
       SelectFrom, EditorRest
  <1> QED
    BY <1>2, <1>3, <1>4 DEF EditorRest

LEMMA EditorRestStep ==
  ASSUME EditorInv, EditorRest, [EditorNext]_editorVars
  PROVE  EditorRest'
  <1>1. CASE UNCHANGED editorVars
    BY <1>1 DEF editorVars, EditorRest
  <1>2. CASE Type \/ CancelLeave
    BY <1>2 DEF Type, CancelLeave, shown, EditorRest
  <1>3. ASSUME NEW i \in Slots, SaveFile(i, TRUE) \/ SaveFile(i, FALSE) \/ SaveAndLeave(i)
        PROVE  EditorRest'
    <2>1. UNCHANGED <<restoring, commands, written>>
      BY <1>3 DEF SaveFile, SaveAndLeave
    <2>2. loading' \in BOOLEAN
      BY <1>3 DEF SaveFile, SaveAndLeave, SelectFrom, EditorRest
    <2>3. saving' \in BOOLEAN
      BY <1>3 DEF SaveFile, SaveAndLeave, EditorRest
    <2> QED
      BY <2>1, <2>2, <2>3 DEF EditorRest
  <1> QED
    BY <1>1, <1>2, <1>3, ServeRest, AnswerRest, AskRest DEF EditorNext

LEMMA EditorTyped == EditorInit /\ [][EditorNext]_editorVars => []EditorTypeOK
  <1>1. EditorInit => EditorRest
    <2>1. 0 \in 0 .. MaxCommands
      BY EditorAssumption
    <2> QED
      BY <2>1 DEF EditorInit, EditorRest
  <1>2. EditorInv /\ EditorRest /\ [EditorNext]_editorVars => EditorInv' /\ EditorRest'
    BY EditorStep, EditorRestStep
  <1>3. EditorInv /\ EditorRest => EditorTypeOK
    <2> SUFFICES ASSUME EditorInv, EditorRest PROVE EditorTypeOK
      OBVIOUS
    <2>1. {dirty, loading, saving, restoring, raced, outlived} \subseteq BOOLEAN
      BY Zenon DEF EditorInv, EditorTypes, EditorRest
    <2>2. \A i \in Slots : calls[i] # Idle => calls[i] \in Calls
      BY DEF EditorInv, CallOK
    <2>3. \A i \in Slots : calls[i] # Idle =>
             /\ calls[i].kind \in {"load", "save", "leave", "create", "mkdir", "rename", "delete",
                                   "select", "restore", "restorePath"}
             /\ calls[i].pc \in {"get", "put", "change", "list"}
             /\ calls[i].reply \in {"none", "ok", "failed"}
      BY <2>2 DEF Calls, Kinds
    <2> QED
      BY <2>1, <2>3 DEF EditorInv, EditorTypes, EditorRest, EditorTypeOK
  <1> QED
    BY <1>1, <1>2, <1>3, EditorInitially, PTL

\* The vault's are part of its invariant.
LEMMA VaultTyped == VaultSpec => []VaultTypeOK
  <1>1. VaultInv => VaultTypeOK
    BY DEF VaultInv
  <1> QED
    BY <1>1, VaultInitially, VaultStep, PTL DEF VaultSpec

-----------------------------------------------------------------------------
\* The files of the panel: a step is a step of one part and leaves the others
\* alone, so whatever is proved of a part is proved of all together.  Nothing
\* of it rests on fairness.
THEOREM PanelIsItsParts ==
  Spec => /\ EditorInit /\ [][EditorNext]_editorVars
          /\ KdbxSpec /\ VaultSpec /\ BulkSpec
  <1> DEFINE Next == OfEditor(EditorNext) \/ OfKdbx(KdbxNext) \/ OfVault(VaultNext) \/ OfBulk(BulkNext)
  <1>1. Init => EditorInit /\ KdbxInit /\ VaultInit /\ BulkInit
    BY DEF Init
  <1>2. [Next]_vars => /\ [EditorNext]_editorVars /\ [KdbxNext]_kdbxVars
                       /\ [VaultNext]_vaultVars /\ [BulkNext]_bulkVars
    BY DEF OfEditor, OfKdbx, OfVault, OfBulk, vars
  <1>3. Spec => Init /\ [][Next]_vars
    BY PTL DEF Spec
  <1> HIDE DEF Next
  <1> QED
    BY <1>1, <1>2, <1>3, PTL DEF KdbxSpec, VaultSpec, BulkSpec

\* The parts keep their types (actions/core/editor.ts, vault.ts,
\* useZipImportWorkflow.ts, useOrphanCleanup.ts).
THEOREM PanelKeepsTypes == Spec => []PanelTypeOK
  <1>1. EditorTypeOK /\ KdbxTypeOK /\ VaultTypeOK /\ BulkTypeOK => PanelTypeOK
    BY DEF PanelTypeOK
  <1> QED
    BY <1>1, PanelIsItsParts, EditorTyped, KdbxTyped, VaultTyped, BulkTyped, PTL

\* What the parts promise holds of the files of the panel, the specification of
\* the runs (saveFile, loadKdbx, vault_rotation.py, useOrphanCleanup.ts).
THEOREM PanelKeepsPromises ==
  Spec => /\ []CleanMeansSaved /\ LeaveKeepsEdits /\ []EntriesOfUnlocked
          /\ []PasswordsOpen /\ []BulkAsAsked
  BY PanelIsItsParts, CleanTextIsSaved, LeavingKeepsEdits, EntriesAreOfTheOpenFile, PasswordsStayOpen,
     BulkDoesAsAsked, KdbxAssumption, PTL
==============================================================================
