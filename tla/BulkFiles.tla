----------------------------- MODULE BulkFiles ------------------------------
(* Files of a workspace that are replaced and deleted in bulk: the import of *)
(* a zip, with a choice between merge and override for each file, and the    *)
(* cleanup of host_vars that the inventory does not mention                  *)
(* (useZipImportWorkflow.ts, useOrphanCleanup.ts, actions/files.ts).         *)
(* Both survive a switch of the workspace, which a sign-in in another window *)
(* causes at any time.  A file is the host_vars of the device of that name.  *)
EXTENDS Naturals

CONSTANTS
  Yards,      \* workspaces
  HostFiles,  \* files of host_vars
  NoCall,     \* no request
  MaxBulk     \* bound: actions of users

\* Reads of an inventory that are under way.
Scans == [yard : Yards, tree : SUBSET HostFiles, inventory : SUBSET HostFiles,
          at : {"sent", "read", "failed"}]

ASSUME BulkAssumption == Yards # {} /\ MaxBulk \in Nat /\ NoCall \notin Scans

VARIABLES
  store,      \* the API: what each file of each workspace holds
  mentioned,  \* and the devices its inventory mentions
  yard, tree, \* workspaceId and the files listed for it
  zip,        \* the modal of the import
  previews,   \* inspections of a zip under way
  upload,     \* the import under way: uploadBusy
  cleanup,    \* the modal of the cleanup
  scan,       \* the read of the inventory under way: orphanCleanupLoading
  purge,      \* the deletion under way: orphanCleanupBusy
  bulk,       \* actions so far
  harm,       \* history: what nobody asked for, see BulkAsAsked
  chosen,     \* history: files of the modal for which override was chosen
  stray       \* history: modals filled from another workspace, or from an older inventory

bulkVars == <<store, mentioned, yard, tree, zip, previews, upload, cleanup, scan,
              purge, bulk, harm, chosen, stray>>
zipVars == <<zip, previews, upload, chosen>>
cleanupVars == <<cleanup, scan, purge>>
filesVars == <<store, mentioned, harm>>

ImportModes == {"merge", "override"}
FilesOf(y) == {f \in HostFiles : store[y][f] # "none"}

\* resetZipImportState.
ClosedZip == [open |-> FALSE, busy |-> FALSE, items |-> {}, exists |-> {},
              modes |-> [f \in HostFiles |-> "override"], all |-> FALSE, allMode |-> "override"]
ClosedCleanup == [open |-> FALSE, items |-> {}, selected |-> {}]

May == bulk < MaxBulk /\ bulk' = bulk + 1

BulkInit ==
  /\ yard = CHOOSE y \in Yards : TRUE
  /\ store = [y \in Yards |-> [f \in HostFiles |-> IF y = yard THEN "mine" ELSE "none"]]
  /\ mentioned = [y \in Yards |-> {}]
  /\ tree = FilesOf(yard)
  /\ zip = ClosedZip /\ previews = {} /\ upload = NoCall
  /\ cleanup = ClosedCleanup /\ scan = NoCall /\ purge = NoCall
  /\ bulk = 0 /\ harm = {} /\ chosen = {} /\ stray = {}

-----------------------------------------------------------------------------
(* The import of a zip.                                                      *)

\* onUploadSelect: the button is disabled while a zip is inspected or imported,
\* as far as the page knows.
SelectZip(files) ==
  /\ May /\ upload = NoCall /\ ~zip.busy /\ files # {}
  /\ zip' = [zip EXCEPT !.busy = TRUE]
  /\ previews' = previews \cup {[yard |-> yard, files |-> files, exists |-> {}, read |-> FALSE]}
  /\ UNCHANGED <<filesVars, yard, tree, upload, cleanupVars, chosen, stray>>

\* upload_zip_preview lists the workspace.
ServePreview(p) ==
  /\ p \in previews /\ ~p.read
  /\ previews' = (previews \ {p}) \cup
                 {[p EXCEPT !.read = TRUE, !.exists = p.files \cap FilesOf(p.yard)]}
  /\ UNCHANGED <<filesVars, yard, tree, zip, upload, cleanupVars, bulk, chosen, stray>>

\* A file that exists is to be merged; the modal opens for whatever workspace.
PreviewAnswered(p) ==
  /\ p \in previews /\ p.read
  /\ previews' = previews \ {p}
  /\ zip' = [open |-> TRUE, busy |-> FALSE, items |-> p.files, exists |-> p.exists,
             modes |-> [f \in HostFiles |-> IF f \in p.exists THEN "merge" ELSE "override"],
             all |-> FALSE, allMode |-> "override"]
  /\ chosen' = {}
  /\ stray' = IF p.yard = yard THEN stray \ {"zip"} ELSE stray \cup {"zip"}
  /\ UNCHANGED <<filesVars, yard, tree, upload, cleanupVars, bulk>>

PreviewFailed(p) ==
  /\ p \in previews
  /\ previews' = previews \ {p}
  /\ zip' = [zip EXCEPT !.busy = FALSE]
  /\ UNCHANGED <<filesVars, yard, tree, upload, cleanupVars, bulk, chosen, stray>>

ModalBusy == upload # NoCall \/ zip.busy

\* applyZipImportModeToAll.
ForAll(mode) == [f \in HostFiles |-> IF f \in zip.items THEN mode ELSE "override"]

\* setZipImportModeForPath and setZipImportAllModeWithApply: while one mode is
\* for all, the buttons of the single files are disabled.
ChooseMode(f, mode) ==
  /\ May /\ zip.open /\ ~ModalBusy /\ ~zip.all /\ f \in zip.items
  /\ zip' = [zip EXCEPT !.modes[f] = mode]
  /\ chosen' = IF mode = "override" THEN chosen \cup {f} ELSE chosen \ {f}
  /\ UNCHANGED <<filesVars, yard, tree, previews, upload, cleanupVars, stray>>

ChooseAllMode(mode) ==
  /\ May /\ zip.open /\ ~ModalBusy
  /\ zip' = [zip EXCEPT !.allMode = mode, !.modes = IF zip.all THEN ForAll(mode) ELSE @]
  /\ chosen' = IF ~zip.all THEN chosen ELSE IF mode = "override" THEN zip.items ELSE {}
  /\ UNCHANGED <<filesVars, yard, tree, previews, upload, cleanupVars, stray>>

\* setZipImportApplyToAll; what was applied stays when it is unchecked.
ApplyToAll(checked) ==
  /\ May /\ zip.open /\ ~ModalBusy /\ zip.all # checked
  /\ zip' = [zip EXCEPT !.all = checked, !.modes = IF checked THEN ForAll(zip.allMode) ELSE @]
  /\ chosen' = IF ~checked THEN chosen ELSE IF zip.allMode = "override" THEN zip.items ELSE {}
  /\ UNCHANGED <<filesVars, yard, tree, previews, upload, cleanupVars, stray>>

CloseZip ==
  /\ zip.open /\ ~ModalBusy
  /\ zip' = ClosedZip
  /\ UNCHANGED <<filesVars, yard, tree, previews, upload, cleanupVars, bulk, chosen, stray>>

\* (Defect: the modes of the single files are not sent.)
DefaultModes == [f \in HostFiles |-> zip.allMode]
ConfirmedModes == IF zip.all THEN [f \in HostFiles |-> zip.allMode] ELSE zip.modes

\* confirmZipImport and uploadZip.
ConfirmZip ==
  /\ May /\ zip.open /\ ~ModalBusy
  /\ upload' = [yard |-> yard, files |-> zip.items, modes |-> ConfirmedModes,
                kept |-> IF "zip" \in stray THEN {} ELSE zip.exists \ chosen, at |-> "sent"]
  /\ UNCHANGED <<filesVars, yard, tree, zip, previews, cleanupVars, chosen, stray>>

\* load_zip, under the write lock: it stops at a file it refuses or cannot
\* write, and keeps what it has written.  A file that cannot be merged is skipped.
LoadZip ==
  /\ upload # NoCall /\ upload.at = "sent"
  /\ \E written \in SUBSET upload.files, at \in {"done", "failed"} :
       LET y == upload.yard
           Overrides(f) == upload.modes[f] = "override" \/ store[y][f] = "none"
       IN  /\ at = "done" => \A f \in upload.files \ written : ~Overrides(f)
           /\ store' = [store EXCEPT ![y] = [f \in HostFiles |->
                  IF f \notin written THEN @[f]
                  ELSE IF Overrides(f) THEN "zip" ELSE "merged"]]
           /\ harm' = IF \E f \in written \cap upload.kept :
                           store[y][f] # "none" /\ Overrides(f)
                      THEN harm \cup {"overridden"} ELSE harm
           /\ upload' = [upload EXCEPT !.at = at]
  /\ UNCHANGED <<mentioned, yard, tree, zip, previews, cleanupVars, bulk, chosen, stray>>

\* The answer closes the modal of now, and lists the files of the workspace
\* that was open when the import was confirmed.
UploadAnswered ==
  /\ upload # NoCall /\ upload.at # "sent"
  /\ upload' = NoCall
  /\ IF upload.at = "done" THEN zip' = ClosedZip /\ tree' = FilesOf(upload.yard)
     ELSE UNCHANGED <<zip, tree>>
  /\ UNCHANGED <<filesVars, yard, previews, cleanupVars, bulk, chosen, stray>>

-----------------------------------------------------------------------------
(* The cleanup.                                                              *)

\* openOrphanCleanupDialog, from the menu or to scan again.
OpenCleanup ==
  /\ May /\ scan = NoCall /\ purge = NoCall
  /\ cleanup' = [cleanup EXCEPT !.open = TRUE]
  /\ scan' = [yard |-> yard, tree |-> tree, inventory |-> {}, at |-> "sent"]
  /\ stray' = stray \ {"cleanup"}
  /\ UNCHANGED <<filesVars, yard, tree, zipVars, purge>>

ServeScan ==
  /\ scan # NoCall /\ scan.at = "sent"
  /\ \E at \in {"read", "failed"} :
       scan' = [scan EXCEPT !.at = at, !.inventory = mentioned[scan.yard]]
  /\ UNCHANGED <<filesVars, yard, tree, zipVars, cleanup, purge, bulk, stray>>

\* collectOrphanCleanupItems: files that were listed at the click and have no
\* device in the inventory, all of them selected.
Orphans == scan.tree \ scan.inventory

Scanned ==
  LET items == IF scan.at = "read" THEN Orphans ELSE {}
  IN  [open |-> cleanup.open, items |-> items, selected |-> items]

ScanAnswered ==
  /\ scan # NoCall /\ scan.at # "sent"
  /\ cleanup' = Scanned
  /\ scan' = NoCall
  /\ UNCHANGED <<filesVars, yard, tree, zipVars, purge, bulk, stray>>

ToggleOrphan(f) ==
  /\ May /\ cleanup.open /\ f \in cleanup.items /\ purge = NoCall
  /\ cleanup' = [cleanup EXCEPT !.selected = IF f \in @ THEN @ \ {f} ELSE @ \cup {f}]
  /\ UNCHANGED <<filesVars, yard, tree, zipVars, scan, purge, stray>>

SelectOrphans(checked) ==
  /\ May /\ cleanup.open /\ cleanup.items # {} /\ purge = NoCall
  /\ cleanup' = [cleanup EXCEPT !.selected = IF checked THEN cleanup.items ELSE {}]
  /\ UNCHANGED <<filesVars, yard, tree, zipVars, scan, purge, stray>>

CloseCleanup ==
  /\ cleanup.open /\ scan = NoCall /\ purge = NoCall
  /\ cleanup' = [cleanup EXCEPT !.open = FALSE]
  /\ UNCHANGED <<filesVars, yard, tree, zipVars, scan, purge, bulk, stray>>

\* deleteOrphanCleanupSelection, in the workspace of now.
DeleteSelection ==
  /\ May /\ cleanup.open /\ scan = NoCall /\ purge = NoCall /\ cleanup.selected # {}
  /\ purge' = [yard |-> yard, items |-> cleanup.items, paths |-> cleanup.selected,
               left |-> cleanup.selected, failed |-> FALSE]
  /\ UNCHANGED <<filesVars, yard, tree, zipVars, cleanup, scan, stray>>

\* One DELETE after the other; the first that fails, as one for a file that is
\* gone does, ends it.
DeleteOrphan(f) ==
  /\ purge # NoCall /\ ~purge.failed /\ f \in purge.left
  /\ store[purge.yard][f] # "none"
  /\ store' = [store EXCEPT ![purge.yard][f] = "none"]
  /\ harm' = IF f \in mentioned[purge.yard] /\ "cleanup" \notin stray
             THEN harm \cup {"deleted"} ELSE harm
  /\ purge' = [purge EXCEPT !.left = @ \ {f}]
  /\ UNCHANGED <<mentioned, yard, tree, zipVars, cleanup, scan, bulk, stray>>

DeleteFails ==
  /\ purge # NoCall /\ ~purge.failed /\ purge.left # {}
  /\ purge' = [purge EXCEPT !.failed = TRUE]
  /\ UNCHANGED <<filesVars, yard, tree, zipVars, cleanup, scan, bulk, stray>>

\* What is left is selected again; after a failure the modal keeps what it had,
\* deleted or not.
DeleteAnswered ==
  /\ purge # NoCall /\ (purge.failed \/ purge.left = {})
  /\ purge' = NoCall
  /\ IF purge.failed THEN UNCHANGED <<cleanup, tree>>
     ELSE LET left == purge.items \ purge.paths
          IN  /\ cleanup' = [cleanup EXCEPT !.items = left, !.selected = left]
              /\ tree' = FilesOf(purge.yard)
  /\ UNCHANGED <<filesVars, yard, zipVars, scan, bulk, stray>>

-----------------------------------------------------------------------------
(* The rest of the page, and others.                                         *)

\* Another workspace is opened: the import is reset, its requests and the
\* cleanup are not.
SwitchYard(y) ==
  /\ May /\ y # yard
  /\ yard' = y /\ tree' = FilesOf(y)
  /\ zip' = ClosedZip
  /\ stray' = stray \cup {"cleanup"}
  /\ UNCHANGED <<filesVars, previews, upload, cleanupVars, chosen>>

\* A device gets its first role, or loses its last one: the inventory mentions
\* it or not.
ChangeRoles(y, f) ==
  /\ May
  /\ mentioned' = [mentioned EXCEPT ![y] = IF f \in @ THEN @ \ {f} ELSE @ \cup {f}]
  /\ stray' = stray \cup {"cleanup"}
  /\ UNCHANGED <<store, harm, yard, tree, zipVars, cleanupVars>>

\* A device is added; the page lists its file only when it lists them again.
AddDevice(y, f) ==
  /\ May /\ store[y][f] = "none"
  /\ store' = [store EXCEPT ![y][f] = "mine"]
  /\ UNCHANGED <<mentioned, harm, yard, tree, zipVars, cleanupVars, stray>>

BulkNext ==
  \/ \E files \in SUBSET HostFiles : SelectZip(files)
  \/ \E p \in previews : ServePreview(p) \/ PreviewAnswered(p) \/ PreviewFailed(p)
  \/ \E mode \in ImportModes : ChooseAllMode(mode) \/ \E f \in HostFiles : ChooseMode(f, mode)
  \/ \E checked \in BOOLEAN : ApplyToAll(checked) \/ SelectOrphans(checked)
  \/ CloseZip \/ ConfirmZip \/ LoadZip \/ UploadAnswered
  \/ OpenCleanup \/ ServeScan \/ ScanAnswered \/ CloseCleanup
  \/ DeleteSelection \/ DeleteFails \/ DeleteAnswered
  \/ \E f \in HostFiles : ToggleOrphan(f) \/ DeleteOrphan(f)
  \/ \E y \in Yards :
       SwitchYard(y) \/ \E f \in HostFiles : ChangeRoles(y, f) \/ AddDevice(y, f)

BulkSpec == BulkInit /\ [][BulkNext]_bulkVars

-----------------------------------------------------------------------------
(* Properties.                                                               *)

BulkTypeOK ==
  /\ store \in [Yards -> [HostFiles -> {"none", "mine", "merged", "zip"}]]
  /\ mentioned \in [Yards -> SUBSET HostFiles]
  /\ yard \in Yards /\ tree \subseteq HostFiles
  /\ zip \in [open : BOOLEAN, busy : BOOLEAN, items : SUBSET HostFiles, exists : SUBSET HostFiles,
              modes : [HostFiles -> ImportModes], all : BOOLEAN, allMode : ImportModes]
  /\ previews \subseteq [yard : Yards, files : SUBSET HostFiles, exists : SUBSET HostFiles, read : BOOLEAN]
  /\ upload = NoCall \/ upload.at \in {"sent", "done", "failed"}
  /\ cleanup \in [open : BOOLEAN, items : SUBSET HostFiles, selected : SUBSET HostFiles]
  /\ scan \in Scans \cup {NoCall}
  /\ purge = NoCall \/ purge.left \subseteq purge.paths
  /\ bulk \in 0..MaxBulk /\ chosen \subseteq HostFiles /\ stray \subseteq {"zip", "cleanup"}

\* However inspections, imports and switches overlap, an import overrides no
\* file that the modal showed as existing unless override was chosen for it,
\* or the modal was filled for another workspace (useZipImportWorkflow.ts:150).
\* The cleanup deletes no host_vars of a device its inventory mentions, unless
\* roles or the workspace were changed after its scan (useOrphanCleanup.ts:134).
BulkAsAsked == harm = {}
=============================================================================
