--------------------------- MODULE WorkspaceVault ---------------------------
(* The passwords of a workspace and what they open: credentials.kdbx under   *)
(* its master password; the vault password and the passphrase of a key in    *)
(* it; the !vault blocks of YAML files under the vault password.  The panel  *)
(* (workspace-panel/actions/vault.ts, panel/SecurityModals.tsx) generates    *)
(* credentials, rotates the vault password, changes master password and      *)
(* passphrase, shows and changes single blocks of the open file; the dialog  *)
(* of a device generates its key and stores a passphrase.  The API           *)
(* (workspaces/mixins/security.py, vault_rotation.py) does each of them      *)
(* under the write lock of the workspace, but shows and encrypts without it, *)
(* and restores commits without it (history/restore.py).                     *)
(*                                                                           *)
(* A vault password or passphrase is the number under which it was made, 0   *)
(* is none; a file has one block, named by the password it is encrypted      *)
(* with; there is one device, so one key.                                    *)
EXTENDS Naturals

CONSTANTS
  VFiles,     \* files of YAML
  Masters,    \* master passwords somebody may type
  NoMaster,   \* no master password: there is no credentials.kdbx, none is remembered
  OpSlots,    \* requests under way at the same time
  MaxSecrets, \* vault passwords, and passphrases, ever made
  MaxAsks     \* bound: actions of the user

ASSUME VaultAssumption ==
  /\ NoMaster \notin Masters /\ VFiles # {} /\ 0 \notin OpSlots
  /\ MaxSecrets \in Nat \ {0} /\ MaxAsks \in Nat

VARIABLES
  vault,      \* credentials.kdbx: its master, vault password and passphrase
  keyPass,    \* the passphrase the private key is encrypted with
  opened,     \* the vault as the request that holds the lock has read it
  kept,       \* a commit one may go back to: blocks and key, not the vault
  files,      \* the block of each file
  ops,        \* requests of the panel
  holder,     \* the request that holds the write lock between two steps, or 0
  todo,       \* files a rotation has still to visit
  remembered, \* sessionStorage: master password used last
  prompt,     \* vaultPromptMode of the dialog that asks for the master password
  modal,      \* vaultValueModal
  editor,       \* the open file, the block in its text, editorDirty
  lost,       \* files whose block no password in the vault opens, by a known way
  torn,       \* what is remembered, or the passphrase, is known to be out of date
  lastSecret, \* the vault password or passphrase made last
  asks        \* actions of the user so far

vaultVars == <<vault, keyPass, opened, kept, files, ops, holder, todo, remembered, prompt,
               modal, editor, lost, torn, lastSecret, asks>>

Secrets == 0..MaxSecrets
NoKey == MaxSecrets + 1
NoVault == [master |-> NoMaster, key |-> 0, pass |-> 0]
\* A key without a passphrase is opened with any.
Fits(key, pass) == key \in {NoKey, 0, pass}
CredentialKinds == {"generate", "vault-reset"}
ValueKinds == {"show", "change"}
NoOp == [kind |-> "none", at |-> "idle", typed |-> NoMaster, next |-> NoMaster,
         targets |-> {}, force |-> FALSE, made |-> 0]
NoModal == [mode |-> "none", loading |-> FALSE]

AFile == CHOOSE f \in VFiles : TRUE

\* (Bound.)
Asked == asks < MaxAsks /\ asks' = asks + 1

\* Requests of these kinds under way: credentialsBusy, masterChangeBusy and
\* keyPassphraseBusy are TRUE as long.
Busy(kinds) == \E i \in OpSlots : ops[i].kind \in kinds

Send(o) ==
  /\ \E i \in OpSlots : ops[i].kind = "none"
  /\ LET i == CHOOSE j \in OpSlots : ops[j].kind = "none"
     IN  ops' = [ops EXCEPT ![i] = o]

\* A new workspace, or one with a vault, a block and a key.
VaultInit ==
  /\ \/ vault = NoVault
     \/ \E m \in Masters : vault = [master |-> m, key |-> 1, pass |-> 1]
  /\ files = [f \in VFiles |-> IF f = AFile THEN vault.key ELSE 0]
  /\ lastSecret = vault.key /\ keyPass = IF vault = NoVault THEN NoKey ELSE vault.pass
  /\ opened = NoVault /\ kept = [files |-> files, key |-> keyPass]
  /\ ops = [i \in OpSlots |-> NoOp] /\ holder = 0 /\ todo = {}
  /\ remembered = NoMaster
  /\ prompt = "none" /\ modal = NoModal
  /\ editor = [file |-> AFile, block |-> vault.key, dirty |-> FALSE]
  /\ lost = {} /\ torn = {} /\ asks = 0

-----------------------------------------------------------------------------
(* The dialogs of the panel.                                                 *)

\* generateCredentials and resetVaultPassword open the same dialog.
OpenPrompt(mode) ==
  /\ Asked /\ prompt = "none" /\ ~Busy(CredentialKinds)
  /\ prompt' = mode
  /\ UNCHANGED <<vault, keyPass, opened, kept, files, ops, holder, todo, remembered, modal,
                 editor, lost, torn, lastSecret>>

CancelPrompt ==
  /\ prompt # "none"
  /\ prompt' = "none"
  /\ UNCHANGED <<vault, keyPass, opened, kept, files, ops, holder, todo, remembered, modal,
                 editor, lost, torn, lastSecret, asks>>

\* confirmGenerate: for all servers that have roles, or for the roles that are
\* checked; forced, or not.
MayGenerate(targets) == targets # {}

\* handleVaultPromptSubmit: one request for a rotation, one for each target of
\* a generation, the next once the last is answered.
SubmitPrompt(master, targets, force) ==
  /\ Asked /\ prompt # "none"
  /\ prompt = "vault-reset" => targets = {} /\ ~force
  /\ prompt = "generate" => MayGenerate(targets)
  /\ Send([NoOp EXCEPT !.kind = prompt, !.at = "sent", !.typed = master,
                       !.targets = targets, !.force = force])
  /\ prompt' = "none"
  /\ UNCHANGED <<vault, keyPass, opened, kept, files, holder, todo, remembered, modal, editor,
                 lost, torn, lastSecret>>

\* submitMasterChange: to set a password the current one is not sent.
SubmitMasterChange(current, next) ==
  /\ Asked /\ ~Busy({"master"})
  /\ Send([NoOp EXCEPT !.kind = "master", !.at = "sent", !.typed = current,
                       !.next = next])
  /\ UNCHANGED <<vault, keyPass, opened, kept, files, holder, todo, remembered, prompt, modal,
                 editor, lost, torn, lastSecret>>

\* submitKeyPassphraseChange.
SubmitKeyPassphraseChange(master) ==
  /\ Asked /\ ~Busy({"key"})
  /\ Send([NoOp EXCEPT !.kind = "key", !.at = "sent", !.typed = master])
  /\ UNCHANGED <<vault, keyPass, opened, kept, files, holder, todo, remembered, prompt, modal,
                 editor, lost, torn, lastSecret>>

\* promptMasterPassword of the dialog of a device: the password remembered or,
\* when there is none, one the user types, remembered before anybody checks it.
Prompted(m) ==
  /\ remembered \in {NoMaster, m} /\ remembered' = m
  /\ torn' = IF m \in {remembered, vault.master} THEN torn ELSE torn \cup {"session"}

\* generateServerKey.
SubmitKeygen(m) ==
  /\ Asked /\ ~Busy({"keygen"}) /\ Prompted(m)
  /\ Send([NoOp EXCEPT !.kind = "keygen", !.at = "sent", !.typed = m])
  /\ UNCHANGED <<vault, keyPass, opened, kept, files, holder, todo, prompt, modal,
                 editor, lost, lastSecret>>

\* saveKeyPassphraseToVault, when the field of the passphrase is left.
SubmitEntry(m, pass) ==
  /\ Asked /\ pass <= lastSecret /\ Prompted(m)
  /\ Send([NoOp EXCEPT !.kind = "entry", !.at = "sent", !.typed = m, !.made = pass])
  /\ UNCHANGED <<vault, keyPass, opened, kept, files, holder, todo, prompt, modal,
                 editor, lost, lastSecret>>

\* startDeployment: a password the API refuses is forgotten, and the next one
\* remembered before it is sent; or the user cancels.
PromptForDeployment(m) ==
  /\ Asked /\ vault.master # NoMaster /\ remembered # vault.master
  /\ remembered' = m
  /\ torn' = IF m \in {NoMaster, vault.master} THEN torn ELSE torn \cup {"session"}
  /\ UNCHANGED <<vault, keyPass, opened, kept, files, ops, holder, todo, prompt, modal,
                 editor, lost, lastSecret>>

\* openVaultValueModal, from the menu of a block; closing forgets the modal and
\* not its request.
OpenVaultValueModal(mode) ==
  /\ Asked /\ modal = NoModal /\ editor.block # 0
  /\ modal' = [mode |-> mode, loading |-> FALSE]
  /\ UNCHANGED <<vault, keyPass, opened, kept, files, ops, holder, todo, remembered, prompt,
                 editor, lost, torn, lastSecret>>

CloseVaultValueModal ==
  /\ modal # NoModal
  /\ modal' = NoModal
  /\ UNCHANGED <<vault, keyPass, opened, kept, files, ops, holder, todo, remembered, prompt,
                 editor, lost, torn, lastSecret, asks>>

\* submitVaultValue: the block to show is taken from the text of now; one that
\* is gone is an error of the dialog.
SubmitVaultValue(master) ==
  /\ Asked /\ modal # NoModal /\ ~modal.loading /\ editor.block # 0
  /\ Send([NoOp EXCEPT !.kind = modal.mode, !.at = "sent", !.typed = master,
                       !.made = IF modal.mode = "show" THEN editor.block ELSE 0])
  /\ modal' = [modal EXCEPT !.loading = TRUE]
  /\ UNCHANGED <<vault, keyPass, opened, kept, files, holder, todo, remembered, prompt, editor,
                 lost, torn, lastSecret>>

-----------------------------------------------------------------------------
(* The open file.                                                            *)

OpenFile(f) ==
  /\ Asked
  /\ editor' = [file |-> f, block |-> files[f], dirty |-> FALSE]
  /\ UNCHANGED <<vault, keyPass, opened, kept, files, ops, holder, todo, remembered, prompt,
                 modal, lost, torn, lastSecret>>

TypeText ==
  /\ Asked /\ ~editor.dirty
  /\ editor' = [editor EXCEPT !.dirty = TRUE]
  /\ UNCHANGED <<vault, keyPass, opened, kept, files, ops, holder, todo, remembered, prompt,
                 modal, lost, torn, lastSecret>>

\* The file is written with the block the text was opened with: after a
\* rotation that is one the vault does not open any more.
SaveText ==
  /\ editor.dirty /\ holder = 0
  /\ files' = [files EXCEPT ![editor.file] = editor.block]
  /\ lost' = IF editor.block \in {0, vault.key} THEN lost \ {editor.file}
             ELSE lost \cup {editor.file}
  /\ editor' = [editor EXCEPT !.dirty = FALSE]
  /\ UNCHANGED <<vault, keyPass, opened, kept, ops, holder, todo, remembered, prompt,
                 modal, torn, lastSecret, asks>>

-----------------------------------------------------------------------------
(* The history: git keeps the files and the keys, not the vault.             *)

\* _history_commit, at the end of any request.
CommitKept ==
  /\ holder = 0 /\ kept' = [files |-> files, key |-> keyPass]
  /\ UNCHANGED <<vault, keyPass, opened, files, ops, holder, todo, remembered, prompt,
                 modal, editor, lost, torn, lastSecret, asks>>

\* restore_history_path, of a file or of the key, without the lock: a block of
\* an older password comes back, or the rotation has passed the file.
Visited(f) == holder # 0 /\ ops[holder].kind = "vault-reset" /\ f \notin todo
RestoreFile(f) == LET block == kept.files[f] IN
  /\ Asked /\ files' = [files EXCEPT ![f] = block]
  /\ lost' = IF block = 0 \/ (block = vault.key /\ ~Visited(f)) THEN lost \ {f}
             ELSE lost \cup {f}
  /\ UNCHANGED <<vault, keyPass, opened, kept, ops, holder, todo, remembered, prompt,
                 modal, editor, torn, lastSecret>>
RestoreKey ==
  /\ Asked /\ kept.key # NoKey /\ keyPass' = kept.key
  /\ torn' = IF holder = 0 /\ Fits(kept.key, vault.pass) THEN torn \ {"passphrase"}
             ELSE torn \cup {"passphrase"}
  /\ UNCHANGED <<vault, opened, kept, files, ops, holder, todo, remembered, prompt,
                 modal, editor, lost, lastSecret>>

\* restore_history_workspace removes everything first, the vault too, which no
\* commit has: nothing opens what comes back.
RestoreTree ==
  /\ Asked /\ vault' = NoVault /\ files' = kept.files /\ keyPass' = kept.key
  /\ lost' = {f \in VFiles : kept.files[f] # 0}
  /\ torn' = {"session"} \cup (IF Fits(kept.key, 0) THEN {} ELSE {"passphrase"})
  /\ UNCHANGED <<opened, kept, ops, holder, todo, remembered, prompt, modal, editor,
                 lastSecret>>

-----------------------------------------------------------------------------
(* The API.                                                                  *)

Opens(i) == vault.master # NoMaster /\ ops[i].typed = vault.master

\* A request whose work is done at one go, and how it ends.
At(i, kind) == ops[i].kind = kind /\ ops[i].at = "sent" /\ holder = 0

\* Refused for its password or a missing vault, or not answered by the API.
Refuse(i) ==
  /\ ops[i].at = "sent" /\ holder # i
  /\ ops' = [ops EXCEPT ![i].at = "denied"]
  /\ UNCHANGED <<vault, keyPass, opened, kept, files, holder, todo, remembered, prompt, modal,
                 editor, lost, torn, lastSecret, asks>>

\* generate_credentials for one target: a missing vault is created with the
\* password that was typed, a missing vault password made.  The generator
\* encrypts values that are missing, or all of them; it may fail before it
\* writes, the commit after that.
ServeGenerate(i) ==
  /\ At(i, "generate") /\ (Opens(i) \/ vault.master = NoMaster)
  /\ vault.key = 0 => lastSecret < MaxSecrets
  /\ lastSecret' = IF vault.key = 0 THEN lastSecret + 1 ELSE lastSecret
  /\ vault' = [vault EXCEPT !.master = ops[i].typed,
                            !.key = IF @ = 0 THEN lastSecret' ELSE @]
  /\ \E f \in ops[i].targets, wrote, fails \in BOOLEAN :
       /\ ~wrote => fails
       /\ LET writes == wrote /\ (files[f] = 0 \/ ops[i].force)
              left == ops[i].targets \ {f}
          IN  /\ files' = IF writes THEN [files EXCEPT ![f] = vault'.key] ELSE files
              /\ lost' = IF writes THEN lost \ {f} ELSE lost
              /\ ops' = [ops EXCEPT ![i].targets = left,
                           ![i].at = IF fails THEN "denied"
                                     ELSE IF left = {} THEN "served" ELSE @]
  /\ UNCHANGED <<keyPass, opened, kept, holder, todo, remembered, prompt, modal, editor,
                 torn, asks>>

\* set_or_reset_vault_master_password: a commit that fails refuses a password
\* that has been changed.  Requests served before it remember the old one.
ServeMasterChange(i) ==
  /\ At(i, "master") /\ (Opens(i) \/ vault.master = NoMaster)
  /\ vault' = [vault EXCEPT !.master = ops[i].next]
  /\ \E at \in {"served", "denied"} :
       /\ ops' = [ops EXCEPT ![i].at = at]
       /\ torn' = IF at = "denied" \/ \E j \in OpSlots \ {i} : ops[j].at = "served"
                  THEN torn \cup {"session"} ELSE torn
  /\ UNCHANGED <<keyPass, opened, kept, files, holder, todo, remembered, prompt, modal,
                 editor, lost, lastSecret, asks>>

Release == holder' = 0 /\ opened' = NoVault

\* reset_vault_password opens the vault and makes a new password.
StartReset(i) ==
  /\ At(i, "vault-reset") /\ Opens(i) /\ vault.key # 0 /\ lastSecret < MaxSecrets
  /\ lastSecret' = lastSecret + 1
  /\ ops' = [ops EXCEPT ![i].made = lastSecret + 1]
  /\ holder' = i /\ opened' = vault /\ todo' = VFiles
  /\ UNCHANGED <<vault, keyPass, kept, files, remembered, prompt, modal, editor, lost,
                 torn, asks>>

Rotating(i) == holder = i /\ ops[i].kind = "vault-reset"

\* rotate_vault_blocks_for_file: in the order of os.walk, one file after the other.
RotateFile(i, f) ==
  /\ Rotating(i) /\ f \in todo
  /\ files[f] \in {0, opened.key}
  /\ files' = IF files[f] = 0 THEN files ELSE [files EXCEPT ![f] = ops[i].made]
  /\ todo' = todo \ {f}
  /\ UNCHANGED <<vault, keyPass, opened, kept, ops, holder, remembered, prompt, modal, editor,
                 lost, torn, lastSecret, asks>>

\* A block that cannot be decrypted, a file that cannot be written or the end
\* of the API: the files rewritten so far keep a password nobody knows.
AbortReset(i) ==
  /\ Rotating(i)
  /\ lost' = lost \cup {f \in VFiles : files[f] = ops[i].made}
  /\ ops' = [ops EXCEPT ![i].at = "denied"]
  /\ Release /\ todo' = {}
  /\ UNCHANGED <<vault, keyPass, kept, files, remembered, prompt, modal, editor, torn,
                 lastSecret, asks>>

\* (Defect: the new password is not stored in the vault.)
FinishWithOldPassword(i) ==
  /\ Rotating(i) /\ todo = {}
  /\ \E at \in {"served", "denied"} : ops' = [ops EXCEPT ![i].at = at]
  /\ Release
  /\ UNCHANGED <<vault, keyPass, kept, files, todo, remembered, prompt, modal, editor,
                 lost, torn, lastSecret, asks>>

\* The new password is stored last, in the vault as it was opened; the commit
\* after it may fail.
FinishReset(i) ==
  /\ Rotating(i) /\ todo = {}
  /\ vault' = [opened EXCEPT !.key = ops[i].made]
  /\ \E at \in {"served", "denied"} : ops' = [ops EXCEPT ![i].at = at]
  /\ Release
  /\ UNCHANGED <<keyPass, kept, files, todo, remembered, prompt, modal, editor, lost,
                 torn, lastSecret, asks>>

\* change_key_passphrase: ssh-keygen rewrites the key with the old passphrase
\* of the vault, then the vault is saved.
StartKeyPassphrase(i) ==
  /\ At(i, "key") /\ Opens(i) /\ keyPass # NoKey /\ Fits(keyPass, vault.pass)
  /\ lastSecret < MaxSecrets /\ lastSecret' = lastSecret + 1
  /\ keyPass' = lastSecret' /\ ops' = [ops EXCEPT ![i].made = lastSecret']
  /\ holder' = i /\ opened' = vault
  /\ UNCHANGED <<vault, kept, files, todo, remembered, prompt, modal, editor, lost,
                 torn, asks>>

\* The vault is saved, or the API ends before: no passphrase opens the key
\* then, and none does if another key came back in between.
FinishKeyPassphrase(i, saved) ==
  /\ holder = i /\ ops[i].kind = "key"
  /\ vault' = IF saved THEN [opened EXCEPT !.pass = ops[i].made] ELSE vault
  /\ torn' = IF saved /\ keyPass = ops[i].made THEN torn \ {"passphrase"}
             ELSE torn \cup {"passphrase"}
  /\ \E at \in {"served", "denied"} : ops' = [ops EXCEPT ![i].at = at]
  /\ Release
  /\ UNCHANGED <<keyPass, kept, files, todo, remembered, prompt, modal, editor, lost,
                 lastSecret, asks>>

\* generate_ssh_keypair: the old key is removed and a new one made under a new
\* passphrase before the vault is opened.
StartKeygen(i) ==
  /\ At(i, "keygen") /\ lastSecret < MaxSecrets
  /\ lastSecret' = lastSecret + 1
  /\ keyPass' = lastSecret' /\ ops' = [ops EXCEPT ![i].made = lastSecret']
  /\ holder' = i
  /\ UNCHANGED <<vault, opened, kept, files, todo, remembered, prompt, modal, editor,
                 lost, torn, asks>>
KeygenFails(i) ==
  /\ At(i, "keygen") /\ keyPass' = NoKey
  /\ ops' = [ops EXCEPT ![i].at = "denied"] /\ torn' = torn \ {"passphrase"}
  /\ UNCHANGED <<vault, opened, kept, files, holder, todo, remembered, prompt, modal,
                 editor, lost, lastSecret, asks>>

\* The passphrase is stored, in a new vault if there is none; or the master
\* password is wrong, or the API ends before: no passphrase opens the new key.
FinishKeygen(i, saved) ==
  /\ holder = i /\ ops[i].kind = "keygen"
  /\ saved => Opens(i) \/ vault.master = NoMaster
  /\ vault' = IF saved THEN [vault EXCEPT !.master = ops[i].typed, !.pass = ops[i].made]
              ELSE vault
  /\ torn' = IF saved /\ keyPass = ops[i].made THEN torn \ {"passphrase"}
             ELSE torn \cup {"passphrase"}
  /\ \E at \in {"served", "denied"} : ops' = [ops EXCEPT ![i].at = at]
  /\ Release
  /\ UNCHANGED <<keyPass, kept, files, todo, remembered, prompt, modal, editor, lost,
                 lastSecret, asks>>

\* set_vault_entries, with a passphrase: what the user typed is stored, whether
\* it opens the key or not.
ServeEntry(i) ==
  /\ At(i, "entry") /\ (Opens(i) \/ vault.master = NoMaster)
  /\ vault' = [vault EXCEPT !.master = ops[i].typed, !.pass = ops[i].made]
  /\ torn' = IF Fits(keyPass, ops[i].made) THEN torn \ {"passphrase"}
             ELSE torn \cup {"passphrase"}
  /\ \E at \in {"served", "denied"} : ops' = [ops EXCEPT ![i].at = at]
  /\ UNCHANGED <<keyPass, opened, kept, files, holder, todo, remembered, prompt, modal,
                 editor, lost, lastSecret, asks>>

\* set_vault_entries, with a vault password: the panel never sends one, but the
\* API takes it; the blocks stay as they are.
SetVaultPassword(v) ==
  /\ Asked /\ holder = 0 /\ vault.master # NoMaster /\ v <= lastSecret + 1
  /\ vault' = [vault EXCEPT !.key = v]
  /\ lastSecret' = IF v > lastSecret THEN v ELSE lastSecret
  /\ lost' = {f \in VFiles : files[f] \notin {0, v}}
  /\ UNCHANGED <<keyPass, opened, kept, files, ops, holder, todo, remembered, prompt,
                 modal, editor, torn>>

\* vault_decrypt and vault_encrypt read the vault without the lock.
ServeValue(i) ==
  /\ ops[i].kind \in ValueKinds /\ ops[i].at = "sent"
  /\ Opens(i) /\ vault.key # 0
  /\ ops[i].kind = "show" => ops[i].made = vault.key
  /\ ops' = [ops EXCEPT ![i].at = "served", ![i].made = vault.key]
  /\ UNCHANGED <<vault, keyPass, opened, kept, files, holder, todo, remembered, prompt, modal,
                 editor, lost, torn, lastSecret, asks>>

\* The API ends before it has answered.
LoseAnswer(i) ==
  /\ ops[i].at = "served"
  /\ ops' = [ops EXCEPT ![i].at = "denied"]
  /\ torn' = IF ops[i].kind = "master" THEN torn \cup {"session"} ELSE torn
  /\ UNCHANGED <<vault, keyPass, opened, kept, files, holder, todo, remembered, prompt, modal,
                 editor, lost, lastSecret, asks>>

-----------------------------------------------------------------------------
(* The answers.                                                              *)

\* An error of a block brings its modal back, closed or not; the other errors
\* are only shown.
AnswerDenied(i) ==
  /\ ops[i].at = "denied"
  /\ ops' = [ops EXCEPT ![i] = NoOp]
  /\ modal' = IF ops[i].kind \in ValueKinds
              THEN [mode |-> ops[i].kind, loading |-> FALSE] ELSE modal
  /\ UNCHANGED <<vault, keyPass, opened, kept, files, holder, todo, remembered, prompt, editor,
                 lost, torn, lastSecret, asks>>

\* setWorkspaceMasterPassword, with the password a request was served for.
PasswordOf(o) ==
  CASE o.kind \in {"key", "keygen", "entry"} -> remembered
    [] o.kind = "master" -> o.next
    [] OTHER -> o.typed

\* A block that was shown brings its modal back; one that was changed goes into
\* the text of whatever file is open, and closes whatever modal is open.
AnswerServed(i) ==
  /\ ops[i].at = "served"
  /\ ops' = [ops EXCEPT ![i] = NoOp]
  /\ remembered' = PasswordOf(ops[i])
  /\ torn' = IF remembered' = vault.master /\ \A j \in OpSlots \ {i} : ops[j].at # "served"
             THEN torn \ {"session"} ELSE torn
  /\ modal' = CASE ops[i].kind = "show" -> [mode |-> "show", loading |-> FALSE]
                [] ops[i].kind = "change" -> NoModal
                [] OTHER -> modal
  /\ editor' = IF ops[i].kind = "change"
             THEN [editor EXCEPT !.block = ops[i].made, !.dirty = TRUE] ELSE editor
  /\ UNCHANGED <<vault, keyPass, opened, kept, files, holder, todo, prompt, lost, lastSecret, asks>>

VaultNext ==
  \/ \E mode \in CredentialKinds : OpenPrompt(mode)
  \/ CancelPrompt
  \/ \E m \in Masters, targets \in SUBSET VFiles, force \in BOOLEAN :
       SubmitPrompt(m, targets, force)
  \/ \E m \in Masters \cup {NoMaster}, n \in Masters : SubmitMasterChange(m, n)
  \/ \E m \in Masters :
       SubmitKeyPassphraseChange(m) \/ SubmitVaultValue(m) \/ SubmitKeygen(m)
  \/ \E m \in Masters, pass \in Secrets \ {0} : SubmitEntry(m, pass)
  \/ \E m \in Masters \cup {NoMaster} : PromptForDeployment(m)
  \/ \E mode \in ValueKinds : OpenVaultValueModal(mode)
  \/ CloseVaultValueModal
  \/ (\E f \in VFiles : OpenFile(f)) \/ TypeText \/ SaveText
  \/ (\E f \in VFiles : RestoreFile(f)) \/ RestoreKey \/ RestoreTree \/ CommitKept
  \/ (\E v \in Secrets \ {0} : SetVaultPassword(v))
  \/ \E i \in OpSlots :
       \/ Refuse(i) \/ ServeGenerate(i) \/ ServeMasterChange(i)
       \/ StartReset(i) \/ (\E f \in VFiles : RotateFile(i, f))
       \/ AbortReset(i) \/ FinishReset(i)
       \/ StartKeyPassphrase(i) \/ StartKeygen(i) \/ KeygenFails(i) \/ ServeEntry(i)
       \/ (\E saved \in BOOLEAN : FinishKeyPassphrase(i, saved) \/ FinishKeygen(i, saved))
       \/ ServeValue(i) \/ LoseAnswer(i) \/ AnswerDenied(i) \/ AnswerServed(i)

VaultSpec == VaultInit /\ [][VaultNext]_vaultVars

-----------------------------------------------------------------------------
(* Properties.                                                               *)

Ops == [kind : CredentialKinds \cup ValueKinds \cup {"none", "master", "key", "keygen", "entry"},
        at : {"idle", "sent", "served", "denied"},
        typed : Masters \cup {NoMaster}, next : Masters \cup {NoMaster},
        targets : SUBSET VFiles, force : BOOLEAN, made : Secrets]

Vaults == [master : Masters \cup {NoMaster}, key : Secrets, pass : Secrets]

VaultTypeOK ==
  /\ vault \in Vaults /\ opened \in Vaults
  /\ kept \in [files : [VFiles -> Secrets], key : Secrets \cup {NoKey}]
  /\ keyPass \in Secrets \cup {NoKey} /\ files \in [VFiles -> Secrets] /\ lastSecret \in Secrets
  /\ ops \in [OpSlots -> Ops]
  /\ holder \in OpSlots \cup {0} /\ todo \subseteq VFiles
  /\ remembered \in Masters \cup {NoMaster}
  /\ prompt \in CredentialKinds \cup {"none"}
  /\ modal \in [mode : ValueKinds, loading : BOOLEAN] \cup {NoModal}
  /\ editor \in [file : VFiles, block : Secrets, dirty : BOOLEAN]
  /\ lost \subseteq VFiles /\ torn \subseteq {"session", "passphrase"}
  /\ asks \in 0..MaxAsks

\* While nothing holds the lock, the vault password opens every block and the
\* passphrase the key.  A block is lost only in a rotation that is cut after it
\* was rewritten, with a text that was opened, or encrypted, before a rotation
\* and saved after it, with a commit of before a rotation, with a vault password
\* that is set and not rotated, or with the vault that a restore of everything
\* removes.  The key is lost when another comes back or the vault goes, when it
\* is made or changed and the vault not saved, for a wrong master password or
\* the end of the API, and with a passphrase the user types
\* (security.py:26-70, 136-357; history/restore.py:78-198).
VaultOpensAll ==
  holder = 0 =>
    /\ \A f \in VFiles \ lost : files[f] \in {0, vault.key}
    /\ "passphrase" \notin torn => Fits(keyPass, vault.pass)

\* The master password this session remembers, and offers to every later
\* action, opens the vault: it is not the one an answer brought late.  It may
\* not open it after a change that was answered with an error, with the vault
\* a restore removed, and when the user has just typed a wrong one
\* (vault.ts:105, 186, 227, 268, 417, 437; workspaceVaultSession.ts:20-52;
\* useWorkspaceDeploymentRuntime.ts:125-152).
SessionOpensVault ==
  \/ remembered \in {NoMaster, vault.master} \/ "session" \in torn
  \/ \E i \in OpSlots : ops[i].kind = "master" /\ ops[i].at = "served"

\* Every password opens what it is kept for, see both (security.py:136-357,
\* vault.ts:105-437).
PasswordsOpen == VaultOpensAll /\ SessionOpensVault
=============================================================================
