---------------------------- MODULE ServerDetails ----------------------------
(* The servers tab (CredentialsForm.tsx, ServerCollectionView): what is typed *)
(* into the fields of a device shows at once and is saved when a field loses  *)
(* the focus (useCredentialServerActions.ts), while other parts of the page   *)
(* load the same host_vars and rewrite them for a color.  Host, port and user *)
(* are one value, the connection; 0 is one of which a field is empty.  The    *)
(* test of the connection that ends a save only colors a dot and is left out; *)
(* so are adding, ordering and removing devices (InventorySync).              *)
EXTENDS Naturals, FiniteSets

CONSTANTS
  Names,     \* aliases
  NoName,    \* no alias, no key: null
  MaxInputs, MaxKeys  \* bounds: user's steps, keys that are generated

ASSUME DetailsAssumption ==
  /\ MaxInputs \in Nat \ {0} /\ MaxKeys \in Nat /\ NoName \notin Names \cup 0..MaxKeys

VARIABLES
  devices,   \* servers: of each alias its device, or NoDevice
  detailAlias, detailActionBusy, \* the dialog of a device
  focus,     \* the device whose connection has the focus: [name, modal]
  hostVars,  \* the API: host_vars/<alias>.yml, [conn, look] or NoHostVars
  keyFile, passphrases,      \* the API: secrets/keys/<alias>, key_passphrase of the vault
  saves, looks, moves, keygens, phrases, \* requests on their way, one step at a time
  hydration, \* the effect that loads the host_vars of all devices, or NoName
  inputs, keysMade,
  meantConn, loose, tangled  \* history: see the properties

deviceState == <<devices, detailAlias, detailActionBusy, focus>>
files == <<hostVars, keyFile, passphrases>>
requests == <<saves, looks, moves, keygens, phrases, hydration>>
detailsHistory == <<meantConn, loose, tangled>>
detailsVars == <<deviceState, files, requests, inputs, keysMade, detailsHistory>>

Conns == 0..MaxInputs            \* the n-th step of the user types the value n
Keys == 1..MaxKeys
Own == 0                         \* a key or passphrase the user brings along
Device == [conn : Conns, look : BOOLEAN, method : {"password", "private_key"},
           key : Keys \cup {Own, NoName}, phrase : Keys \cup {Own, NoName}]
HostVars == [conn : Conns, look : BOOLEAN]
NoDevice == [method |-> "none"]
NoHostVars == [conn |-> 0]            \* without one the fields stay as they are
NoFocus == [name |-> NoName, modal |-> FALSE]
Present == {n \in Names : devices[n] # NoDevice}

DetailsTypeOK ==
  /\ \A n \in Names : (devices[n] = NoDevice \/ devices[n] \in Device) /\ (hostVars[n] = NoHostVars \/ hostVars[n] \in HostVars)
  /\ detailAlias \in {NoName} \cup Names /\ detailActionBusy \in BOOLEAN
  /\ (focus = NoFocus \/ (focus.name \in Names /\ focus.modal \in BOOLEAN))
  /\ keyFile \in [Names -> Keys \cup {NoName}] /\ passphrases \in [Names -> Keys \cup {Own, NoName}]
  /\ \A s \in saves : s.name \in Names /\ s.conn \in Conns /\ s.state \in {"timer", "sent", "applied", "failed"}
  /\ \A l \in looks : l.name \in Names /\ l.state \in {"asked", "read"}
  /\ \A k \in keygens : k.name \in Names /\ k.state \in {"asked", "made", "failed"}
  /\ phrases \subseteq Names /\ loose \subseteq Names /\ tangled \subseteq Names
  /\ meantConn \in [Names -> Conns] /\ inputs \in 0..MaxInputs /\ keysMade \in 0..MaxKeys

NewDevice(c) == [conn |-> c, look |-> FALSE, method |-> "password", key |-> NoName, phrase |-> NoName]
DetailsInit ==
  /\ \E n \in Names, c \in {0, 1} :  \* bound: one device, with or without a connection in its file
       /\ devices = [m \in Names |-> IF m = n THEN NewDevice(c) ELSE NoDevice]
       /\ hostVars = [m \in Names |-> IF m = n /\ c = 1 THEN [conn |-> c, look |-> FALSE] ELSE NoHostVars]
       /\ meantConn = [m \in Names |-> IF m = n THEN c ELSE 0]
  /\ detailAlias = NoName /\ detailActionBusy = FALSE /\ focus = NoFocus
  /\ keyFile = [n \in Names |-> NoName] /\ passphrases = [n \in Names |-> NoName]
  /\ saves = {} /\ looks = {} /\ moves = {} /\ keygens = {} /\ phrases = {} /\ hydration = NoName
  /\ inputs = 1 /\ keysMade = 0 /\ loose = {} /\ tangled = {}

Typed == inputs < MaxInputs /\ inputs' = inputs + 1
Patch(n, field, v) == devices' = IF devices[n] = NoDevice THEN devices ELSE [devices EXCEPT ![n][field] = v]
Of(n, rs) == {r \in rs : r.name = n}

------------------------------------------------------------------------------
(* The connection.                                                             *)
\* onPatchServer: in the list or in the dialog, at every keystroke.
TypeConnection(n, v, modal) ==
  /\ n \in Present /\ Typed /\ v \in {0, inputs'} /\ focus \in {NoFocus, [name |-> n, modal |-> modal]}
  /\ detailAlias = (IF modal THEN n ELSE NoName)  \* the dialog lies over the list
  /\ Patch(n, "conn", v) /\ focus' = [name |-> n, modal |-> modal]
  /\ loose' = (IF hydration # NoName \/ v = 0 THEN loose \cup {n} ELSE loose)
  /\ meantConn' = [meantConn EXCEPT ![n] = v]
  /\ UNCHANGED <<detailAlias, detailActionBusy, files, requests, keysMade, tangled>>

\* handleCredentialFieldBlur: of the saves of an alias only the one that was
\* asked for last survives the 75 ms.
Superseded(n) == {IF s.name = n /\ s.state = "timer" THEN [s EXCEPT !.last = FALSE] ELSE s : s \in saves}
BlurConnection ==
  /\ focus # NoFocus /\ focus' = NoFocus
  /\ LET n == focus.name
     IN  /\ saves' = Superseded(n) \cup {[name |-> n, conn |-> devices[n].conn, state |-> "timer", last |-> TRUE]}
         /\ loose' = IF Of(n, looks) # {} \/ \E s \in Of(n, saves) : s.state # "timer" THEN loose \cup {n} ELSE loose
  /\ UNCHANGED <<devices, detailAlias, detailActionBusy, files, looks, moves, keygens, phrases, hydration, inputs,
                 keysMade, meantConn, tangled>>

PersistServerConnection(s) ==
  /\ s \in saves /\ s.state = "timer"
  /\ saves' = (saves \ {s}) \cup (IF s.last /\ s.conn # 0 THEN {[s EXCEPT !.state = "sent"]} ELSE {})
  /\ UNCHANGED <<deviceState, files, looks, moves, keygens, phrases, hydration, inputs, keysMade, detailsHistory>>

ConnectionWritten(s) ==  \* the API, which creates the file if there is none
  /\ s \in saves /\ s.state = "sent"
  /\ \/ /\ saves' = (saves \ {s}) \cup {[s EXCEPT !.state = "applied"]} /\ UNCHANGED loose
        /\ hostVars' = [hostVars EXCEPT ![s.name] = [conn |-> s.conn, look |-> IF @ = NoHostVars THEN FALSE ELSE @.look]]
     \/ saves' = (saves \ {s}) \cup {[s EXCEPT !.state = "failed"]} /\ loose' = loose \cup {s.name} /\ UNCHANGED hostVars
  /\ UNCHANGED <<deviceState, keyFile, passphrases, looks, moves, keygens, phrases, hydration, inputs, keysMade,
                 meantConn, tangled>>
ConnectionAnswered(s) ==
  /\ s \in saves /\ s.state \in {"applied", "failed"} /\ saves' = saves \ {s}
  /\ UNCHANGED <<deviceState, files, looks, moves, keygens, phrases, hydration, inputs, keysMade, detailsHistory>>

------------------------------------------------------------------------------
(* The dialog.                                                                 *)
OpenDetailModal(n) ==
  /\ n \in Present /\ detailAlias = NoName /\ focus = NoFocus /\ Typed
  /\ detailAlias' = n /\ detailActionBusy' = FALSE  \* the effect on detailAlias
  /\ tangled' = IF Of(n, keygens) # {} THEN tangled \cup {n} ELSE tangled
  /\ UNCHANGED <<devices, focus, files, requests, keysMade, meantConn, loose>>
CloseDetailModal ==  \* the button and the background take the focus first
  /\ detailAlias # NoName /\ focus = NoFocus /\ detailAlias' = NoName /\ detailActionBusy' = FALSE
  /\ UNCHANGED <<devices, focus, files, requests, inputs, keysMade, detailsHistory>>
\* Escape removes the field with the focus: it is not told that it lost it.
EscapeDetail ==
  /\ detailAlias # NoName /\ focus # NoFocus /\ detailAlias' = NoName /\ detailActionBusy' = FALSE
  /\ focus' = NoFocus /\ loose' = loose \cup {focus.name}
  /\ UNCHANGED <<devices, files, requests, inputs, keysMade, meantConn, tangled>>

\* commitAlias: the device, the dialog and the drafts take the new alias; what
\* is on its way keeps the old one, and so do the key and its passphrase.
RenameAlias(n, m) ==
  /\ n \in Present /\ m \notin Present /\ focus = NoFocus /\ Typed /\ detailAlias \in {n, NoName}
  /\ devices' = [devices EXCEPT ![n] = NoDevice, ![m] = devices[n]]
  /\ detailAlias' = (IF detailAlias = n THEN m ELSE NoName) /\ detailActionBusy' = FALSE
  /\ moves' = moves \cup {[from |-> n, to |-> m]}
  /\ hydration' = [space |-> {m}, read |-> [x \in Names |-> NoHostVars]]
  /\ meantConn' = [meantConn EXCEPT ![n] = 0, ![m] = meantConn[n]]
  /\ loose' = IF Of(n, saves) \cup Of(n, looks) \cup Of(m, saves) \cup Of(m, looks) # {} \/ hostVars[m] # NoHostVars
                 \/ moves # {} \/ n \in loose THEN loose \cup {m} ELSE loose
  /\ tangled' = tangled \cup {m}
  /\ UNCHANGED <<focus, files, saves, looks, keygens, phrases, keysMade>>
Moved(r) ==  \* the page's queue of renames has the file moved (InventorySync)
  /\ r \in moves /\ moves' = moves \ {r}
  /\ IF hostVars[r.from] # NoHostVars /\ hostVars[r.to] = NoHostVars
     THEN hostVars' = [hostVars EXCEPT ![r.from] = NoHostVars, ![r.to] = hostVars[r.from]]
     ELSE UNCHANGED hostVars
  /\ loose' = IF Of(r.to, saves) \cup Of(r.to, looks) # {} THEN loose \cup {r.to} ELSE loose
  /\ UNCHANGED <<deviceState, keyFile, passphrases, saves, looks, keygens, phrases, hydration, inputs, keysMade,
                 meantConn, tangled>>

------------------------------------------------------------------------------
(* Colors: the file is read, changed and written as a whole.                   *)
PickColor(n) ==
  /\ n \in Present /\ detailAlias \in {n, NoName} /\ focus = NoFocus /\ Typed
  /\ Patch(n, "look", ~devices[n].look)
  /\ looks' = looks \cup {[name |-> n, look |-> ~devices[n].look, state |-> "asked", conn |-> 0]}
  /\ loose' = IF Of(n, saves) # {} \/ Of(n, looks) # {} \/ moves # {} THEN loose \cup {n} ELSE loose
  /\ UNCHANGED <<detailAlias, detailActionBusy, focus, files, saves, moves, keygens, phrases, hydration, keysMade,
                 meantConn, tangled>>
ReadForLook(l) ==
  /\ l \in looks /\ l.state = "asked"
  /\ looks' = (looks \ {l}) \cup
       {[l EXCEPT !.state = "read", !.conn = hostVars[l.name].conn]}
  /\ UNCHANGED <<deviceState, files, saves, moves, keygens, phrases, hydration, inputs, keysMade, detailsHistory>>
WriteLook(l) ==
  /\ l \in looks /\ looks' = looks \ {l}
  /\ \/ l.state = "read" /\ hostVars' = [hostVars EXCEPT ![l.name] = [conn |-> l.conn, look |-> l.look]]
     \/ UNCHANGED hostVars  \* a request failed
  /\ UNCHANGED <<deviceState, keyFile, passphrases, saves, moves, keygens, phrases, hydration, inputs, keysMade, detailsHistory>>

------------------------------------------------------------------------------
(* loadServerMetaFromHostVars: when the set of aliases changes, every file is  *)
(* read, and all are shown together.                                           *)
Hydrate ==  \* the page is entered
  /\ hydration = NoName /\ focus = NoFocus /\ Typed /\ hydration' = [space |-> Present, read |-> [n \in Names |-> NoHostVars]]
  /\ loose' = loose \cup {n \in Names : Of(n, saves) # {} \/ Of(n, looks) # {}}
  /\ UNCHANGED <<deviceState, files, saves, looks, moves, keygens, phrases, keysMade, meantConn, tangled>>
HydrateRead(n) ==
  /\ hydration # NoName /\ n \in hydration.space
  /\ hydration' = [space |-> hydration.space \ {n}, read |-> [hydration.read EXCEPT ![n] = hostVars[n]]]
  /\ loose' = IF Of(n, saves) # {} \/ focus # NoFocus THEN loose \cup {n} ELSE loose
  /\ UNCHANGED <<deviceState, files, saves, looks, moves, keygens, phrases, inputs, keysMade, meantConn, tangled>>
HydrateShow ==
  /\ hydration # NoName /\ hydration.space = {} /\ hydration' = NoName
  /\ devices' = [n \in Names |->
       IF devices[n] = NoDevice \/ hydration.read[n] = NoHostVars THEN devices[n]
       ELSE [devices[n] EXCEPT !.look = hydration.read[n].look,
                               !.conn = IF hydration.read[n].conn = 0 THEN @ ELSE hydration.read[n].conn]]
  /\ UNCHANGED <<detailAlias, detailActionBusy, focus, files, saves, looks, moves, keygens, phrases, inputs, keysMade, detailsHistory>>
HydrateFails ==
  /\ hydration # NoName /\ hydration' = NoName
  /\ UNCHANGED <<deviceState, files, saves, looks, moves, keygens, phrases, inputs, keysMade, detailsHistory>>

------------------------------------------------------------------------------
(* Keys.                                                                       *)
Credential(n) == n \in Present /\ detailAlias = n /\ focus = NoFocus
UpdateAuthMethod(n, method) ==
  /\ Credential(n) /\ Typed
  /\ devices' = [devices EXCEPT ![n].method = method, ![n].key = IF method = "password" THEN NoName ELSE @]
  /\ UNCHANGED <<detailAlias, detailActionBusy, focus, files, requests, keysMade, detailsHistory>>
ImportKey(n) ==  \* pasted, or read from a file
  /\ Credential(n) /\ devices[n].method = "private_key" /\ Typed /\ Patch(n, "key", Own)
  /\ UNCHANGED <<detailAlias, detailActionBusy, focus, files, requests, keysMade, detailsHistory>>

GenerateAgain(n) ==  \* (Defect: the button is not disabled while a key is generated.)
  /\ Credential(n) /\ devices[n].method = "private_key" /\ devices[n].key = NoName /\ Typed
  /\ detailActionBusy' = TRUE /\ keysMade < MaxKeys /\ keysMade' = keysMade + 1
  /\ keygens' = keygens \cup {[name |-> n, key |-> keysMade', state |-> "asked"]}
  /\ tangled' = IF n \in phrases THEN tangled \cup {n} ELSE tangled
  /\ UNCHANGED <<devices, detailAlias, focus, files, saves, looks, moves, phrases, hydration, meantConn, loose>>
GenerateServerKey(n) ==
  /\ Credential(n) /\ devices[n].method = "private_key" /\ devices[n].key = NoName /\ Typed
  /\ ~detailActionBusy /\ detailActionBusy' = TRUE /\ keysMade < MaxKeys /\ keysMade' = keysMade + 1
  /\ keygens' = keygens \cup {[name |-> n, key |-> keysMade', state |-> "asked"]}
  /\ tangled' = IF n \in phrases THEN tangled \cup {n} ELSE tangled
  /\ UNCHANGED <<devices, detailAlias, focus, files, saves, looks, moves, phrases, hydration, meantConn, loose>>

\* The API replaces the key, then opens the vault for its passphrase: with a
\* wrong master password the key is new and its passphrase lost.
KeyMade(k) ==
  /\ k \in keygens /\ k.state = "asked"
  /\ \/ /\ keygens' = (keygens \ {k}) \cup {[k EXCEPT !.state = "made"]} /\ keyFile' = [keyFile EXCEPT ![k.name] = k.key]
        /\ passphrases' = [passphrases EXCEPT ![k.name] = k.key] /\ UNCHANGED tangled
     \/ /\ keygens' = (keygens \ {k}) \cup {[k EXCEPT !.state = "failed"]} /\ tangled' = tangled \cup {k.name}
        /\ keyFile' = [keyFile EXCEPT ![k.name] = k.key] /\ UNCHANGED passphrases
     \/ /\ keygens' = (keygens \ {k}) \cup {[k EXCEPT !.state = "failed"]} /\ UNCHANGED <<keyFile, passphrases, tangled>>
  /\ UNCHANGED <<deviceState, hostVars, saves, looks, moves, phrases, hydration, inputs, keysMade, meantConn, loose>>
KeyAnswered(k) ==  \* runDetailKeygen, whatever dialog is open by now
  /\ k \in keygens /\ k.state # "asked" /\ keygens' = keygens \ {k} /\ detailActionBusy' = FALSE
  /\ IF k.state = "made" /\ devices[k.name] # NoDevice
     THEN devices' = [devices EXCEPT ![k.name].method = "private_key", ![k.name].key = k.key, ![k.name].phrase = k.key]
     ELSE UNCHANGED devices
  \* the button of another device whose key is still being made is free again
  /\ tangled' = tangled \cup {j.name : j \in {j \in keygens' : j.name # k.name}}
  /\ UNCHANGED <<detailAlias, focus, files, saves, looks, moves, phrases, hydration, inputs, keysMade, meantConn, loose>>

\* saveKeyPassphraseToVault: it is typed and leaves its field.
TypePassphrase(n) ==
  /\ Credential(n) /\ devices[n].method = "private_key" /\ Typed /\ Patch(n, "phrase", Own)
  /\ phrases' = phrases \cup {n} /\ tangled' = IF Of(n, keygens) # {} THEN tangled \cup {n} ELSE tangled
  /\ UNCHANGED <<detailAlias, detailActionBusy, focus, files, saves, looks, moves, keygens, hydration, keysMade,
                 meantConn, loose>>
PassphraseSaved(n) ==
  /\ n \in phrases /\ phrases' = phrases \ {n}
  /\ \/ passphrases' = [passphrases EXCEPT ![n] = Own] /\ UNCHANGED tangled
     \/ tangled' = tangled \cup {n} /\ UNCHANGED passphrases
  /\ UNCHANGED <<deviceState, hostVars, keyFile, saves, looks, moves, keygens, hydration, inputs, keysMade, meantConn, loose>>

DetailsNext ==
  \/ BlurConnection \/ CloseDetailModal \/ EscapeDetail \/ Hydrate \/ HydrateShow \/ HydrateFails
  \/ \E n \in Names :
       \/ OpenDetailModal(n) \/ PickColor(n) \/ HydrateRead(n) \/ ImportKey(n) \/ GenerateServerKey(n)
       \/ TypePassphrase(n) \/ PassphraseSaved(n)
       \/ \E v \in Conns, modal \in BOOLEAN : TypeConnection(n, v, modal)
       \/ \E m \in Names : RenameAlias(n, m)
       \/ \E method \in {"password", "private_key"} : UpdateAuthMethod(n, method)
  \/ \E s \in saves : PersistServerConnection(s) \/ ConnectionWritten(s) \/ ConnectionAnswered(s)
  \/ \E r \in moves : Moved(r)
  \/ \E l \in looks : ReadForLook(l) \/ WriteLook(l)
  \/ \E k \in keygens : KeyMade(k) \/ KeyAnswered(k)

DetailsSpec == DetailsInit /\ [][DetailsNext]_detailsVars

------------------------------------------------------------------------------
\* Saving on blur (handleCredentialFieldBlur, persistServerConnection): when
\* nothing is on its way, the connection that was typed last is in the file of the
\* device and in its fields, unless it was incomplete, its dialog was left with
\* Escape, its save failed, or a save, a rename, a color or a load of the files
\* ran beside it.
ConnectionReachesFile ==
  focus = NoFocus /\ saves = {} /\ looks = {} /\ moves = {} /\ hydration = NoName =>
    \A n \in Present \ loose :
      /\ devices[n].conn = meantConn[n]
      /\ meantConn[n] # 0 => hostVars[n] # NoHostVars /\ hostVars[n].conn = meantConn[n]

\* A generated key that a device shows is the one on the server, and its
\* passphrase is the one in the vault, unless the device was renamed (key and
\* passphrase stay behind), the vault refused, or the dialog was opened again or
\* a passphrase was typed while a key was made (runDetailKeygen, generate_ssh_keypair).
ShownKeyIsStored ==
  keygens = {} /\ phrases = {} =>
    \A n \in Present \ tangled :
      devices[n].key \in Keys => keyFile[n] = devices[n].key /\ passphrases[n] = devices[n].phrase

\* What the dialog of a device shows is what files and vault hold of it
\* (useCredentialServerActions.ts, security.py:227).
DetailsAgree == ConnectionReachesFile /\ ShownKeyIsStored
=============================================================================
