------------------------------ MODULE PageShell ------------------------------
(* The frame of the workspace page: which tab is in front, customer or       *)
(* expert mode and their copies in URL and localStorage; and the session of  *)
(* the browser, which the workspace panel, the Settings tab and the header   *)
(* each read for themselves, with the sign-in dialog of the Settings tab.    *)
EXTENDS Integers

CONSTANTS
  Names, NoName,     \* users who sign in
  Homes, NoHome,     \* workspaces the page opens
  MaxActs

ASSUME ShellAssumption == NoName \notin Names /\ NoHome \notin Homes /\ MaxActs \in Nat

VARIABLES
  storedName, queryName, news,        \* localStorage, ?user= of the URL, an event of it still to come
  copies,                             \* who is signed in as the three of them know it
  address, storedMode,                \* ui_panel and ui_mode of the URL; a mode for each workspace
  front, mode, asksExpert, home,      \* activePanel, deviceMode, expertConfirmOpen, workspaceId
  accountTab, auth,                   \* sub-tab of Settings; its sign-in dialog
  pass,                               \* "mount", "opened" or "render": effects to be run; "idle"
  done, left, revived                 \* actions of the user; history: see the properties

session == <<storedName, queryName, news, copies>>
kept == <<address, storedMode>>
view == <<front, mode, asksExpert, home>>
shellHistory == <<done, left, revived>>
shellVars == <<session, kept, view, accountTab, auth, pass, shellHistory>>

\* The tabs with a rule of their own; "store" stands for those that are always there.
Panels == <<"store", "inventory", "order", "deploy", "account">>
Modes == {"customer", "expert"}
Gated == {"billing", "rbac"}
Readers == {"panel", "account", "header"}
NoDialog == [open |-> FALSE, mode |-> "login", pending |-> "none"]
NoView == [panel |-> "none", mode |-> "none"]
View == [panel |-> front, mode |-> mode]
Front == {Panels[i] : i \in DOMAIN Panels}
\* PANEL_QUERY_TO_KEY: the sub-tabs of Settings have names of their own in a link.
PanelOf(query) == IF query \in Gated THEN "account" ELSE IF query = "none" THEN "store" ELSE query

ShellTypeOK ==
  /\ {storedName, queryName} \subseteq Names \cup {NoName}
  /\ copies \in [Readers -> Names \cup {NoName}]
  /\ address.panel \in Front \cup Gated \cup {"none"} /\ address.mode \in Modes \cup {"none"}
  /\ address.home \in Homes \cup {NoHome}
  /\ storedMode \in [Homes -> Modes \cup {"none"}]
  /\ front \in Front /\ mode \in Modes /\ home \in Homes \cup {NoHome}
  /\ accountTab \in Gated \cup {"general"} /\ auth.pending \in Gated \cup {"none"}
  /\ {news, asksExpert, auth.open, revived} \subseteq BOOLEAN
  /\ pass \in {"mount", "opened", "render", "idle"} /\ done \in 0..MaxActs

\* The page as the server renders it; page.tsx takes tab and workspace from the URL.
Fresh ==
  /\ front = PanelOf(address.panel) /\ home = address.home
  /\ mode = "customer" /\ asksExpert = FALSE /\ accountTab = "general" /\ auth = NoDialog
ShellInit ==
  /\ storedName \in Names \cup {NoName} /\ queryName \in Names \cup {NoName} /\ news = FALSE
  /\ copies = [r \in Readers |-> NoName]
  /\ address \in [panel : {"none", "deploy"} \cup Gated, mode : Modes \cup {"none"},
                    home : Homes \cup {NoHome}]
  /\ storedMode \in [Homes -> Modes \cup {"none"}]
  /\ Fresh /\ pass = "mount"
  /\ done = 0 /\ left = NoView /\ revived = FALSE

------------------------------------------------------------------------------
(* The session.  The listeners run in the order in which they were added: the *)
(* workspace panel, which writes ?user= back, then Settings, then the header. *)
Resolved(name) == IF queryName # NoName THEN queryName ELSE name
Sync(name) ==
  /\ storedName' = Resolved(name)
  /\ copies' = [r \in Readers |-> Resolved(name)]
  /\ UNCHANGED queryName

\* Another window of the browser signs in or out; its event comes later.
ElsewhereSigned ==
  /\ done < MaxActs /\ done' = done + 1
  /\ storedName' \in (Names \cup {NoName}) \ {storedName} /\ news' = TRUE
  /\ UNCHANGED <<queryName, copies, kept, view, accountTab, auth, pass, left, revived>>
StorageEvent ==
  /\ news /\ pass = "idle" /\ Sync(storedName) /\ news' = FALSE /\ pass' = "render"
  /\ revived' = FALSE
  /\ UNCHANGED <<kept, view, accountTab, auth, done, left>>

------------------------------------------------------------------------------
(* Effects run after a rendering, those of the panels before those of the    *)
(* page; what they set is rendered and has effects again.                    *)
MustAsk == accountTab \in Gated /\ copies["account"] = NoName /\ ~auth.open
\* AccountPanel: a gated sub-tab without a session becomes a request to sign in.
GateEffect ==
  IF MustAsk
  THEN accountTab' = "general" /\ auth' = [open |-> TRUE, mode |-> "login", pending |-> accountTab]
  ELSE UNCHANGED <<accountTab, auth>>

\* The mode of a workspace that was opened: of the URL, else the stored one.
ModeOfHome ==
  IF address.mode # "none" THEN address.mode
  ELSE IF home # NoHome /\ storedMode[home] # "none" THEN storedMode[home] ELSE "customer"
StoreMode ==
  storedMode' = IF home = NoHome THEN storedMode ELSE [storedMode EXCEPT ![home] = mode]
WriteAddress == address' = [address EXCEPT !.panel = front, !.mode = mode]

\* The first pass: what it takes from the URL, it sets; what it writes is as it began.
Mount ==
  /\ pass = "mount" /\ pass' = "render"
  /\ Sync(storedName) /\ news' = FALSE
  /\ accountTab' = IF address.panel \in Gated THEN address.panel ELSE "general"
  /\ mode' = ModeOfHome
  /\ StoreMode /\ WriteAddress
  /\ UNCHANGED <<front, asksExpert, home, auth, shellHistory>>

Effects ==
  /\ pass \in {"render", "opened"}
  /\ GateEffect /\ StoreMode /\ WriteAddress
  /\ mode' = IF pass = "opened" /\ home # NoHome THEN ModeOfHome ELSE mode
  /\ asksExpert' = (asksExpert /\ pass # "opened")
  /\ pass' = IF MustAsk \/ mode' # mode THEN "render" ELSE "idle"
  /\ UNCHANGED <<session, front, home, shellHistory>>

------------------------------------------------------------------------------
(* What the user does.  Both dialogs lie over the whole page.                *)
Turn == pass = "idle" /\ done < MaxActs /\ done' = done + 1 /\ left' = NoView
Act == Turn /\ pass' = "render"
NoOverlay == ~auth.open /\ ~asksExpert
OnPage == Act /\ NoOverlay

\* The tabs there are to choose, for the user the header knows of.
Visible(p) ==
  /\ p = "account" => copies["header"] # NoName
  /\ p \in {"inventory", "deploy"} => mode = "expert"
  /\ p = "order" => mode = "customer"
VisiblePanels == {i \in DOMAIN Panels : Visible(Panels[i])}
Adjacent(i, j) == i < j /\ \A k \in VisiblePanels : k <= i \/ j <= k

SelectPanel(p) ==
  /\ OnPage /\ Visible(p) /\ front' = p
  /\ UNCHANGED <<session, kept, mode, asksExpert, home, accountTab, auth, revived>>
\* Back and Next: nothing happens when the tab in front is hidden.
Browse(step) ==
  \E i, j \in VisiblePanels :
    /\ OnPage /\ Panels[i] = front
    /\ IF step = 1 THEN Adjacent(i, j) ELSE Adjacent(j, i)
    /\ front' = Panels[j]
    /\ UNCHANGED <<session, kept, mode, asksExpert, home, accountTab, auth, revived>>

ToggleMode ==
  /\ OnPage
  /\ IF mode = "expert" THEN mode' = "customer" /\ UNCHANGED asksExpert
     ELSE asksExpert' = TRUE /\ UNCHANGED mode
  /\ UNCHANGED <<session, kept, front, home, accountTab, auth, revived>>
AnswerExpert(yes) ==
  /\ Act /\ asksExpert /\ asksExpert' = FALSE
  /\ mode' = IF yes THEN "expert" ELSE mode
  /\ UNCHANGED <<session, kept, front, home, accountTab, auth, revived>>

\* The workspace panel opens a workspace when the page was loaded without one, and
\* another one, or none, when the user chooses or deletes it.
OpenHome(h) ==
  /\ home # h
  /\ IF home = NoHome THEN UNCHANGED <<done, left>> ELSE Turn /\ NoOverlay
  /\ pass = "idle" /\ pass' = "opened"
  /\ home' = h /\ address' = [address EXCEPT !.home = h]
  /\ UNCHANGED <<session, storedMode, front, mode, asksExpert, accountTab, auth, revived>>

\* The button of the header: it signs out, or asks Settings for the dialog.
HeaderAuth ==
  /\ OnPage
  /\ IF copies["header"] # NoName
     THEN /\ storedName' = Resolved(NoName)
          /\ copies' = [r \in Readers |-> IF r = "header" THEN NoName ELSE Resolved(NoName)]
          /\ revived' = (queryName # NoName)
          /\ UNCHANGED auth
     ELSE /\ auth' = IF storedName = NoName THEN [NoDialog EXCEPT !.open = TRUE] ELSE auth
          /\ UNCHANGED <<storedName, copies, revived>>
  /\ UNCHANGED <<queryName, news, kept, view, accountTab>>

InSettings == OnPage /\ front = "account"
SelectTab(t) ==
  /\ InSettings /\ (t = "rbac" => copies["account"] # NoName)
  /\ IF t \in Gated /\ copies["account"] = NoName
     THEN auth' = [open |-> TRUE, mode |-> "login", pending |-> t] /\ UNCHANGED accountTab
     ELSE accountTab' = t /\ UNCHANGED auth
  /\ UNCHANGED <<session, kept, view, revived>>
\* Login and Register of the general sub-tab.
OpenAuth(how) ==
  /\ InSettings /\ copies["account"] = NoName
  /\ auth' = [open |-> TRUE, mode |-> how, pending |-> "none"]
  /\ UNCHANGED <<session, kept, view, accountTab, revived>>
LogoutSilently ==  \* (Defect: nobody is told.)
  /\ InSettings /\ accountTab = "general" /\ copies["account"] # NoName
  /\ storedName' = NoName /\ copies' = [copies EXCEPT !["account"] = NoName]
  /\ UNCHANGED <<queryName, news, kept, view, accountTab, auth, revived>>
Logout ==
  /\ InSettings /\ accountTab = "general" /\ copies["account"] # NoName
  /\ Sync(NoName) /\ auth' = [auth EXCEPT !.pending = "none"]
  /\ UNCHANGED <<news, kept, view, accountTab, revived>>

CloseAuth ==
  /\ Act /\ auth.open /\ auth' = [auth EXCEPT !.open = FALSE, !.pending = "none"]
  /\ UNCHANGED <<session, kept, view, accountTab, revived>>
SwitchAuth ==
  /\ Act /\ auth.open /\ auth' = [auth EXCEPT !.mode = IF @ = "login" THEN "register" ELSE "login"]
  /\ UNCHANGED <<session, kept, view, accountTab, revived>>
\* submitLogin and submitRegister: back to the sub-tab that asked for a session.
SubmitAuth(name) ==
  /\ Act /\ auth.open /\ Sync(name)
  /\ auth' = [auth EXCEPT !.open = FALSE, !.pending = "none"]
  /\ accountTab' = IF auth.pending = "none" THEN accountTab ELSE auth.pending
  /\ revived' = FALSE
  /\ UNCHANGED <<news, kept, view>>

Reload ==
  /\ pass = "idle" /\ done < MaxActs /\ done' = done + 1 /\ pass' = "mount" /\ left' = View
  /\ home' = address.home /\ UNCHANGED <<storedName, queryName, kept>>
  /\ front' = address.panel /\ mode' = "customer" /\ asksExpert' = FALSE
  /\ accountTab' = "general" /\ auth' = NoDialog
  /\ news' = FALSE /\ copies' = [r \in Readers |-> NoName] /\ revived' = FALSE

ShellNext ==
  \/ ElsewhereSigned \/ StorageEvent \/ Mount \/ Effects \/ Reload
  \/ \E p \in Front : SelectPanel(p)
  \/ Browse(1) \/ Browse(-1) \/ ToggleMode \/ HeaderAuth \/ Logout \/ CloseAuth \/ SwitchAuth
  \/ \E yes \in BOOLEAN : AnswerExpert(yes)
  \/ \E h \in Homes \cup {NoHome} : OpenHome(h)
  \/ \E t \in Gated \cup {"general"} : SelectTab(t)
  \/ \E how \in {"login", "register"} : OpenAuth(how)
  \/ \E n \in Names : SubmitAuth(n)

ShellSpec == ShellInit /\ [][ShellNext]_shellVars

------------------------------------------------------------------------------
\* The header, the Settings tab and the workspace panel agree on who is signed
\* in (DeploymentWorkspaceTemplate.tsx:109) once the events of other windows
\* are here, unless the header signed a user out whom ?user= signs in again.
SessionsAgree ==
  pass = "idle" /\ ~news /\ ~revived => \A r \in Readers : copies[r] = storedName

\* A reload brings back the tab and the mode the user left, though its first
\* pass of effects writes those it began with into the URL it reads them from.
ReloadKeepsView == pass = "idle" /\ left # NoView => View = left

\* What the page shows of user, tab and mode is what its storage, the URL and
\* the other readers say (useDeploymentWorkspaceEffects.ts:138).
ShellAgrees == SessionsAgree /\ ReloadKeepsView
=============================================================================
