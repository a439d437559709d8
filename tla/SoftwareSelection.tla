------------------------- MODULE SoftwareSelection --------------------------
(* Apps and bundles enabled and disabled on the servers of a workspace: the  *)
(* buttons with their confirmation and their slow fade, and the question     *)
(* what to do with what a server has when a bundle is enabled.               *)
EXTENDS Naturals, FiniteSets

CONSTANTS RoleApps, Hosts,
          BundleApps,   \* the apps of the one bundle
          OneApp,       \* the app whose button is looked at
          MaxPresses    \* bound on what the user and the other parts do

ASSUME SoftwareSelectionAssumption ==
  /\ BundleApps \subseteq RoleApps /\ OneApp \in RoleApps /\ Hosts # {}
  /\ MaxPresses \in Nat

VARIABLES onHost,      \* the apps selected on each server
          shownHost,   \* activeAlias
          buttons,     \* of the app and of the bundle, on the active server
          mergePrompt, \* the servers the open question is about, none or one
          vainly,      \* the buttons that were confirmed when there was nothing to do
          presses

softwareVars == <<onHost, shownHost, buttons, mergePrompt, vainly, presses>>

Item == {"app", "bundle"}
Button == [confirm : BOOLEAN, label : {"enable", "disable"}, slow : BOOLEAN,
           timer : {"none", "start", "reset"}]
Released == [confirm |-> FALSE, label |-> "enable", slow |-> FALSE,
             timer |-> "none"]

SoftwareTypeOK ==
  /\ onHost \in [Hosts -> SUBSET RoleApps] /\ shownHost \in Hosts
  /\ buttons \in [Item -> Button] /\ mergePrompt \subseteq Hosts
  /\ vainly \subseteq Item /\ presses \in 0..MaxPresses

Press == presses < MaxPresses /\ presses' = presses + 1

-----------------------------------------------------------------------------
AppsOf(i) == IF i = "app" THEN {OneApp} ELSE BundleApps
\* A bundle is enabled when all its apps are.
Enabled(sel, h, i) == AppsOf(i) # {} /\ AppsOf(i) \subseteq sel[h]

\* (Defect: an enabled button leaves the timers of the fade running.)
UnfadeLate(b) == [b EXCEPT !.slow = FALSE, !.label = "enable"]
\* What is enabled fades no longer.
Unfade(b) == [b EXCEPT !.slow = FALSE, !.label = "enable", !.timer = "none"]
\* What is disabled says so at first, and fades slowly.
Fade(b) == [b EXCEPT !.slow = FALSE, !.label = "disable", !.timer = "start"]

\* Buttons follow a selection and an active server that change, however that
\* came.
Follow(before, h, after, g) == [i \in Item |->
  IF Enabled(onHost, shownHost, i) = Enabled(after, g, i) THEN before[i]
  ELSE IF Enabled(after, g, i) THEN Unfade(before[i]) ELSE Fade(before[i])]
Reselect(before, sel, h) ==
  /\ onHost' = sel /\ shownHost' = h
  /\ buttons' = Follow(before, shownHost, sel, h)
  /\ vainly' = {i \in vainly :
       Enabled(sel, h, i) = Enabled(onHost, shownHost, i)}
Select(before, h, S) == Reselect(before, [onHost EXCEPT ![h] = S], shownHost)

-----------------------------------------------------------------------------
(* The question what a bundle does with the apps a server has.               *)

ApplyBundle(before, h, strategy) ==
  Select(before, h, IF strategy = "merge" THEN onHost[h] \cup BundleApps
                    ELSE BundleApps)
RequestEnableBundle(before, h) ==
  IF onHost[h] = {}
  THEN ApplyBundle(before, h, "overwrite") /\ UNCHANGED mergePrompt
  ELSE /\ mergePrompt' = {h} /\ buttons' = before
       /\ UNCHANGED <<onHost, shownHost, vainly>>
\* A cell of the matrix where only some of the apps are selected.
EnablePartial(h) ==
  /\ Press /\ mergePrompt = {} /\ \A i \in Item : ~buttons[i].confirm
  /\ onHost[h] \cap BundleApps \notin {{}, BundleApps}
  /\ RequestEnableBundle(buttons, h)
AnswerMergePrompt(strategy) == \E h \in mergePrompt :
  /\ mergePrompt' = {} /\ ApplyBundle(buttons, h, strategy)
  /\ UNCHANGED presses
CancelMergePrompt ==
  /\ mergePrompt # {} /\ mergePrompt' = {}
  /\ UNCHANGED <<onHost, shownHost, buttons, vainly, presses>>

-----------------------------------------------------------------------------
(* The button of an app or a bundle.                                         *)

Usable == mergePrompt = {} /\ \A i \in Item : ~buttons[i].confirm

\* Enabling stops the fade at once; what is enabled is asked about first.
HandleStateToggle(i) ==
  /\ Press /\ Usable
  /\ IF Enabled(onHost, shownHost, i)
     THEN /\ buttons' = [buttons EXCEPT ![i].confirm = TRUE]
          /\ UNCHANGED <<onHost, shownHost, mergePrompt, vainly>>
     ELSE LET stopped == [buttons EXCEPT ![i] = Unfade(@)] IN
          IF i = "app"
          THEN /\ Select(stopped, shownHost, onHost[shownHost] \cup {OneApp})
               /\ UNCHANGED mergePrompt
          ELSE RequestEnableBundle(stopped, shownHost)

\* A plan of an app is chosen: that enables it.
SelectAppPlan ==
  /\ Press /\ Usable
  /\ Select(buttons, shownHost, onHost[shownHost] \cup {OneApp})
  /\ UNCHANGED mergePrompt

\* The confirmation disables on the server that is active by now, if there is
\* anything to disable by now.
ConfirmDisable(i) ==
  /\ buttons[i].confirm
  /\ LET answered == [buttons EXCEPT ![i] =
           [@ EXCEPT !.confirm = FALSE, !.label = "disable"]]
     IN IF i = "app" \/ Enabled(onHost, shownHost, i)
        THEN /\ onHost' = [onHost EXCEPT ![shownHost] = @ \ AppsOf(i)]
             /\ buttons' = Follow(answered, shownHost, onHost', shownHost)
        ELSE buttons' = answered /\ UNCHANGED onHost
  /\ vainly' = IF Enabled(onHost, shownHost, i) THEN vainly \ {i}
               ELSE vainly \cup {i}
  /\ UNCHANGED <<shownHost, mergePrompt, presses>>
CancelDisable(i) ==
  /\ buttons[i].confirm /\ buttons' = [buttons EXCEPT ![i].confirm = FALSE]
  /\ UNCHANGED <<onHost, shownHost, mergePrompt, vainly, presses>>

\* The timers of the fade.
FadeStart(i) ==
  /\ buttons[i].timer = "start"
  /\ buttons' = [buttons EXCEPT ![i] =
       [@ EXCEPT !.slow = TRUE, !.label = "enable", !.timer = "reset"]]
  /\ UNCHANGED <<onHost, shownHost, mergePrompt, vainly, presses>>
FadeReset(i) ==
  /\ buttons[i].timer = "reset"
  /\ buttons' = [buttons EXCEPT ![i] = [@ EXCEPT !.slow = FALSE, !.timer = "none"]]
  /\ UNCHANGED <<onHost, shownHost, mergePrompt, vainly, presses>>

\* Another server becomes active, or the inventory brings other apps.
ActiveChanges(h) ==
  /\ Press /\ h # shownHost /\ Reselect(buttons, onHost, h)
  /\ UNCHANGED mergePrompt
InventoryBrings(h, S) ==
  /\ Press /\ S # onHost[h] /\ Select(buttons, h, S) /\ UNCHANGED mergePrompt

-----------------------------------------------------------------------------
SoftwareInit ==
  /\ onHost \in [Hosts -> SUBSET RoleApps]
  /\ shownHost = (CHOOSE h \in Hosts : TRUE)
  /\ buttons = [i \in Item |-> Released] /\ mergePrompt = {} /\ vainly = {}
  /\ presses = 0

SoftwareNext ==
  \/ \E i \in Item : \/ HandleStateToggle(i) \/ ConfirmDisable(i)
                     \/ CancelDisable(i) \/ FadeStart(i) \/ FadeReset(i)
  \/ SelectAppPlan \/ CancelMergePrompt
  \/ \E s \in {"merge", "overwrite"} : AnswerMergePrompt(s)
  \/ \E h \in Hosts :
       \/ EnablePartial(h) \/ ActiveChanges(h)
       \/ \E S \in SUBSET RoleApps : InventoryBrings(h, S)

SoftwareSpec == SoftwareInit /\ [][SoftwareNext]_softwareVars

-----------------------------------------------------------------------------
\* A button whose fade is over offers to enable what is disabled, and none
\* fades whose item is enabled (EnableDropdown.tsx), whatever changed the
\* selection meanwhile; excused is a confirmation that found nothing to
\* disable any more: it labels the button for an end that does not come.
ButtonSettles == \A i \in Item \ vainly :
  /\ buttons[i].timer = "none" => buttons[i].label = "enable"
  /\ Enabled(onHost, shownHost, i) =>
       ~buttons[i].slow /\ buttons[i].label = "enable"
=============================================================================
