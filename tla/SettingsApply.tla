--------------------------- MODULE SettingsApply ---------------------------
(***************************************************************************)
(* Applying the selected settings and reading their status:                *)
(* SettingsViewModel, the use cases ApplySettings, SystemSettingsActions,  *)
(* ApplyTaskbarLayout and CheckSettingsStatus, the Windows adapters that   *)
(* write to the PC and the status providers that read it back.             *)
(*                                                                         *)
(* An apply goes through the selected settings one after the other, and    *)
(* each setting is a plan of steps (a registry write, a file, a command)   *)
(* that succeed or fail one by one.  A step that must succeed ends its     *)
(* setting with a failed result, a best-effort step does not; what earlier *)
(* steps wrote stays written.                                              *)
(*                                                                         *)
(* Bounded: MaxAsked settings asked for over all applies, at once in any   *)
(* order or one apply after the other; the failing status reads of         *)
(* UnreadableSets.                                                         *)
(***************************************************************************)
EXTENDS Naturals, Sequences, FiniteSets

CONSTANTS
    RegistrySettings,    \* settings that are one registry value
    UserUpdateSettings,  \* those with requires_user_parameter_update
    ExplorerSettings,    \* those with requires_explorer_restart
    StaticPins,          \* TaskBar/*.lnk resources, but for Chrome's
    ForeignPins,         \* shortcuts the user pinned
    UnreadableSets,      \* which settings a status check may fail to read
    MaxAsked             \* bound on the settings asked for

ActionSettings == {"set_default_wallpaper", "delete_edge_shortcut",
                   "disable_password_expiration", "set_taskbar_icons"}

Settings == RegistrySettings \cup ActionSettings

ASSUME SettingsAssumption ==
    /\ RegistrySettings \cap ActionSettings = {}
    /\ UserUpdateSettings \subseteq RegistrySettings
    /\ ExplorerSettings \subseteq RegistrySettings
    /\ StaticPins \cap ForeignPins = {}
    /\ UnreadableSets \subseteq SUBSET Settings
    /\ MaxAsked \in Nat

\* A wrong variant: the computer's password policy is best effort as well.
BestEffortPolicy == {"public_link", "user_link", "user_flags", "max_age",
                     "update_user_parameters", "stop_explorer", "start_explorer"}

\* Steps whose failure the code swallows.
BestEffort == {"public_link", "user_link", "user_flags",
               "update_user_parameters", "stop_explorer", "start_explorer"}

TaskbarSteps == {"find_resources", "clear_pins", "copy_pins", "pin_chrome",
                 "stop_explorer", "start_explorer"}

WriteSteps == {"value", "background_type", "wallpaper", "desktop_icon",
               "refresh_wallpaper", "public_link", "user_link", "edge_policy",
               "max_age", "user_flags", "user_report", "import_layout",
               "update_user_parameters"}

Steps == TaskbarSteps \cup WriteSteps

RestartPlan == <<"stop_explorer", "start_explorer">>

ActionPlans ==
    [set_default_wallpaper |->
        <<"background_type", "wallpaper", "desktop_icon", "refresh_wallpaper">>,
     delete_edge_shortcut |-> <<"public_link", "user_link", "edge_policy">>,
     disable_password_expiration |-> <<"max_age", "user_flags", "user_report">>,
     set_taskbar_icons |->
        <<"find_resources", "clear_pins", "copy_pins", "pin_chrome",
          "import_layout", "stop_explorer", "start_explorer">>]

\* What applying a setting does, in this order.
Plan(s) == IF s \in RegistrySettings THEN <<"value">> ELSE ActionPlans[s]

\* The writes among them.
Writes(s) == {Plan(s)[i] : i \in DOMAIN Plan(s)} \cap WriteSteps

VARIABLES
    env,          \* test mode, the resources folder, Chrome, file permissions
    phase,        \* "idle", "apply" or "post"
    queue,        \* selected settings still to apply, the current one first
    todo,         \* steps left of the current setting, or of the post commands
    outcome,      \* result of each setting in the current or last apply
    written,      \* <<setting, step>> for what holds on the PC
    pins,         \* pinned .lnk files but for Chrome's
    chromePin,    \* Google Chrome.lnk among the pinned files
    explorer,     \* the Windows shell
    restarts,     \* stops of the shell in this apply
    rows,         \* the status table
    rowsCurrent,  \* was the table read after the last apply?
    asked         \* settings asked for so far

vars == <<env, phase, queue, todo, outcome, written, pins, chromePin,
          explorer, restarts, rows, rowsCurrent, asked>>

pcState == <<written, pins, chromePin, explorer, restarts>>
view == <<rows, rowsCurrent>>

Outcomes == {"none", "applied", "failed", "skipped"}
RowStatus == {"none", "configured", "not_configured", "unknown"}
Envs == [testMode : BOOLEAN, resources : {"ok", "no_reg", "no_folder"},
         chrome : {"exe", "link", "none"}, unlinkWorks : BOOLEAN]

TypeOK ==
    /\ env \in Envs
    /\ phase \in {"idle", "apply", "post"}
    /\ queue \in Seq(Settings)
    /\ todo \in Seq(Steps)
    /\ outcome \in [Settings -> Outcomes]
    /\ written \subseteq (Settings \X WriteSteps)
    /\ pins \subseteq (StaticPins \cup ForeignPins)
    /\ chromePin \in {"none", "valid", "broken"}
    /\ explorer \in {"running", "stopped", "start_failed"}
    /\ restarts \in Nat
    /\ rows \in [Settings -> RowStatus]
    /\ rowsCurrent \in BOOLEAN
    /\ asked \in Nat

NoOutcome == [s \in Settings |-> "none"]
NoRows == [s \in Settings |-> "none"]

\* A PC that was never set up, with the user's own pins, or one that was and
\* whose pinned Chrome may since have been uninstalled.
Init ==
    /\ env \in Envs
    /\ phase = "idle"
    /\ queue = <<>>
    /\ todo = <<>>
    /\ outcome = NoOutcome
    /\ \/ written = {} /\ pins = ForeignPins /\ chromePin \in {"none", "valid"}
       \/ /\ written = UNION {{s} \X Writes(s) : s \in Settings}
          /\ pins = StaticPins
          /\ chromePin \in {"none", "valid", "broken"}
    /\ explorer = "running"
    /\ restarts = 0
    /\ rows = NoRows
    /\ rowsCurrent = FALSE
    /\ asked = 0

-----------------------------------------------------------------------------
(* Status providers *)

Holds(s, steps) == {s} \X steps \subseteq written

\* Names only: a Chrome shortcut counts whatever its target.
TaskbarConfigured == pins = StaticPins /\ chromePin # "none"

Configured(s) ==
    /\ s \in RegistrySettings => Holds(s, {"value"})
    /\ s = "set_default_wallpaper" => Holds(s, {"wallpaper"})
    /\ s = "delete_edge_shortcut" =>
          Holds(s, {"public_link", "user_link", "edge_policy"})
    /\ s = "disable_password_expiration" => Holds(s, {"max_age"})
    /\ s = "set_taskbar_icons" => TaskbarConfigured

\* The rows a status check produces when the settings in unread cannot be
\* read; one that fails leaves the others alone.
Status(unread) ==
    [s \in Settings |->
        IF s \in unread \/ (s = "set_taskbar_icons" /\ env.resources = "no_folder")
        THEN "unknown"
        ELSE IF Configured(s) THEN "configured" ELSE "not_configured"]

ReadRows ==
    /\ \E unread \in UnreadableSets : rows' = Status(unread)
    /\ rowsCurrent' = TRUE

CheckStatus ==
    /\ phase = "idle"
    /\ ReadRows
    /\ UNCHANGED <<env, phase, queue, todo, outcome, asked, pcState>>

-----------------------------------------------------------------------------
(* ApplySettings *)

Selections ==
    {q \in UNION {[1 .. n -> Settings] : n \in 1 .. MaxAsked} :
        \A i, j \in DOMAIN q : q[i] = q[j] => i = j}

\* With nothing selected the table is emptied.
ApplyNothing ==
    /\ phase = "idle"
    /\ rows' = NoRows
    /\ rowsCurrent' = FALSE
    /\ UNCHANGED <<env, phase, queue, todo, outcome, asked, pcState>>

\* Test mode skips every setting and goes straight to the status check.
ApplySelected(q) ==
    /\ phase = "idle"
    /\ asked + Len(q) <= MaxAsked
    /\ asked' = asked + Len(q)
    /\ restarts' = 0
    /\ rowsCurrent' = FALSE
    /\ IF env.testMode
       THEN /\ outcome' = [s \in Settings |->
                 IF \E i \in DOMAIN q : q[i] = s THEN "skipped" ELSE "none"]
            /\ phase' = "post"
            /\ UNCHANGED <<queue, todo>>
       ELSE /\ outcome' = NoOutcome
            /\ phase' = "apply"
            /\ queue' = q
            /\ todo' = Plan(q[1])
    /\ UNCHANGED <<env, written, pins, chromePin, explorer, rows>>

Current == Head(queue)
Step == Head(todo)

InStep(e) == phase \in {"apply", "post"} /\ todo # <<>> /\ Step = e

Applied(s) == outcome[s] = "applied"

\* A wrong variant: the shell is refreshed for what was selected, not for
\* what was applied.
PostPlanOfAttempts(result) ==
    LET attempted == {s \in Settings : result[s] # "none"} IN
    (IF attempted \cap UserUpdateSettings # {}
        THEN <<"update_user_parameters">> ELSE <<>>)
      \o (IF attempted \cap ExplorerSettings # {} THEN RestartPlan ELSE <<>>)

\* The shell is refreshed once, for the settings that were applied; the
\* taskbar has restarted the shell on its own.
PostPlan(result) ==
    LET applied == {s \in Settings : result[s] = "applied"} IN
    (IF applied \cap UserUpdateSettings # {}
        THEN <<"update_user_parameters">> ELSE <<>>)
      \o (IF applied \cap ExplorerSettings # {} THEN RestartPlan ELSE <<>>)

\* The current setting ends and the next one, if any, begins.
Finish(result) ==
    /\ outcome' = [outcome EXCEPT ![Current] = result]
    /\ queue' = Tail(queue)
    /\ IF Tail(queue) = <<>>
       THEN phase' = "post" /\ todo' = PostPlan(outcome')
       ELSE phase' = phase /\ todo' = Plan(Head(Tail(queue)))
    /\ UNCHANGED <<env, asked, view>>

\* The step is done with; the plan goes on.
GoOn ==
    /\ todo' = Tail(todo)
    /\ UNCHANGED <<env, phase, queue, outcome, asked, view>>

\* Every step of the setting went well or was best effort.
FinishSetting == phase = "apply" /\ todo = <<>> /\ Finish("applied") /\ UNCHANGED pcState

\* A registry write, a file deletion or a command took effect.
WriteDone ==
    /\ \E e \in WriteSteps :
          /\ InStep(e)
          /\ written' = IF phase = "apply" THEN written \cup {<<Current, e>>}
                        ELSE written
    /\ GoOn
    /\ UNCHANGED <<pins, chromePin, explorer, restarts>>

\* It failed: a best-effort step is passed over, any other step ends the
\* setting.
WriteFails ==
    /\ \E e \in WriteSteps :
          /\ InStep(e)
          /\ IF e \in BestEffort THEN GoOn ELSE Finish("failed")
    /\ UNCHANGED pcState

\* A wrong variant: the pins are cleared whether or not the resources exist.
FindResourcesUnchecked ==
    /\ InStep("find_resources")
    /\ GoOn
    /\ UNCHANGED pcState

\* WindowsTaskbarConfigurator.validate_resources comes before any change.
FindResources ==
    /\ InStep("find_resources")
    /\ IF env.resources = "ok" THEN GoOn ELSE Finish("failed")
    /\ UNCHANGED pcState

NothingPinned == pins = {} /\ chromePin = "none"

\* A wrong variant: only shortcuts of the resources are deleted.
ClearOwnPins ==
    /\ InStep("clear_pins")
    /\ pins' = pins \ StaticPins /\ chromePin' = "none"
    /\ GoOn
    /\ UNCHANGED <<written, explorer, restarts>>

\* Every pinned .lnk is deleted; the first that cannot be ends the setting.
ClearPins ==
    /\ InStep("clear_pins")
    /\ \/ /\ env.unlinkWorks \/ NothingPinned
          /\ pins' = {} /\ chromePin' = "none"
          /\ GoOn
       \/ /\ ~NothingPinned
          /\ IF env.unlinkWorks
             THEN pins' \in SUBSET pins /\ chromePin' \in {chromePin, "none"}
             ELSE UNCHANGED <<pins, chromePin>>
          /\ Finish("failed")
    /\ UNCHANGED <<written, explorer, restarts>>

CopyPins ==
    /\ InStep("copy_pins")
    /\ \/ pins' = pins \cup StaticPins /\ GoOn
       \/ /\ \E copied \in SUBSET StaticPins : pins' = pins \cup copied
          /\ Finish("failed")
    /\ UNCHANGED <<written, chromePin, explorer, restarts>>

\* A wrong variant: a shortcut that fails its validation is kept.
PinChromeUnvalidated ==
    /\ InStep("pin_chrome")
    /\ IF env.chrome = "none" THEN UNCHANGED chromePin
       ELSE chromePin' \in {"none", "valid", "broken"}
    /\ GoOn
    /\ UNCHANGED <<written, pins, explorer, restarts>>

\* _apply_chrome_shortcut: the shortcut is created from chrome.exe, or copied
\* from the start menu when its target exists, then validated; a shortcut
\* that cannot be created or validated is deleted, if it can be.
PinChrome ==
    /\ InStep("pin_chrome")
    /\ IF env.chrome = "none" THEN UNCHANGED chromePin
       ELSE chromePin' \in {"none", "valid"}
                             \cup (IF env.unlinkWorks THEN {} ELSE {"broken"})
    /\ GoOn
    /\ UNCHANGED <<written, pins, explorer, restarts>>

\* taskkill /F /IM explorer.exe
StopExplorer ==
    /\ InStep("stop_explorer")
    /\ restarts' = restarts + 1
    /\ explorer' \in {explorer, "stopped"}
    /\ GoOn
    /\ UNCHANGED <<written, pins, chromePin>>

\* explorer.exe, whether or not the stop succeeded
StartExplorer ==
    /\ InStep("start_explorer")
    /\ explorer' \in {"running", IF explorer = "running" THEN "running" ELSE "start_failed"}
    /\ GoOn
    /\ UNCHANGED <<written, pins, chromePin, restarts>>

\* apply_selected reads the status again and shows it.
Recheck ==
    /\ phase = "post"
    /\ todo = <<>>
    /\ phase' = "idle"
    /\ ReadRows
    /\ UNCHANGED <<env, queue, todo, outcome, asked, pcState>>

\* A wrong variant: the view model stays busy.
RecheckFailsStaysBusy ==
    /\ phase = "post"
    /\ todo = <<>>
    /\ phase' = "busy"
    /\ UNCHANGED <<env, queue, todo, outcome, asked, pcState, view>>

\* The status check itself raises (no thread can be started): the old table
\* stays, under the message of a completed apply.
RecheckFails ==
    /\ phase = "post"
    /\ todo = <<>>
    /\ phase' = "idle"
    /\ UNCHANGED <<env, queue, todo, outcome, asked, pcState, view>>

-----------------------------------------------------------------------------
Next ==
    \/ CheckStatus \/ ApplyNothing
    \/ \E q \in Selections : ApplySelected(q)
    \/ WriteDone \/ WriteFails \/ FindResources \/ ClearPins \/ CopyPins
    \/ PinChrome \/ StopExplorer \/ StartExplorer \/ FinishSetting
    \/ Recheck \/ RecheckFails

Spec == Init /\ [][Next]_vars

-----------------------------------------------------------------------------
(* Properties *)

\* What a result of success promises: every write but for the Edge links and
\* the flags of single users (tests/test_system_settings_operator.py:25).
Promised(s) == {s} \X (Writes(s) \ {"public_link", "user_link", "user_flags"})

\* A setting reported as applied has been written in full, whatever happened
\* to the settings before and after it and to best-effort steps on the way.
AppliedMeansWritten ==
    \A s \in Settings : Applied(s) => Promised(s) \subseteq written

\* When the apply is over the shell is not left stopped without an attempt to
\* start it again, and it was stopped exactly as often as the applied settings
\* need: once for all of them, once more for the taskbar.
ExplorerRestarts ==
    todo = <<>> /\ phase # "apply" =>
        /\ explorer # "stopped"
        /\ restarts = (IF \E s \in ExplorerSettings : Applied(s) THEN 1 ELSE 0)
                        + (IF Applied("set_taskbar_icons") THEN 1 ELSE 0)

\* A table read after the apply agrees with the results: an applied setting
\* is shown configured or unreadable, but for what the code knowingly passes
\* over: Edge links it could not delete, a Chrome it could not pin.
AppliedIsShown ==
    rowsCurrent /\ phase = "idle" =>
        \A s \in Settings :
            Applied(s) /\ rows[s] = "not_configured" =>
                \/ s = "delete_edge_shortcut"
                      /\ ~Holds(s, {"public_link", "user_link"})
                \/ s = "set_taskbar_icons" /\ chromePin = "none"

\* README.md:173-174: the Chrome pin an apply leaves behind has a target that
\* exists, as long as files in the pinned folder can be deleted.
ChromePinValid ==
    Applied("set_taskbar_icons") /\ env.unlinkWorks => chromePin # "broken"

\* No step touches what belongs to a setting that is not being applied, and
\* no step takes back what an earlier one wrote; the user's pins go only
\* while the taskbar is applied, with complete resources.  Test mode changes
\* nothing, the shell included.
OnlySelectedChange ==
    [][/\ written \subseteq written'
       /\ written' # written =>
            phase = "apply" /\ written' \ written \subseteq {Current} \X WriteSteps
       /\ <<pins, chromePin>>' # <<pins, chromePin>> =>
            /\ phase = "apply" /\ Current = "set_taskbar_icons"
            /\ env.resources = "ok"
       /\ env.testMode => UNCHANGED pcState]_vars

\* docs/API_CONTRACTS.md:105 and README.md:177 say that a Google Chrome.lnk
\* whose target does not exist is not shown as configured.
BrokenChromeIsShown ==
    rowsCurrent /\ phase = "idle" /\ rows["set_taskbar_icons"] = "configured"
        => chromePin = "valid"
=============================================================================
