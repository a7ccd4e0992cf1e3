---------------------------- MODULE PcOperations ----------------------------
(***************************************************************************)
(* The one-shot operations of the Action Center (ActionCenterPanel,        *)
(* RunPcMaintenance, ActivateWindows, ActivateOffice, LaunchProgram and    *)
(* their Windows adapters), the checks that show what they did, and the    *)
(* selection they work on.                                                 *)
(*                                                                         *)
(* An operation is a sequence of steps; the first that fails ends it and   *)
(* nothing is taken back.  Maintenance is followed by a refresh: every     *)
(* check reads the PC, by commands that may fail as well.  Nothing else can *)
(* be clicked until the result's message box is closed (see UiEventLoop),  *)
(* so clicks and what other programs do to the same settings come between  *)
(* operations; only a browser may come back in the middle of its reset.    *)
(*                                                                         *)
(* Bounded: at most MaxEvents operations, clicks, detections and changes   *)
(* of the PC by others; at most one reading fails in a refresh.            *)
(***************************************************************************)
EXTENDS Naturals, Sequences

CONSTANTS
    Browsers,       \* those whose data can be reset
    CommonSettings, \* ids of the check boxes of every Windows
    Win11Settings,  \* and of those for Windows 11 only
    InitialPcs,     \* how the PC may be found
    MaxEvents

\* The commands of set_power_never, by the timeout they set, and the timeouts
\* the power check reads.
Powercfg == <<"monitor-ac", "monitor-dc", "standby-ac", "standby-dc",
              "hibernate-ac", "hibernate-dc">>
Timeouts == {"monitor-ac", "monitor-dc", "standby-ac", "standby-dc",
             "hibernate-ac", "hibernate-dc"}
AcTimeouts == {"monitor-ac", "standby-ac", "hibernate-ac"}

\* What the operations change: items in the recycle bin, timeouts set to
\* never, the shutdown task, the shortcut on the desktop that cancels it, the
\* browsers' user data; and the installed Office, which is only read.
Pcs == [bin : {"empty", "items"},
        never : SUBSET Timeouts,
        task : {"absent", "right", "wrong"},
        shortcut : {"absent", "same", "other"},
        data : [Browsers -> {"absent", "small", "history"}],
        office : {"none", "2021", "2024", "other"}]

ASSUME PcAssumption ==
    /\ InitialPcs \subseteq Pcs
    /\ Browsers \cap {"power_settings", "auto_shutdown_schedule", "recycle_bin"} = {}
    /\ CommonSettings \cap Win11Settings = {}
    /\ MaxEvents \in Nat

WindowsVersions == {"windows_10", "windows_11"}
OfficeVersions == {"2021", "2024"}

\* A configured product key: for a version, or the one without a version.
Keys == [product : {"windows", "office"},
         version : WindowsVersions \cup OfficeVersions \cup {"any"}]
NoKey == [product |-> "none", version |-> "any"]
Clipboards == Keys \cup {[product |-> "none", version |-> v] : v \in {"any", "emptied"}}

Maintenance == {"empty_recycle_bin", "reset_browser", "set_power_never",
                "set_auto_shutdown_at_23"}
Activations == {"windows_activation", "office_activation"}
Kinds == Maintenance \cup Activations \cup {"launch_program"}

\* What an operation is about: a browser, a version, or nothing in particular.
Targets == Browsers \cup WindowsVersions \cup OfficeVersions \cup {"all"}
Jobs == [kind : Kinds, target : Targets]
Results == [status : {"none", "applied", "failed", "skipped"}, copied : BOOLEAN]

Checks == {"power_settings", "auto_shutdown_schedule", "recycle_bin"} \cup Browsers

\* What a row or card can say, by status.
OkTexts == {"never", "scheduled", "empty", "none found", "small"}
UnknownTexts == {"unread", "unreadable", "task unknown", "shortcut unknown"}
WarningTexts == {"timeouts set", "no task", "wrong task", "no source", "no shortcut",
                 "other shortcut", "items", "history"}
Texts == OkTexts \cup UnknownTexts \cup WarningTexts \cup {"raised"}

VARIABLES
    pc,        \* the PC
    appData,   \* is LOCALAPPDATA set?
    testMode,
    phase,     \* "idle", "steps" or "result" (shown, the refresh is next)
    job,       \* the current or last operation
    step,      \* the number of its step under way
    key,       \* the product key it read
    result,    \* ApplyResult or ActivationResult
    clipboard,
    before,    \* PC and clipboard when it began (history)
    rows,      \* PcCheckViewModel.result_rows, by check
    cards,     \* power_option_status_text and auto_shutdown_status_text
    seen,      \* PC at the last refresh (history)
    queried,   \* did a query of the shutdown task answer then? (history)
    sel,       \* radio buttons, check boxes, selected versions, last detections
    events

vars == <<pc, appData, testMode, phase, job, step, key, result, clipboard,
          before, rows, cards, seen, queried, sel, events>>

environment == <<appData, testMode>>
display == <<rows, cards, seen, queried>>

\* windows and office are the radio buttons, chosenWindows and chosenOffice the
\* versions in ActivationViewModel, the texts those detected last.
Selections == [windows : WindowsVersions, office : OfficeVersions,
               chosenWindows : WindowsVersions, chosenOffice : OfficeVersions,
               windowsText : {"none", "unknown"} \cup WindowsVersions,
               officeText : {"unread", "none", "2021", "2024", "other"},
               checked : SUBSET (CommonSettings \cup Win11Settings)]

TypeOK ==
    /\ pc \in Pcs /\ seen \in Pcs
    /\ appData \in BOOLEAN /\ testMode \in BOOLEAN
    /\ phase \in {"idle", "steps", "result"}
    /\ job \in Jobs
    /\ step \in 1..6
    /\ key \in Keys \cup {NoKey}
    /\ result \in Results
    /\ clipboard \in Clipboards
    /\ before \in [pc : Pcs, clipboard : Clipboards]
    /\ rows \in [Checks -> Texts]
    /\ cards \in [power : Texts, shutdown : Texts]
    /\ queried \in BOOLEAN
    /\ sel \in Selections
    /\ events \in Nat

-----------------------------------------------------------------------------
(* The selection *)

\* A wrong variant: the check boxes are hidden, and stay ticked.
HiddenOnly(windows, checked) == checked

\* _sync_win11_only_state: what is for Windows 11 only is cleared with Windows
\* 10.
Offered(windows, checked) ==
    IF windows = "windows_11" THEN checked ELSE checked \ Win11Settings

\* A wrong variant: what is detected is selected as it is.
AnyOffice(text) == text

\* _detect_windows_activation_version, _detect_office_activation_version: what
\* is not recognised counts as the older one.
DetectedWindows(text) == IF text = "windows_11" THEN "windows_11" ELSE "windows_10"
DetectedOffice(text) == IF text = "2024" THEN "2024" ELSE "2021"

\* _apply_detected_windows_selection: only a text that differs from the last
\* one overrides the choice; the radio buttons' own signals are blocked.
WithWindows(s, text) ==
    IF text = s.windowsText THEN s
    ELSE [s EXCEPT !.windowsText = text,
                   !.windows = DetectedWindows(text),
                   !.chosenWindows = DetectedWindows(text),
                   !.checked = Offered(DetectedWindows(text), @)]

\* _apply_detected_office_selection, at the end of every rendering; only a
\* refresh gives it another text.
WithOffice(s, text) ==
    IF text = s.officeText THEN s
    ELSE [s EXCEPT !.officeText = text,
                   !.office = DetectedOffice(text),
                   !.chosenOffice = DetectedOffice(text)]

Another == events < MaxEvents /\ events' = events + 1

Selecting(s) ==
    /\ phase = "idle"
    /\ Another
    /\ sel' = s
    /\ UNCHANGED <<pc, environment, phase, job, step, key, result, clipboard,
                   before, display>>

\* set_detected_windows_text: after the start and at the first entry; the PC's
\* information may have failed to load.
DetectWindows == \E text \in {"unknown"} \cup WindowsVersions :
    Selecting(WithWindows(sel, text))

\* The toggled signal of the radio buttons.
ClickWindows == \E w \in WindowsVersions \ {sel.windows} :
    Selecting([sel EXCEPT !.windows = w, !.chosenWindows = w,
                          !.checked = Offered(w, @)])

ClickOffice == \E o \in OfficeVersions \ {sel.office} :
    Selecting([sel EXCEPT !.office = o, !.chosenOffice = o])

\* Those a user can tick: test mode disables the ones for Windows 11.
Enabled == CommonSettings \cup
           (IF sel.windows = "windows_11" /\ ~testMode THEN Win11Settings ELSE {})

ClickSetting == \E s \in Enabled :
    Selecting([sel EXCEPT !.checked = IF s \in @ THEN @ \ {s} ELSE @ \cup {s}])

SelectAll == Selecting([sel EXCEPT !.checked = @ \cup Enabled])

DeselectAll == Selecting([sel EXCEPT !.checked = {}])

-----------------------------------------------------------------------------
(* Steps of an operation *)

\* A wrong variant: the shortcut before the task.
ShortcutFirst == [k \in Kinds |->
    IF k = "set_power_never" THEN Powercfg
    ELSE IF k = "set_auto_shutdown_at_23" THEN <<"copy", "compare", "register">>
    ELSE IF k = "empty_recycle_bin" THEN <<"empty">>
    ELSE IF k = "reset_browser" THEN <<"kill", "look", "delete">>
    ELSE IF k \in Activations THEN <<"key", "clipboard", "launch">>
    ELSE <<"launch">>]

\* The steps, in the order of the code; those of power are its commands.
Plan == [k \in Kinds |->
    IF k = "set_power_never" THEN Powercfg
    ELSE IF k = "set_auto_shutdown_at_23" THEN <<"register", "copy", "compare">>
    ELSE IF k = "empty_recycle_bin" THEN <<"empty">>
    ELSE IF k = "reset_browser" THEN <<"kill", "look", "delete">>
    ELSE IF k \in Activations THEN <<"key", "clipboard", "launch">>
    ELSE <<"launch">>]

\* The version a click on an activation button is about.
Product(k) == IF k = "windows_activation" THEN "windows" ELSE "office"

Requests ==
    [kind : {"empty_recycle_bin", "set_power_never", "set_auto_shutdown_at_23",
             "launch_program"}, target : {"all"}]
    \cup [kind : {"reset_browser"}, target : Browsers]
    \cup {[kind |-> "windows_activation", target |-> sel.windows],
          [kind |-> "office_activation", target |-> sel.office]}

\* Maintenance shows its result and refreshes; the others end here.
After(j) == IF j.kind \in Maintenance THEN "result" ELSE "idle"

Finish(status, copied) ==
    /\ result' = [status |-> status, copied |-> copied]
    /\ phase' = After(job)
    /\ UNCHANGED step

\* A click, for the risky ones with the question answered by yes.  The safety
\* guard of each use case keeps test mode from doing anything.
Begin == \E j \in Requests :
    /\ phase = "idle"
    /\ Another
    /\ job' = j
    /\ before' = [pc |-> pc, clipboard |-> clipboard]
    /\ key' = NoKey
    /\ IF testMode
       THEN /\ result' = [status |-> "skipped", copied |-> FALSE]
            /\ phase' = After(j)
       ELSE /\ result' = [status |-> "none", copied |-> FALSE]
            /\ phase' = "steps"
    /\ step' = 1
    /\ UNCHANGED <<pc, environment, clipboard, display, sel>>

\* The step under way.
At(name) == phase = "steps" /\ Plan[job.kind][step] = name

\* A step succeeds: on to the next one, or done.
Advance ==
    IF step < Len(Plan[job.kind])
    THEN step' = step + 1 /\ UNCHANGED <<phase, result>>
    ELSE Finish("applied", job.kind \in Activations)

Unmoved == UNCHANGED <<environment, job, before, display, sel, events>>
NoKeyUsed == UNCHANGED <<key, clipboard>>

\* powercfg sets one timeout, or raises with nothing set.
PowerCommand == \E t \in Timeouts :
    /\ At(t)
    /\ \/ pc' = [pc EXCEPT !.never = @ \cup {t}] /\ Advance
       \/ UNCHANGED pc /\ Finish("failed", FALSE)
    /\ NoKeyUsed /\ Unmoved

\* The script registers the task and looks for it; when the answer is an error
\* or empty, the task may have been registered all the same.
Register ==
    /\ At("register")
    /\ \/ pc' = [pc EXCEPT !.task = "right"] /\ Advance
       \/ /\ pc' \in {pc, [pc EXCEPT !.task = "right"]}
          /\ Finish("failed", FALSE)
    /\ NoKeyUsed /\ Unmoved

\* install(): the resource is resolved, the desktop made, the file copied ...
CopyShortcut ==
    /\ At("copy")
    /\ \E s \in {"same", "other"} :
          \/ pc' = [pc EXCEPT !.shortcut = s] /\ Advance
          \/ pc' \in {pc, [pc EXCEPT !.shortcut = s]} /\ Finish("failed", FALSE)
    /\ NoKeyUsed /\ Unmoved

\* A wrong variant: what was copied is not compared.
NotCompared ==
    /\ At("compare")
    /\ Advance
    /\ UNCHANGED pc
    /\ NoKeyUsed /\ Unmoved

\* ... and both files are read and compared.
CompareShortcut ==
    /\ At("compare")
    /\ \/ pc.shortcut = "same" /\ Advance
       \/ Finish("failed", FALSE)
    /\ UNCHANGED pc
    /\ NoKeyUsed /\ Unmoved

\* SHEmptyRecycleBinW; a code other than 0 is a failure.
EmptyRecycleBin ==
    /\ At("empty")
    /\ \/ pc' = [pc EXCEPT !.bin = "empty"] /\ Advance
       \/ pc' \in {pc, [pc EXCEPT !.bin = "empty"]} /\ Finish("failed", FALSE)
    /\ NoKeyUsed /\ Unmoved

\* _kill_processes: best effort.
KillBrowser ==
    /\ At("kill")
    /\ Advance
    /\ UNCHANGED pc
    /\ NoKeyUsed /\ Unmoved

\* A process that survived, or was started again, writes the user data.
BrowserReturns ==
    /\ At("look") \/ At("delete")
    /\ pc.data[job.target] = "absent"
    /\ pc' = [pc EXCEPT !.data[job.target] = "small"]
    /\ UNCHANGED <<phase, step, result>>
    /\ NoKeyUsed /\ Unmoved

\* Without LOCALAPPDATA the reset looks under the working directory and finds
\* nothing to do.
LookForData ==
    /\ At("look")
    /\ IF appData /\ pc.data[job.target] # "absent"
       THEN Advance
       ELSE Finish("applied", FALSE)
    /\ UNCHANGED pc
    /\ NoKeyUsed /\ Unmoved

\* rmtree: it raises at the first file it cannot delete.
Smaller(d) == IF d = "history" THEN {"history", "small"} ELSE {d}

DeleteData ==
    /\ At("delete")
    /\ \/ /\ pc.data[job.target] # "absent"
          /\ pc' = [pc EXCEPT !.data[job.target] = "absent"]
          /\ Advance
       \/ /\ \E d \in Smaller(pc.data[job.target]) :
                pc' = [pc EXCEPT !.data[job.target] = d]
          /\ Finish("failed", FALSE)
    /\ NoKeyUsed /\ Unmoved

\* A wrong variant: any key of the product will do.
SomeKey(product, version, configured) ==
    IF configured = {} THEN NoKey ELSE CHOOSE k \in configured : TRUE

\* _read_first_key: the version's own key, else the one without a version.
FirstKey(product, version, configured) ==
    LET own == [product |-> product, version |-> version]
        common == [product |-> product, version |-> "any"]
    IN  IF own \in configured THEN own
        ELSE IF common \in configured THEN common
        ELSE NoKey

\* The file of keys may be missing, or have no key to the purpose.
ReadKey ==
    /\ At("key")
    /\ \E configured \in SUBSET {k \in Keys : k.product = Product(job.kind)} :
          key' = FirstKey(Product(job.kind), job.target, configured)
    /\ IF key' = NoKey THEN Finish("failed", FALSE) ELSE Advance
    /\ UNCHANGED <<pc, clipboard>>
    /\ Unmoved

\* The clipboard is emptied before the text is put into it.
SetClipboard ==
    /\ At("clipboard")
    /\ \/ clipboard' = key /\ Advance
       \/ /\ clipboard' \in {clipboard, [product |-> "none", version |-> "emptied"]}
          /\ Finish("failed", FALSE)
    /\ UNCHANGED <<pc, key>>
    /\ Unmoved

\* A failed launch of an activation says that the key may be in the clipboard.
\* slui.exe is started by its name.
LaunchActivation ==
    /\ At("launch") /\ job.kind = "windows_activation"
    /\ Advance \/ Finish("failed", TRUE)
    /\ UNCHANGED pc
    /\ NoKeyUsed /\ Unmoved

\* find_excel_executable: the folders of Office, the App Paths of the registry,
\* else just the name, which Windows may not find; only a registry that denies
\* the reading ends the search with an error.
ExcelFound(inFolder, appPath) ==
    IF inFolder THEN "path"
    ELSE IF appPath = "denied" THEN "error"
    ELSE IF appPath = "file" THEN "path"
    ELSE "name"

LaunchExcel ==
    /\ At("launch") /\ job.kind = "office_activation"
    /\ \E inFolder \in BOOLEAN, appPath \in {"file", "missing", "denied"} :
          \/ ExcelFound(inFolder, appPath) # "error" /\ Advance
          \/ Finish("failed", TRUE)
    /\ UNCHANGED pc
    /\ NoKeyUsed /\ Unmoved

\* launch_program: the first of the known places that exists.
LaunchProgram ==
    /\ At("launch") /\ job.kind = "launch_program"
    /\ Advance \/ Finish("failed", FALSE)
    /\ UNCHANGED pc
    /\ NoKeyUsed /\ Unmoved

-----------------------------------------------------------------------------
(* The checks, and what they make of readings that fail *)

\* read_status: one query for everything, or, when that fails or lacks one, a
\* query for each timeout; TRUE for "never", FALSE for a time.
PowerSeen(p, combined, answered) ==
    [t \in IF combined THEN AcTimeouts ELSE answered |-> t \in p.never]

\* A wrong variant: what could not be read is left out of the judgement.
AnsweredNever(readings) ==
    IF \A t \in DOMAIN readings : readings[t] THEN "yes" ELSE "no"

\* is_never: a single timeout that was not read makes the whole unknown.
IsNever(readings) ==
    IF DOMAIN readings # AcTimeouts THEN "unknown"
    ELSE IF \A t \in AcTimeouts : readings[t] THEN "yes"
    ELSE "no"

\* PowerSettingsCheck
PowerText(p, combined, answered) ==
    LET never == IsNever(PowerSeen(p, combined, answered))
    IN  IF never = "unknown" THEN "unreadable"
        ELSE IF never = "yes" THEN "never"
        ELSE "timeouts set"

\* get_task: schtasks, and PowerShell when that fails or is incomplete; an
\* error that reads like "not found" counts as the task's absence, and so does
\* an empty answer.  ("not found" is such an error of another cause, say of a
\* command that is not there; that of a missing task is an answer.)
TaskSeen(p, schtasks, powershell) ==
    IF schtasks = "answers" THEN p.task
    ELSE IF schtasks = "not found" THEN "absent"
    ELSE IF powershell = "answers" THEN p.task
    ELSE IF powershell \in {"not found", "silent"} THEN "absent"
    ELSE "error"

\* Whether what it returns comes from the Task Scheduler.
TaskAnswered(schtasks, powershell) ==
    schtasks = "answers" \/ (schtasks = "fails" /\ powershell = "answers")

\* WindowsAutoShutdownCancelShortcut.check
ShortcutText(p, reading) ==
    IF reading = "raises" THEN "raised"
    ELSE IF reading = "no source" THEN "no source"
    ELSE IF p.shortcut = "absent" THEN "no shortcut"
    ELSE IF reading = "unreadable" THEN "shortcut unknown"
    ELSE IF p.shortcut = "same" THEN "scheduled"
    ELSE "other shortcut"

\* AutoShutdownScheduleCheck: the shortcut matters only with the right task.
ShutdownText(p, schtasks, powershell, reading) ==
    LET task == TaskSeen(p, schtasks, powershell)
    IN  IF task = "error" THEN "task unknown"
        ELSE IF task = "absent" THEN "no task"
        ELSE IF task = "wrong" THEN "wrong task"
        ELSE ShortcutText(p, reading)

\* RecycleBinCheck
BinText(p, answers) == IF ~answers THEN "unreadable" ELSE p.bin

\* BrowserHistoryCheck: looks where LOCALAPPDATA says or, without it, in the
\* user's home.
BrowserText(p, b) ==
    IF p.data[b] = "absent" THEN "none found" ELSE p.data[b]

\* _short_policy_status: a text is judged by the words in it, those of doubt
\* first; the messages about the shortcut have none of them.
PolicyStatus(text) ==
    IF text \in UnknownTexts THEN "unknown"
    ELSE IF text \in {"timeouts set", "no task", "wrong task"} THEN "attention"
    ELSE IF text \in {"never", "scheduled"} THEN "normal"
    ELSE "attention"

\* _classroom_summary_value
ClassroomFine ==
    PolicyStatus(cards.power) = "normal" /\ PolicyStatus(cards.shutdown) = "normal"

\* The text of a check when everything can be read, and what else it may be.
Healthy(p) ==
    [c \in Checks |->
        IF c = "power_settings" THEN PowerText(p, TRUE, {})
        ELSE IF c = "auto_shutdown_schedule"
             THEN ShutdownText(p, "answers", "answers", "readable")
        ELSE IF c = "recycle_bin" THEN BinText(p, TRUE)
        ELSE BrowserText(p, c)]

PowerShellAnswers == {"answers", "not found", "silent", "garbled"}

\* A reading: the texts, and whether a query of the task answered.
Reading(texts, a) == [texts |-> texts, answered |-> a]

TaskReading(p, schtasks, powershell) ==
    Reading([Healthy(p) EXCEPT !["auto_shutdown_schedule"] =
                 ShutdownText(p, schtasks, powershell, "readable")],
            TaskAnswered(schtasks, powershell))

FaultyTask(p) == {TaskReading(p, "not found", w) : w \in PowerShellAnswers}
                 \cup {TaskReading(p, "fails", w) : w \in PowerShellAnswers}

FaultyShortcut(p) ==
    {Reading([Healthy(p) EXCEPT !["auto_shutdown_schedule"] =
                  ShutdownText(p, "answers", "answers", r)], TRUE) :
        r \in {"raises", "no source", "unreadable"}}

Readings(p) ==
    {Reading(Healthy(p), TRUE)} \cup FaultyTask(p) \cup FaultyShortcut(p)
    \cup {Reading([Healthy(p) EXCEPT !["power_settings"] = PowerText(p, FALSE, a)], TRUE) :
            a \in SUBSET AcTimeouts}
    \cup {Reading([Healthy(p) EXCEPT !["recycle_bin"] = BinText(p, FALSE)], TRUE)}

\* run_checks and the rendering that follows, after an operation or by the
\* button: a check that raised gives an error row and leaves its card alone.
Refresh ==
    /\ \/ phase = "result" /\ UNCHANGED events
       \/ phase = "idle" /\ Another
    /\ phase' = "idle"
    /\ \E r \in Readings(pc) :
        /\ rows' = r.texts
        /\ cards' = [power |-> rows'["power_settings"],
                     shutdown |-> IF rows'["auto_shutdown_schedule"] = "raised"
                                  THEN cards.shutdown
                                  ELSE rows'["auto_shutdown_schedule"]]
        /\ queried' = r.answered
    /\ seen' = pc
    /\ sel' = WithOffice(sel, pc.office)
    /\ UNCHANGED <<pc, environment, job, step, key, result, clipboard, before>>

\* Users and other programs, between operations.
PcChanges ==
    /\ phase = "idle"
    /\ Another
    /\ pc' \in {[pc EXCEPT !.bin = "items"], [pc EXCEPT !.task = "absent"],
                [pc EXCEPT !.shortcut = "absent"],
                [pc EXCEPT !.never = @ \ {"monitor-ac", "standby-dc"}],
                [pc EXCEPT !.data = [b \in Browsers |-> "history"]],
                [pc EXCEPT !.office = "2024"]}
    /\ UNCHANGED <<environment, phase, job, step, key, result, clipboard, before,
                   display, sel>>

-----------------------------------------------------------------------------

NoJob == [kind |-> "launch_program", target |-> "all"]

\* The page as built: the first rendering has already put the Office that is
\* not known yet through the detection.
Init ==
    /\ pc \in InitialPcs
    /\ appData \in BOOLEAN /\ testMode \in BOOLEAN
    /\ phase = "idle" /\ job = NoJob /\ step = 1 /\ key = NoKey
    /\ result = [status |-> "none", copied |-> FALSE]
    /\ clipboard = NoKey
    /\ before = [pc |-> pc, clipboard |-> clipboard]
    /\ rows = [c \in Checks |-> "unread"]
    /\ cards = [power |-> "unread", shutdown |-> "unread"]
    /\ seen = pc /\ queried = TRUE
    /\ sel = [windows |-> "windows_10", office |-> "2021",
              chosenWindows |-> "windows_10", chosenOffice |-> "2021",
              windowsText |-> "none", officeText |-> "unread", checked |-> {}]
    /\ events = 0

MaintenanceStep == \/ PowerCommand \/ Register \/ CopyShortcut \/ CompareShortcut
                   \/ EmptyRecycleBin \/ KillBrowser \/ BrowserReturns
                   \/ LookForData \/ DeleteData

LaunchStep == LaunchActivation \/ LaunchExcel \/ LaunchProgram

ActivationStep == ReadKey \/ SetClipboard \/ LaunchStep

Select == \/ DetectWindows \/ ClickWindows \/ ClickOffice \/ ClickSetting
          \/ SelectAll \/ DeselectAll

Next == Begin \/ MaintenanceStep \/ ActivationStep \/ Refresh \/ Select \/ PcChanges

Spec == Init /\ [][Next]_vars

-----------------------------------------------------------------------------
(* Properties *)

\* What an operation promises, and what a check calls all right.
InForce(j, p) ==
    /\ j.kind = "set_power_never" => p.never = Timeouts
    /\ j.kind = "set_auto_shutdown_at_23" => p.task = "right" /\ p.shortcut = "same"
    /\ j.kind = "empty_recycle_bin" => p.bin = "empty"
    /\ j.kind = "reset_browser" => p.data[j.target] = "absent"

Fine(c, p) ==
    /\ c = "power_settings" => AcTimeouts \subseteq p.never
    /\ c = "auto_shutdown_schedule" => p.task = "right" /\ p.shortcut = "same"
    /\ c = "recycle_bin" => p.bin = "empty"
    /\ c \in Browsers => p.data[c] # "history"

\* An operation reported as applied has in force all it promises when its
\* result is shown, whatever failed silently on the way: the mains and the
\* battery timeouts, the shutdown together with the shortcut that cancels it,
\* the browser's data gone although the browser may have come back.  Only
\* without LOCALAPPDATA a reset says it is done and did nothing.
AppliedIsInForce ==
    (phase = "result" /\ result.status = "applied")
        => InForce(job, pc) \/ (job.kind = "reset_browser" /\ ~appData)

\* The timeouts set by the first n commands.
FirstTimeouts(n) == {Powercfg[i] : i \in 1..n}

\* While an operation runs and when it has failed, the PC differs from before
\* by a beginning of that operation and by nothing else: timeouts set in
\* order, a shortcut only with the task it cancels, only the browser that was
\* asked for, and nothing at all by an activation, a launch or in test mode.
FailureIsPrefix ==
    phase \in {"steps", "result"} =>
        LET old == before.pc
            kind == IF result.status = "skipped" THEN "none" ELSE job.kind
        IN  /\ kind = "set_power_never" =>
                  \E n \in 0..6 : pc = [old EXCEPT !.never = @ \cup FirstTimeouts(n)]
            /\ kind = "set_auto_shutdown_at_23" =>
                  /\ pc = [old EXCEPT !.task = pc.task, !.shortcut = pc.shortcut]
                  /\ pc.task \in {old.task, "right"}
                  /\ pc.shortcut # old.shortcut => pc.task = "right"
            /\ kind = "empty_recycle_bin" => pc = [old EXCEPT !.bin = pc.bin]
            /\ kind = "reset_browser" =>
                  \E d \in {"absent", "small", "history"} :
                      pc = [old EXCEPT !.data[job.target] = d]
            /\ kind \in {"none", "launch_program"} \cup Activations => pc = old

\* Of the PC the refresh read, a row that says it is all right is right, and
\* one that warns has a reason, whichever reading failed; the task is called
\* missing when it is missing, and called another one when it is.  The one
\* exception is a task called missing although no query of it answered (see
\* FailedQueryIsUnknown).  The card of the classroom's policy is no better than
\* the rows.
RowsTellTruth ==
    /\ \A c \in Checks :
          /\ rows[c] \in OkTexts => Fine(c, seen)
          /\ rows[c] \in WarningTexts =>
                 \/ ~Fine(c, seen)
                 \/ rows[c] = "no source"
                 \/ rows[c] = "no task" /\ ~queried
    /\ rows["auto_shutdown_schedule"] = "no task" /\ queried => seen.task = "absent"
    /\ rows["auto_shutdown_schedule"] = "wrong task" => seen.task = "wrong"
    /\ ClassroomFine /\ rows["auto_shutdown_schedule"] # "raised" =>
          \A c \in {"power_settings", "auto_shutdown_schedule"} : Fine(c, seen)

\* When no query of the shutdown task answered although it is registered, its
\* row says that the task is not known (docs/SAFETY_POLICY.md:100).  The code
\* fails this: an error that reads like "not found", or no answer at all, makes
\* the task a missing one.
FailedQueryIsUnknown ==
    ~queried /\ seen.task # "absent" => rows["auto_shutdown_schedule"] = "task unknown"

\* After an activation the clipboard holds what the message says: a key of the
\* version that was chosen, or the one without a version, whenever it says so,
\* also when the launch failed; and never a key it does not speak of.
KeyIsOfChoice ==
    (phase = "idle" /\ job.kind \in Activations) =>
        IF result.copied
        THEN clipboard.product = Product(job.kind)
             /\ clipboard.version \in {job.target, "any"}
        ELSE clipboard \in {before.clipboard, [product |-> "none", version |-> "emptied"]}

\* Clicks, detections and refreshes in any order leave the radio buttons and
\* the versions an activation would use in agreement, and nothing selected
\* that the chosen Windows does not have.
SelectionAgrees ==
    /\ sel.windows = sel.chosenWindows /\ sel.office = sel.chosenOffice
    /\ sel.windows = "windows_10" => sel.checked \cap Win11Settings = {}

=============================================================================
