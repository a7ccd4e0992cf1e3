# SKHU PC Management: specifications

TLA+ models of the desktop tool in `src/src/skhu_pc_management`, model-checked
with TLC and partly proved with TLAPS. The tool (Python, PySide6) sets up
classroom PCs: it applies Windows settings and a taskbar layout, changes network
addresses, runs maintenance and checks, prepares activations and reports the PC
to a server. It keeps nothing of its own on disk; its state is what the GUI
shows and what it changed on the PC. What can go wrong is therefore the order
in which handlers, message boxes and timers run, the half-done change when one
step of several fails, and a display that no longer agrees with the PC.

## The system

| Component | State | Operations | Talks to | Hard behaviour |
|---|---|---|---|---|
| GUI event loop: `busy_coordinator`, `main_window`, panels | busy flag, page, pages loaded once, open message boxes, timers | clicks, posted events, message box answers | every view model | message boxes run the event loop inside a handler; auto-send timer; first-entry loads |
| Startup coordinator | step results | admin check, PC info, settings status, PC checks | view models | one of several steps failing |
| Applying settings: `SettingsViewModel`, `ApplySettings`, `SystemSettingsActions`, operator | results, status table | apply selected, check status | registry, files, PowerShell, taskbar, shell | several writes per setting, best-effort steps, post commands |
| Settings status: `CheckSettingsStatus`, providers | rows | check | registry, files, `net accounts` | thread pool; a failing provider; what counts as configured |
| Taskbar configurator | pinned shortcuts, layout, shell | validate, apply | files, COM, `reg import`, `taskkill` | destructive first step, shortcut that is not valid |
| Network: `NetworkViewModel`, `ApplyStaticIp`, `SetDhcp`, netsh adapter | adapters, selected, combo box | load, choose, static address, DHCP | netsh, PowerShell | several commands per change, Windows lists late |
| Agent report: view model, `BuildAgentReport`, HTTP client | last result, token status | send | server, all readers | retries, lost and late answers, optional data |
| PC checks and installed programs | rows, cards | run, list | registry, PowerShell, web | nested thread pools, readings that fail, version comparison |
| Activation | selected versions, last detection | copy key, launch | clipboard, Excel, settings app | key stays in the clipboard after a failure |
| Maintenance | none | recycle bin, browser reset, power, auto shutdown | shell, files, task scheduler | half-done sequences, effects without a word |
| Program launch, PC rename | none | one call each | process launcher, settings app | none beyond the busy flag |
| PC information | shown fields | read | WMI, DXGI, registry | merging of sources (algorithms) |
| Wiring, widgets, styles, logging | none | none | | |

What makes each correct, in one line: the **event loop** has one job at a time,
never drops what the user confirmed, sends the automatic report once and comes
to rest; an **applied setting** was written in full and nothing else changed; a
**status** agrees with the PC; the **taskbar** keeps the user's pins unless the
layout can be applied; a **network change** reaches the chosen adapter only and
what is reported done is in force; a **report** shown as sent is stored; a
**check** says what it read in this refresh, or that it could not; a
**maintenance** operation that is reported as applied is in force in full, and
one that failed left a beginning of itself and nothing else; an **activation**
copies a key of the chosen version; the **PC information** is right whichever
source is silent, or says that it does not know.

`PROJECT.json` lists all components with their status and the hazards with their
lines.

## Modules

| Module | Models | Checked by | Proofs |
|---|---|---|---|
| `UiEventLoop` | the GUI thread | `UiEventLoop.cfg`, `UiDocumented.cfg` | `UiEventLoopProofs` |
| `ExclusiveJobs` | abstract: what the busy flag and the auto-send promise | implemented by `UiEventLoop` | |
| `SettingsApply` | applying settings, taskbar, shell, status | `SettingsApply.cfg`, `SettingsChrome.cfg` | `SettingsApplyProofs`, `SettingsShellProofs` |
| `NetworkConfig` | the network page, its question and netsh | `MCNetworkConfig` with `NetworkConfig.cfg` | `NetworkConfigProofs` |
| `AgentReport` | collecting, posting, retrying | `AgentReport.cfg` | `AgentReportProofs` |
| `ReportDelivery` | abstract: delivery at least once for what is confirmed | implemented by `AgentReport` | |
| `StatusRefresh` | the refresh of the Action Center, its pools and both tables | `MCStatusRefresh` with `StatusRefresh.cfg`, `StatusIsolated.cfg` | `StatusRefreshProofs` |
| `PcOperations` | maintenance, activation, launch, the checks that follow and the selection | `MCPcOperations` with `PcOperations.cfg`, `PcTask.cfg` | `PcOperationsProofs` |
| `PcInfoReader` | Windows version, firmware, graphics, disks from several sources | through `PcInventory` | |
| `NetworkIdentity` | the active adapter and the page's listing | through `PcInventory` | |
| `ProgramChecks` | programs, versions, Office, browser data | through `PcInventory` | |
| `Lists` | external: Python's list comprehension and `sorted()` | through the readers | lemmas in `PcInventoryProofs` |
| `PcInventory` | composes the three readers over a PC that changes | `MCPcInventory` with `PcInventory.cfg`, `PcDocumented.cfg` | `PcInventoryProofs` |

Operators named "a wrong variant" are never part of `Next`: each is a plausible
bug that the property it belongs to must catch.

### UiEventLoop

Qt runs one handler at a time, and a handler that blocks freezes the thread, so a
handler is atomic up to the message box it opens. There the box's own event loop
goes on delivering posted events and timers. `dialogs` is the stack of suspended
handlers, `posted` the queue of `QTimer.singleShot(0, ...)` events, `autoTimer`
the running single-shot timer of the report. `Dispatch` delivers the head of the
queue to its handler, `TimerExpires` posts the report, `AnswerAny` answers the
top box and runs the rest of its handler, `ClickAny` is a click in the main
window: possible only without a message box (they are modal) and while the tool
is not busy (`_on_busy_changed` disables the window). Every handler that takes
the busy flag is there; what it does in between is one step here and is taken
apart in the other modules.

* `BusyHasOneOwner`: the flag is held by the handler under the top box; hence
  `ConfirmedNeverRefused` (proved only): a change that was confirmed never finds
  the tool busy.
* `AutoSendExactlyOnce`, `AutoSendHappens`: the token of the automatic report is
  created once, survives every re-arming and is spent once, if the user pauses.
* `TestModeInert`: in test mode nothing changes the PC. The buttons of changes are
  disabled, but for the recycle bin's: its question, the busy flag and the use case
  run as always, and only the use case's guard (`Blocked`) keeps the change away.
* `ComesToRest`: the flag is given back and the loop is idle at last.
* `BoxesDoNotPileUp`: a handler suspended under a message box is suspended under
  one more at most, the notice of the automatic report, and only if it does not
  hold the flag: opening boxes is not a way for timers to nest handlers.
* `ImplementsExclusiveJobs`: from one job to the next only through idle.

### SettingsApply

A setting is a plan of steps (`Plan`): a registry write, a file, a command. A
step succeeds or fails; `BestEffort` ones go on, others end the setting
(`WriteFails`); after the last setting the post commands run for what was
applied (`PostPlan`), then the status is read again (`Recheck`). `written`
holds what is in force on the PC, `pins` and `chromePin` the pinned shortcuts,
`explorer` the shell. `Init` has a PC never set up and one set up before, whose
Chrome may have been uninstalled since. `Configured` is what each provider
looks at, no more.

* `AppliedMeansWritten`: success promises every write but three best-effort ones.
* `ExplorerRestarts`: exactly as many restarts as the applied settings need, and
  never a shell stopped without an attempt to start it.
* `AppliedIsShown`: the table read after an apply agrees with the results, but
  for Edge links that could not be deleted and a Chrome that could not be pinned,
  which the code passes over on purpose.
* `ChromePinValid`, `OnlySelectedChange` (including test mode).

### NetworkConfig

`real` is the configuration of the adapters, `listed` what Windows lists, which
follows at any later time (`Settle`). A click asks a question (`Ask`), and the
question's event loop may deliver the load that the page's first visit posted
(`FirstVisit`, `Loading` in phase `asking`): combo box, table and form are then
filled anew, and the answer is about them. `AnswerNo`, `Refuse` (bad fields, no
adapter) or `Start` follow. `Start` translates the form into netsh commands;
`RunCommand` or `CommandFails`, one at a time; `Reload` and `ReloadRaises` are
the up to three listings after a success. A listing may miss adapters or not know
whether DHCP is on. The combo box keeps the names of the last load while the
table follows the reload. Where `form` came from is remembered, because the
fields are not cleared when nothing is selected (`_fill_from_selected_adapter`).

* `AppliedIsReal`, `ChangeIsPrefix`: a success is in force in full, a failure
  leaves what a beginning of the commands makes: nothing, the new address with the
  old servers, the address with the first server alone, or all of it.
* `OnlyAskedAdapterChanges`: the change goes to the adapter the question was
  asked about, unless the first load came in between; table and form agree with
  it. The exception `form.kept` is a case the code has: the user picks in the
  combo box an adapter the last reload no longer listed, the table is emptied and
  the fields still show the other adapter's address.
* `ReloadTriesEnough`: before its last attempt the reload ends only when the table
  shows the address asked for; a stale listing, or one without the adapter, is not
  taken while attempts are left. After a switch to DHCP a listing that does not
  know whether DHCP is on counts as well, which is what the code looks at.
* `ChangeEnds`: with success or not, the panel gets the busy flag back.

### AgentReport

`stored` is the server's log, `late` the posts the client gave up that may
still arrive. A post is answered, refused, stored without a good answer, or
timed out (`PostAnswered`, `PostRefused`, `PostUnanswered`, `PostTimesOut`);
the last three go on with the next attempt or give up (`AttemptFails`).
Collecting the PC's own data may fail the report, the optional lists may not.
The token file may change at any time; it is read for every post, and an
unreadable one fails the attempt.

* `SuccessMeansStored`, `ShownGoesForward`: what is shown as sent is the entry
  of the current report, late copies never show.
* `CopiesBounded`: never more copies than posts. (Copies there are: the client
  sends nothing by which the server could know a repeated report.)
* `GivesUpOnlyWithCause`, `SendEnds`, `DeliveryImplemented`.

The guard on `AgentReportViewModel.is_busy` is left out: `send_report` holds the
GUI thread from setting it to clearing it, so no call can find it set.

### StatusRefresh

`_refresh_status_data` runs two scopes, `settings` and `pc_checks`, in a pool of
two threads; each makes a pool of its own. `task` holds the tasks of an inner
pool: unsubmitted, queued, running, finished. `TakeTask` and `FinishTask` are the
threads of the pool, `Collect` the loop over `as_completed`, `RunScope` the
submitting and `EndScope` or `EndFailedScope` the view model that takes the list
of results or the exception. `StartRefresh` and `EndRefresh` are the GUI thread,
which waits in between. `pc` is what each check would find at this moment; it may
change in the middle of a refresh (`PcChanges`), and `seen` remembers what could
have been found since it began.

A check in `MayRaise` may raise. `CheckSettingsStatus` turns that into a row of
the same setting; `RunPcChecks` into a result whose id is the class of the check,
which is what `Finding` says. A thread that cannot be started makes `submit`
raise: in an inner pool the scope fails, and its rows become none; in the outer
pool the first failing starts nothing (so it is no step), the second leaves the
page without rendering. Both scopes may run side by side even then, which allows
more than the one thread left would do. The view models' own `is_busy` cannot be
set here, because the GUI thread waits, and `_record_refresh_failure` cannot be
reached, because both view models catch every exception; both are left out.

* `ShownIsFresh`: after a refresh each row is that of the check in its place, and
  says what that check could find while this very refresh ran.
* `QuietWhenIdle`: no thread is left behind.
* `RefreshProgresses`: while the GUI thread waits, some scope, thread or loop over
  results can go on (`NeverStuck`), and each such step leaves fewer of them, three
  per check and five for the pools at most (`RefreshCountsDown`); hence
  `RefreshEnds`: pools waiting for pools do not wait for ever.
* `FailureIsolated` is what the documents say of a failing check, and is violated.

### PcOperations

The operations the Action Center does in one go. `job` is the current or last
one, `step` the number of its step under way, `before` the PC and the clipboard
when it began. `Begin` is the confirmed click; `MaintenanceStep` and
`ActivationStep` do one step each, which may fail before or after its effect:
the six `powercfg` commands, the shutdown task and then the shortcut that cancels
it, closing a browser (which may come back), waiting and removing its data, the
recycle bin; the key, the clipboard and the launch. `Refresh` is the run of the
PC checks after maintenance, or by the button, with at most one reading failing:
each check is modelled by what it makes of a reading that failed or was
incomplete (`is_never`, `get_task`, `_short_policy_status` and so on), and the
cards by the words they look for. `DetectWindows`, `ClickWindows`, `ClickOffice`,
`ClickSetting`, `SelectAll`, `DeselectAll` are the selection; `PcChanges` is the
user and other programs between operations.

* `AppliedIsInForce`: what is reported as applied holds when the result is shown,
  mains and battery timeouts, task and shortcut, the browser's data gone. The
  exception it names is real: without `LOCALAPPDATA` a reset reports success and
  has looked nowhere.
* `FailureIsPrefix`: during and after an operation the PC differs from before by
  a beginning of it and by nothing else; activations, launches and test mode
  change nothing.
* `RowsTellTruth`: a row that says all is right is right about the PC the refresh
  read, one that warns has a reason, "no task" means that there is none and "wrong
  task" that it is another one, and the classroom's card is no better than the
  rows. `queried` remembers whether a query of the shutdown task answered: only
  when none did, "no task" may be wrong. The check of power reads the timeouts for
  mains only, and the row promises no more.
* `FailedQueryIsUnknown`, what the documents say of such a query, is violated: an
  error with words like "not found", or an empty answer, makes the task a missing
  one.
* `KeyIsOfChoice`: an activation copies a key of the version that was chosen or
  the one without a version, says so truthfully even when the launch fails, and
  never puts a key into the clipboard it does not speak of.
* `SelectionAgrees`: radio buttons, versions an activation uses and check boxes
  agree in every order of clicks, detections and refreshes.

### PcInventory and its readers

What the tool reads of a PC and shows or reports. The readers are operators:
`PcInfoReader` (each fact has several sources, the first that answers counts;
disks are matched between `Win32_DiskDrive`, `MSFT_PhysicalDisk`, `MSFT_Disk` and
`DeviceIoControl`), `NetworkIdentity` (three sources for the active adapter, their
filters and order; name servers from the registry), `ProgramChecks` (comparison
of versions, PotPlayer's dates, Office, browser data, the list of programs).
`PcInventory` makes a system of them: a reading meets the PC of that moment with
some sources silent, stays shown while `PcChanges` changes the PC, and a load that
raises keeps the fields. `Lists` has what Python does to lists there, given sets
instead of predicates (`SelectSeq` and `SortSeq` take operators, about which
nothing can be proved).

The constants carry what the tool relies on and cannot check itself.
`HardwareAssumption`: a disk has one number, disks of one model are of one kind,
NVMe means SSD, and a name that says NVMe or SSD is right. (The name of a model is
the set of its words: sources are matched by one name being part of the other.)
`NetworkAssumption`: a finite set of adapters with one number
each. `ProgramAssumption`: what can be read of a version is the real release, for
PotPlayer a date of six digits, or nothing. `RootsAssumption`: an entry without a
name is no Office. TLC evaluates them for the instance.

* `InfoTold`: whichever single source is silent, the page tells of the PC of the
  last load that did not fail: the Windows that the activation is chosen by,
  exactly; a TPM when there is one, and a version only of one there is
  ("installed" only says that its driver is registered, on a PC without one too);
  the real graphics adapter with most memory (`GpuTold`); the medium of every disk
  and its bus (`DiskTold`), and as many disks as there are fixed ones.
* `AdapterIsBest`: no connected adapter that the answering source can recognise
  comes before the one shown, and that one can be found on the network page, whose
  name servers are those in force.
* `RemovableNotListed` and `ShownIsConnected` are what the documents say of
  removable disks and of the adapter; the code violates both (`FixedOrConnected`).
* `ProgramsTold`: verdicts on programs agree with their real releases, history
  with the sizes that can be read, the list names each program once.

The properties name where the code does otherwise, so that a reader finds it. A
disk's bus can be another one's (`Lent`): of one whose name is part of its own when
`Win32_DiskDrive` has no serial numbers, or of one like it or of its size when
`MSFT_PhysicalDisk` misses it. When `Win32_DiskDrive` has no fixed disk the
physical ones stand in (`StandIn`), removable ones too, and without their medium if
that source has none. The fast source of the adapter lets an IPv6 gateway or a
link-local address pass. A static adapter without name servers of its own lists
those of an earlier lease. Six digits in the version of PotPlayer's file can look
like a date. The removable disks and the adapter are Findings; about the others the
documents say nothing, but for the registry, which is to complete what the listing
lacks (README.md:98 of the repository).

## Runs, bounds, fairness

| Run | Bounds | Why they are enough |
|---|---|---|
| `ui_event_loop` | 3 clicks, all of test mode, auto-send, administrator | one click for the handler under a box, one for a page whose load is posted, one more; events and timers are bounded by them; the proofs lift the number |
| `settings_apply` | 2 settings, at once or one after the other, of 6: two registry settings (one with, one without post commands) and all four actions; one pin of the layout, one of the user | settings interact only through the queue, the post commands and the shell, pairwise; the proofs lift both |
| `network_config` | 2 adapters, 1 address, no name server, one or two, 2 changes, all adapters on DHCP first; the posted load is not put off beyond the first change | the second change starts from what the first, possibly half done, left; two adapters tell the chosen one from another; a second server added to those of the change before shows; the proofs lift the number of adapters, addresses and changes |
| `agent_report` | 2 reports of 3 posts (the default) | a late copy of the first among the posts of the second |
| `status_refresh` | 1 or 2 settings, 2 PC checks, pools of 2 threads, 1 change of the PC | two results can come in either order in one pool while the other runs; a refresh follows a refresh, with another list of settings; the proofs lift the sizes |
| `pc_operations` | 2 browsers, one setting of each kind, 2 PCs to begin with, 3 events, at most one failing reading in a refresh | an operation, what someone else or a detection does to its result, and an operation or a refresh after it; the proofs lift the sets and the number |
| `pc_inventory` | 5 PCs, 7 sets of adapters, programs, browser data and uninstall entries of `MCPcInventory`, threshold 5, 3 events, one source of the hardware silent at a time, any of the network | the parts are chosen so that every rule of choice has a case for and against (equal sizes and models of disks, names that are part of others, removable disks with and without fixed ones, virtual, basic and real graphics, unknown metrics, IPv6 only, entries twice); a reading, a change, a reading |

The `violation` runs check sentences of the documents that the code does not keep;
see Findings. `settings_chrome`, `status_isolated` and `pc_task_unknown` check one
each. `ui_documented` and `pc_documented` check that at least one of two is kept:
the counterexample is a single behaviour that breaks both.

Fairness, where a liveness property needs it:

* `UiEventLoop`: weak fairness of `Dispatch`, `TimerExpires` and `AnswerAny`. Qt
  delivers posted events and expired timers as long as its loop, or a box's,
  runs; a box is answered some day. Clicks are not fair.
* `NetworkConfig`: weak fairness of `Work`: a netsh command and a listing return.
  `SubprocessCommandRunner` sets no timeout, so this is an assumption about
  Windows, not a fact about the code. `ChangeEnds` begins with the commands: a
  question may stay open for ever. `Settle` is not fair: the reload must end
  although the new state never shows.
* `AgentReport`: weak fairness of collecting and posting: readers return, and
  `requests.post` has a timeout (between two bytes, so a server that trickles
  could hold a post longer). `LateArrives` is not fair: a late copy may be lost.
* `StatusRefresh`: weak fairness of `Work`: threads run and every check returns.
  A refresh is a bounded number of such steps, so fairness of their disjunction is
  enough. Nobody has to start a refresh.

`PcOperations` and `PcInventory` state none: their operations are bounded
sequences of calls, and that each ends is the assumption about commands above.

Deadlock is checked for `settings_apply`, `settings_chrome`, `network_config` and
the two runs of `MCStatusRefresh`. It is off for the UI runs, `agent_report` and the
runs of `MCPcOperations` and `MCPcInventory`, where nothing is left to do once the
bound is used up.

## Proofs

For every value of the constants, from the named assumptions on them only:

* `UiEventLoopProofs`: `TypeCorrect`, `BusyOwnership`, `ConfirmedGetsBusy`,
  `AutoSendOnce`, `TestModeStaysInert`, `BoxesNeverPileUp`, `JobsImplemented`. The
  invariant is `TypeOK`, `BusyHasOneOwner` and `AutoSendInv`. The first two are inductive
  together because a box that holds the flag can only be the top one: whoever
  opens a box on top of another found the flag free, or opens it without taking
  the flag. `AutoSendInv` counts the places the report's token can be in. Test
  mode is inductive by itself: a question of the recycle bin may be open, and the
  guard of its use case keeps its answer from changing anything. Two
  boxes are the most because a click finds none, the startup none, and the report,
  which finds the tool idle, is not posted again once it was sent. The
  refinement maps the handler under the top box to the owner.
* `SettingsApplyProofs`: `TypeCorrect`, `AppliedIsWritten`, `NothingElseChanges`.
  `AppliedMeansWritten` alone is not inductive: while a setting is under way one
  must know that each promised write is made or still among the steps left
  (`PromiseOnTheWay`), that no promised write is a best-effort step, and for the
  pins that a step on them is preceded by the check of the resources
  (`PinsOwned`). `GoOnKeeps` and `FinishKeeps` are the two ways a step ends.
* `SettingsShellProofs`: `ShellRestarts`, `ChromePinStaysValid`,
  `AppliedStaysShown`. The steps left are the last ones of a plan (`Suffix`,
  `OnPlan`), so their number says how far the plan got: the shell has been
  stopped once when at most one step is left, the pins are those of the layout
  when at most four are (`ShellSoFar`, `PinsSoFar`). `QueueFresh`, that no setting
  is applied twice in one apply, is what keeps the taskbar's restart from being
  counted twice.
* `NetworkConfigProofs`: `TypeCorrect`, `AppliedStaysReal`, `ChangeStaysPrefix`,
  `OnlyAskedAdapterEverChanges`, `ReloadAlwaysTriesEnough`. `Progress` relates the
  commands left to what the adapter has by now; `Agreed` relates combo box, table,
  form and question. Proving it showed that two changes are too few for TLC to
  meet every case: after three, the form can hold another adapter's settings,
  which the exception `form.kept` now names. `Successful`, that a
  reload goes on only after a success, is what `ReloadTriesEnough` needs.
* `AgentReportProofs`: `TypeCorrect`, `SuccessStored`, `GivesUp`, `ShownForward`,
  `CopiesAtMostPosts`, `ImplementsDelivery`. The invariant adds that late copies
  are of reports asked for, that the id shown is of an older report while a new
  one is under way, and where the attempts stand. Counting copies uses the
  cardinality facts of FiniteSetTheorems.
* `StatusRefreshProofs`: `TypeCorrect`, `ShownRowsFresh`, `NoThreadLeft`,
  `RefreshAlwaysProgresses`, for lists of any length and any number of threads.
  `ShownIsFresh` speaks of the moment of rendering only; the invariant follows a result from the thread that
  finished it (`PoolInv`: finished means fresh, collected means equal to what
  finished in the same place) into the rows of a scope that ended (`RowsInv`).
  `RaisingInv` is what makes Office, which has no row, recognisable by its id: its
  check catches everything. `RowsAreFresh` and `FreshStays` carry the rows.
  `SubmitInv` (a scope that did not fail has submitted every check before it
  waits) is what `NeverStuck` needs: a pool with nothing to take, run or collect has all its
  results. `RefreshCountsDown` counts waiting, running and uncollected checks with
  the cardinality facts of FiniteSetTheorems.
* `PcOperationsProofs`: `TypeCorrect`, `SelectionStaysInAgreement`,
  `RowsStayTrue`, `KeyStaysOfChoice`, `AppliedStaysInForce`, `FailureStaysPrefix`.
  `SoFar` has a conjunct for each operation that says what of it is done, by the
  number of the step; `OthersSoFar` keeps the other conjuncts. `RowsTrue` speaks
  of each check alone, `KeySoFar` of where the key is at each step.

* `PcInventoryProofs`: `InfoIsTold`, `AdapterShownIsBest`, `ProgramsAreTold`. The
  invariant `ReadInv` says that what is shown is what the readers make of a PC of
  the constants and of what answered; it is kept because a reading reads it so and
  a change of the PC leaves what is shown. The work is in the readers, for lists
  of any length:
  * `FoldAlong` takes a property along a fold: `FoldsTo` restates a fold as a
    function of the number of elements read, and a set of numbers that has 0 and
    each number's successor has them all, which is how these proofs do without
    the induction theorems. `NumberFolds`, `SumFolds`, `CountFolds`,
    `BudgetFolds`, `FirstOfNameFolds` are the folds of the code.
  * `ThoseProperties` and `SortedProperties` say what filtering and sorting give.
  * Disks: `MatchTells` and `MappedRight` follow a row of `Win32_DiskDrive` to the
    physical disk whose medium it takes, by number, then by size and model;
    `BestMatch` and `BusFound` to the one whose bus it takes, its own or a lent one;
    `RowRight` says what is shown of it, `CountedOnce` sums the summaries.
  * Graphics: `LargestProperties` and `GpuRight`, also for memory that one source
    cuts off at 4 GB. `OneSilentFacts` is what follows for the other sources.
  * Adapters: `FirstIsBefore` says that the chosen one comes before all, `PageLists`
    that the page lists it.
  * Programs: `MajorMinorEnough` and `DateOfDate` for versions, `HistoryTold` for
    counting that stops at the threshold (what is left out only adds), `OfficeTold`
    for the first Office, `FirstNames` for the first entry of each name.

Only model-checked: everything under fairness (`AutoSendHappens`, `ComesToRest`,
`ChangeEnds`, `SendEnds`, `RefreshEnds`), which is beyond this prover. Of
`RefreshEnds` only that last step is left to it: `RefreshAlwaysProgresses` is the
rest, for lists and pools of any size. Every invariant and every action property
of the passing runs is proved. `TypeOK` of `StatusRefresh` is only proved, no run
spends time on it.

## Findings

| Run | Document | Code |
|---|---|---|
| `ui_documented` | README: the first entry of a page loads it automatically | a load delivered while the tool is busy is dropped for good (`main_window.py:225`) |
| `ui_documented` | SAFETY_POLICY: applying settings needs a confirmation | there is none (`action_center_panel.py:536`) |
| `settings_chrome` | API_CONTRACTS, README, SAFETY_POLICY: a Chrome shortcut without its target is not configured | only its name is looked at (`windows_setting_status_providers.py:281`) |
| `status_isolated` | PERFORMANCE_AND_REGRESSION, README: a failing check is isolated as the error of its item | the result of a PC check that raised has the name of its class as id (`run_pc_checks.py:55`), so the item's card keeps the text of the refresh before |
| `pc_task_unknown` | SAFETY_POLICY, SPEC, README, API_CONTRACTS, RELEASE_CHECKLIST: a failed query of the shutdown task is unknown, only a missing task is a warning | an error that reads like "not found", or an empty answer, is a missing task (`windows_scheduled_task_reader.py:194`) |
| `pc_documented` | README, SPEC: removable disks are left out | all physical disks are listed when `Win32_DiskDrive` has no fixed one (`wmi_pc_info_reader.py:292`) |
| `pc_documented` | SPEC, API_CONTRACTS, README: the adapter shown has an IPv4 address that is not link-local, and a gateway | the fast source takes any address and any gateway (`network_identity_reader.py:95`, `:273`) |

## Not modelled

* Parsing of command and web output, formatting, layout and wording: no property
  is about them, except where a word decides (the cards of `PcOperations`, "not
  found" of the shutdown task). The arithmetic of masks and prefix lengths.
* How a single Windows call works; each is a step that succeeds or raises, with
  the effects the code relies on. Writing shortcuts through COM and looking for
  resource folders.
* Of the PC information: names of CPU, PC and user, memory modules, rated sizes,
  the text of graphics memory, SCM disks. They come from one source each, or only
  decide wording. Of the adapters: the metric of the default route as a
  tie-breaker in one source.
* The single results of the startup steps. The rename: the page opens one page of
  the settings app, and the use case `RenamePc` is wired but nothing calls it.
* Wiring (`bootstrap.py`), widgets, styles, logging, profiling: no state of their
  own that a property is about.
* A crash or a kill of the tool in the middle: it has nothing to recover, and
  what is left on the PC is what the failure of the next step leaves.

## Plan

Done: the event loop with its abstract specification, applying settings, the
network page with its question, the report with its abstract specification, the
refresh and its pools, the operations of the Action Center with the checks and
the selection, the readers of the inventory; proofs of every safety property.

Left, in order of worth: the refilled form under a confirmation as a composition
of `UiEventLoop` and `NetworkConfig` instead of the latter's own posted load; the
startup steps one by one; the parsing of netsh and PowerShell listings, once a
property about them is worth stating; a second source silent at a time in
`PcInventory`.

## How to run

    tlc -config UiEventLoop.cfg UiEventLoop
    tlc -config PcOperations.cfg MCPcOperations
    tlapm UiEventLoopProofs.tla
