---------------------------- MODULE UiEventLoop ----------------------------
(***************************************************************************)
(* The GUI thread of the desktop tool: the busy flag of BusyCoordinator,   *)
(* the handlers of the main window and of its four panels, the events they *)
(* post to themselves with QTimer.singleShot and the nested event loops of *)
(* the QMessageBoxes they open.                                            *)
(*                                                                         *)
(* Qt runs one handler at a time and a handler that blocks (a worker pool, *)
(* a sleep, a subprocess) freezes the thread, so a handler is atomic up to *)
(* the point where it opens a message box.  There it is suspended: the     *)
(* box's own event loop goes on delivering posted events and expired       *)
(* timers, but input only to the box.  dialogs is the stack of suspended   *)
(* handlers; the last one opened must be answered first.                   *)
(*                                                                         *)
(* Bounded: the user clicks at most MaxClicks times in the main window.    *)
(***************************************************************************)
EXTENDS Naturals, Sequences

CONSTANT MaxClicks

ASSUME MaxClicksAssumption == MaxClicks \in Nat

Pages == {"pc", "actions", "network", "report"}

\* The pages that load their data when they are first shown.
FirstShowPages == {"actions", "network"}

\* A page's name stands for its posted first-show load.
Events == {"init", "auto_send"} \cup FirstShowPages

\* Operations that open a message box, and those that keep the busy flag
\* while it is open.
MaintenanceOps == {"maintenance", "recycle_bin"}
ConfirmedOps == MaintenanceOps \cup {"static_ip", "dhcp"}
BusyNoticeOps == MaintenanceOps \cup {"init", "send", "launch"}
NoticeOps == BusyNoticeOps \cup {"rename"}

Dialogs == [op : ConfirmedOps, stage : {"confirm"}]
             \cup [op : NoticeOps, stage : {"notice"}]

\* Operations that change the PC.
ChangeOps == ConfirmedOps \cup {"settings", "activation", "launch", "rename"}

VARIABLES
    env,         \* how the program was started: test mode, auto send, admin
    page,        \* the page shown by the QStackedWidget
    isBusy,      \* BusyCoordinator.is_busy
    dialogs,     \* open message boxes, each over the handler waiting for it
    posted,      \* events posted to the GUI thread, in delivery order
    autoTimer,   \* is the auto-send single-shot timer running?
    autoSends,   \* auto-sends that really started
    loadedOnce,  \* _action_center_loaded_once, _network_loaded_once
    entryLoads,  \* first-show loads that really ran, per page
    changes,     \* <<operation, was it confirmed>> for the changes made
    clicks       \* clicks in the main window so far

vars == <<env, page, isBusy, dialogs, posted, autoTimer, autoSends,
          loadedOnce, entryLoads, changes, clicks>>

TypeOK ==
    /\ env \in [testMode : BOOLEAN, autoSend : BOOLEAN, isAdmin : BOOLEAN]
    /\ page \in Pages
    /\ isBusy \in BOOLEAN
    /\ dialogs \in Seq(Dialogs)
    /\ posted \in Seq(Events)
    /\ autoTimer \in BOOLEAN
    /\ autoSends \in Nat
    /\ loadedOnce \in [FirstShowPages -> BOOLEAN]
    /\ entryLoads \in [FirstShowPages -> Nat]
    /\ changes \subseteq (ChangeOps \X BOOLEAN)
    /\ clicks \in Nat

Init ==
    /\ env \in [testMode : BOOLEAN, autoSend : BOOLEAN, isAdmin : BOOLEAN]
    /\ page = "pc"
    /\ isBusy = FALSE
    /\ dialogs = <<>>
    /\ posted = <<"init">>
    /\ autoTimer = FALSE
    /\ autoSends = 0
    /\ loadedOnce = [p \in FirstShowPages |-> FALSE]
    /\ entryLoads = [p \in FirstShowPages |-> 0]
    /\ changes = {}
    /\ clicks = 0

-----------------------------------------------------------------------------
(* BusyCoordinator and the stack of message boxes *)

IsPosted(e) == \E i \in DOMAIN posted : posted[i] = e

Top == dialogs[Len(dialogs)]
Below == SubSeq(dialogs, 1, Len(dialogs) - 1)

\* The suspended handler under d keeps the busy flag.
Holds(d) == d.stage = "notice" /\ d.op \in BusyNoticeOps

\* A wrong variant: an information box where a question is meant.
OpenAsInformation(op, stage) ==
    dialogs' = Append(dialogs, [op |-> op, stage |-> "notice"])

Open(op, stage) == dialogs' = Append(dialogs, [op |-> op, stage |-> stage])

\* A wrong variant: the flag is taken without a look at it.
TryBeginUnchecked == TRUE

TryBegin == ~isBusy

\* A handler that begins, works and ends without opening a message box.
\* end() clears the flag whatever it was.
BeginWorkEnd ==
    /\ TryBegin
    /\ isBusy' = FALSE
    /\ UNCHANGED dialogs

\* A handler that begins, works and shows a message box before it ends.
BeginWorkNotify(op) ==
    /\ TryBegin
    /\ isBusy' = TRUE
    /\ Open(op, "notice")

Refused == ~TryBegin /\ UNCHANGED <<isBusy, dialogs>>

\* AgentReportPanel._send_report: a message box only after a success.
SendReport ==
    \/ BeginWorkEnd
    \/ BeginWorkNotify("send")
    \/ Refused

ArmAutoSend == autoTimer' = (autoTimer \/ env.autoSend)

-----------------------------------------------------------------------------
(* Events the GUI thread delivers to itself, in the outermost loop or in   *)
(* the loop of an open message box.                                        *)

Deliver(e) ==
    /\ posted # <<>>
    /\ Head(posted) = e
    /\ posted' = Tail(posted)
    /\ UNCHANGED <<env, page, loadedOnce, changes, clicks>>

\* A wrong variant: the auto-send is scheduled before the warning is answered.
InitializeStartupSchedulesFirst ==
    /\ Deliver("init")
    /\ \/ env.isAdmin /\ BeginWorkEnd
       \/ ~env.isAdmin /\ BeginWorkNotify("init")
    /\ ArmAutoSend
    /\ UNCHANGED <<autoSends, entryLoads>>

\* MainWindow.initialize_startup.  Without administrator rights a warning is
\* shown while the busy flag is held; the auto-send is scheduled after end().
InitializeStartup ==
    /\ Deliver("init")
    /\ \/ env.isAdmin /\ BeginWorkEnd /\ ArmAutoSend
       \/ ~env.isAdmin /\ BeginWorkNotify("init") /\ UNCHANGED autoTimer
       \/ Refused /\ UNCHANGED autoTimer
    /\ UNCHANGED <<autoSends, entryLoads>>

\* _load_action_center_on_first_show, _load_network_on_first_show: when the
\* busy flag is taken the load is dropped, and nothing posts it again.
LoadOnFirstShow(p) ==
    /\ Deliver(p)
    /\ \/ BeginWorkEnd /\ entryLoads' = [entryLoads EXCEPT ![p] = @ + 1]
       \/ Refused /\ UNCHANGED entryLoads
    /\ UNCHANGED <<autoTimer, autoSends>>

\* A wrong variant: an auto-send that finds the tool busy is given up.
AutoSendAgentReportOnce ==
    /\ Deliver("auto_send")
    /\ SendReport
    /\ autoSends' = autoSends + (IF isBusy THEN 0 ELSE 1)
    /\ UNCHANGED <<autoTimer, entryLoads>>

\* A wrong variant: that the tool is busy is said in a message box.
AutoSendAgentReportTold ==
    /\ Deliver("auto_send")
    /\ IF isBusy
       THEN /\ autoTimer' = TRUE
            /\ Open("send", "notice")
            /\ UNCHANGED <<isBusy, autoSends>>
       ELSE /\ SendReport
            /\ autoSends' = autoSends + 1
            /\ UNCHANGED autoTimer
    /\ UNCHANGED entryLoads

\* _auto_send_agent_report: try again in a second when the tool is busy.
AutoSendAgentReport ==
    /\ Deliver("auto_send")
    /\ IF isBusy
       THEN /\ autoTimer' = TRUE
            /\ UNCHANGED <<isBusy, dialogs, autoSends>>
       ELSE /\ SendReport
            /\ autoSends' = autoSends + 1
            /\ UNCHANGED autoTimer
    /\ UNCHANGED entryLoads

\* The 500 ms or 1000 ms timer expires, whatever the GUI thread is doing.
TimerExpires ==
    /\ autoTimer
    /\ autoTimer' = FALSE
    /\ posted' = Append(posted, "auto_send")
    /\ UNCHANGED <<env, page, isBusy, dialogs, autoSends, loadedOnce,
                   entryLoads, changes, clicks>>

Dispatch ==
    \/ InitializeStartup
    \/ \E p \in FirstShowPages : LoadOnFirstShow(p)
    \/ AutoSendAgentReport

-----------------------------------------------------------------------------
(* Input to the main window.  The startup event is posted before the event *)
(* loop starts, so it goes before any input; an open message box takes the *)
(* input, and while busy the pages and the navigation are disabled.        *)

Click ==
    /\ ~IsPosted("init")
    /\ dialogs = <<>>
    /\ ~isBusy
    /\ clicks < MaxClicks
    /\ clicks' = clicks + 1
    /\ UNCHANGED <<env, autoTimer, autoSends, entryLoads>>

ClickOn(p) ==
    /\ Click
    /\ page = p
    /\ UNCHANGED <<page, posted, loadedOnce>>

\* The buttons of the operations that change the PC are disabled in test mode
\* (the early returns of some of their handlers are behind these buttons), but
\* for the one of the recycle bin, whose handler does not look at the mode.
ClickChange(op, p) ==
    /\ env.testMode => op = "recycle_bin"
    /\ ClickOn(p)

\* A wrong variant: a use case that was given no guard.
Unguarded == FALSE

\* SafetyGuard.blocked_message: what every use case that changes the PC asks
\* first; when it is blocked it returns a skipped result.
Blocked == env.testMode

Change(op, confirmed) ==
    changes' = IF Blocked THEN changes ELSE changes \cup {<<op, confirmed>>}

SelectPage(p) ==
    /\ Click
    /\ page' = p
    /\ IF p \in FirstShowPages /\ ~loadedOnce[p]
       THEN /\ loadedOnce' = [loadedOnce EXCEPT ![p] = TRUE]
            /\ posted' = Append(posted, p)
       ELSE UNCHANGED <<loadedOnce, posted>>
    /\ UNCHANGED <<isBusy, dialogs, changes>>

\* The refresh buttons of the pages.
RefreshPcInfo == ClickOn("pc") /\ BeginWorkEnd /\ UNCHANGED changes
RefreshStatus == ClickOn("actions") /\ BeginWorkEnd /\ UNCHANGED changes
RefreshAdapters == ClickOn("network") /\ BeginWorkEnd /\ UNCHANGED changes

ClickSendReport == ClickOn("report") /\ SendReport /\ UNCHANGED changes

\* The Windows settings page for the PC name is opened without the busy
\* flag; a failure is shown in a warning.
RenamePc ==
    /\ ClickChange("rename", "pc")
    /\ \/ Change("rename", FALSE) /\ UNCHANGED dialogs
       \/ Open("rename", "notice") /\ UNCHANGED changes
    /\ UNCHANGED isBusy

\* The selected settings are applied without a question.
ApplySettings ==
    /\ ClickChange("settings", "actions")
    /\ BeginWorkEnd
    /\ Change("settings", FALSE)

\* The product key is copied and the activation window is launched, without
\* the busy flag.
PrepareActivation ==
    /\ ClickChange("activation", "actions")
    /\ Change("activation", FALSE)
    /\ UNCHANGED <<isBusy, dialogs>>

LaunchProgram ==
    /\ ClickChange("launch", "actions")
    /\ \/ BeginWorkEnd /\ Change("launch", FALSE)
       \/ BeginWorkNotify("launch") /\ UNCHANGED changes

\* The handlers that ask first, and take the busy flag after the answer.
AskBefore(op, p) ==
    /\ ClickChange(op, p)
    /\ Open(op, "confirm")
    /\ UNCHANGED <<isBusy, changes>>

RunMaintenance == \E op \in MaintenanceOps : AskBefore(op, "actions")
ApplyStaticIp == AskBefore("static_ip", "network")
SetDhcp == AskBefore("dhcp", "network")

ClickAny ==
    \/ \E p \in Pages : SelectPage(p)
    \/ RefreshPcInfo \/ RefreshStatus \/ RefreshAdapters
    \/ ClickSendReport \/ RenamePc \/ ApplySettings \/ PrepareActivation
    \/ LaunchProgram \/ RunMaintenance \/ ApplyStaticIp \/ SetDhcp

-----------------------------------------------------------------------------
(* Answers to the message box on top; the handler under it goes on *)

Answer(stage) ==
    /\ dialogs # <<>>
    /\ Top.stage = stage
    /\ UNCHANGED <<env, page, posted, autoSends, loadedOnce, entryLoads, clicks>>

AnswerNo ==
    /\ Answer("confirm")
    /\ dialogs' = Below
    /\ UNCHANGED <<isBusy, autoTimer, changes>>

\* A confirmed handler works once it has the busy flag: the network handlers
\* end at once, the maintenance one shows its result first, a refusal of the
\* use case included.
ConfirmedWork ==
    IF Top.op \in MaintenanceOps
    THEN isBusy' = TRUE
         /\ dialogs' = Append(Below, [op |-> Top.op, stage |-> "notice"])
    ELSE isBusy' = FALSE /\ dialogs' = Below

AnswerYes ==
    /\ Answer("confirm")
    /\ \/ TryBegin /\ ConfirmedWork /\ Change(Top.op, TRUE)
       \/ ~TryBegin /\ dialogs' = Below /\ UNCHANGED <<isBusy, changes>>
    /\ UNCHANGED autoTimer

\* A wrong variant: the handler forgets its end().
DismissNoticeWithoutEnd ==
    /\ Answer("notice")
    /\ dialogs' = Below
    /\ IF Top.op = "init" THEN ArmAutoSend ELSE UNCHANGED autoTimer
    /\ UNCHANGED <<isBusy, changes>>

\* The handler under a notice ends; the startup handler then schedules the
\* auto-send.
DismissNotice ==
    /\ Answer("notice")
    /\ dialogs' = Below
    /\ isBusy' = IF Holds(Top) THEN FALSE ELSE isBusy
    /\ IF Top.op = "init" THEN ArmAutoSend ELSE UNCHANGED autoTimer
    /\ UNCHANGED changes

AnswerAny == AnswerNo \/ AnswerYes \/ DismissNotice

-----------------------------------------------------------------------------
Next == Dispatch \/ TimerExpires \/ ClickAny \/ AnswerAny

Spec == Init /\ [][Next]_vars

\* The event loop delivers what is posted, a running timer expires and the
\* user answers an open message box.  Nobody has to click.
Fairness ==
    /\ WF_vars(Dispatch)
    /\ WF_vars(TimerExpires)
    /\ WF_vars(AnswerAny)

FairSpec == Spec /\ Fairness

-----------------------------------------------------------------------------
(* Properties *)

\* The busy flag is set exactly while one suspended handler owns it, and the
\* owner is the handler under the message box on top: end() clears the flag
\* of nobody else, and no message box leaves the pages disabled for good.
BusyHasOneOwner ==
    /\ isBusy <=> \E i \in DOMAIN dialogs : Holds(dialogs[i])
    /\ \A i \in DOMAIN dialogs : Holds(dialogs[i]) => i = Len(dialogs)

\* Whenever the user can answer a question, the operation asked about will
\* get the busy flag: the "another job is running" branches after a question
\* (network_panel.py:211-213) are never taken. BusyHasOneOwner implies it, so it
\* is proved from it and no run checks it.
ConfirmedNeverRefused ==
    dialogs # <<>> /\ Top.stage = "confirm" => ~isBusy

\* Message boxes, each with the suspended handler under it, do not pile up: only
\* the automatic report may show one over another, once, and only over a handler
\* that has not begun its work or never takes the busy flag.
BoxesDoNotPileUp ==
    /\ Len(dialogs) <= 2
    /\ Len(dialogs) > 1 =>
          /\ ~Holds(dialogs[1])
          /\ Top = [op |-> "send", stage |-> "notice"]
          /\ env.autoSend /\ autoSends = 1

\* The auto-send of a started program is a token that is never lost and never
\* duplicated, however often it finds the tool busy and is put off: once the
\* startup handler has ended, and not before, exactly one of these holds: its
\* timer runs, it is posted, it is done.
StartupEnded ==
    ~IsPosted("init") /\ \A i \in DOMAIN dialogs : dialogs[i].op # "init"

AtMostOncePosted(e) ==
    \A i, j \in DOMAIN posted : posted[i] = e /\ posted[j] = e => i = j

AutoSendExactlyOnce ==
    /\ autoSends <= 1
    /\ AtMostOncePosted("auto_send")
    /\ autoTimer => ~IsPosted("auto_send") /\ autoSends = 0
    /\ IsPosted("auto_send") => autoSends = 0
    /\ env.autoSend /\ StartupEnded
          <=> autoTimer \/ IsPosted("auto_send") \/ autoSends = 1

\* Test mode makes no change to the PC, by any handler in any order
\* (docs/SAFETY_POLICY.md, "test mode: blocked"), by two layers: the buttons
\* let no changing operation but the recycle bin's get as far as a message box,
\* and that one is asked about, confirmed and reported without a change.
TestModeInert ==
    env.testMode =>
        /\ changes = {}
        /\ \A i \in DOMAIN dialogs :
              dialogs[i].op \in ChangeOps => dialogs[i].op = "recycle_bin"

\* With auto-send configured the report is sent, even if the timer finds the
\* tool busy any number of times, once the user stops clicking.
AutoSendHappens == env.autoSend ~> autoSends = 1

\* Once the user stops clicking the tool comes to rest: no message box, no
\* busy flag, no posted event.
ComesToRest == <>[](dialogs = <<>> /\ ~isBusy /\ posted = <<>>)

\* What the tool promises its user about long-running jobs: ExclusiveJobs,
\* with the handler under the top message box as the owner of the busy flag.
Owner == IF isBusy THEN Top.op ELSE "none"

AutoSendStage ==
    IF autoSends > 0 THEN "sent"
    ELSE IF autoTimer \/ IsPosted("auto_send") THEN "due" ELSE "none"

Jobs == INSTANCE ExclusiveJobs
            WITH Job <- BusyNoticeOps, NoJob <- "none", SendJob <- "send",
                 owner <- Owner, autoSend <- AutoSendStage

\* The event loop implements ExclusiveJobs: the busy flag goes from one
\* handler to the next only through idle, and the auto-send starts only from
\* idle.
ImplementsExclusiveJobs == Jobs!Spec

\* README.md:54, :81 and :96 say that the action center and the network page
\* load their data automatically when they are first shown: a first-show load
\* that is no longer waiting has run.
EntryLoadNotLost ==
    \A p \in FirstShowPages :
        loadedOnce[p] /\ ~IsPosted(p) => entryLoads[p] = 1

\* docs/SAFETY_POLICY.md:63 says that applying the system settings needs a
\* confirmation in the UI, as do the network and the maintenance operations.
RiskyChangesConfirmed ==
    \A c \in changes : c[1] \in ConfirmedOps \cup {"settings"} => c[2]

\* At least one of these two sentences of the documents is kept at any time.  The
\* code fails this, so neither holds: a counterexample is one behaviour in which a
\* first-show load is lost and settings are applied without a question.
EntryLoadedOrConfirmed == EntryLoadNotLost \/ RiskyChangesConfirmed
=============================================================================
