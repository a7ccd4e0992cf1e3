------------------------- MODULE UiEventLoopProofs -------------------------
(***************************************************************************)
(* What TLC checks of UiEventLoop for a few clicks, proved for any number: *)
(* the state keeps its type, the busy flag has one owner, a confirmed      *)
(* operation is never refused.                                             *)
(***************************************************************************)
EXTENDS UiEventLoop, TLAPS

-----------------------------------------------------------------------------
(* Type correctness, in three parts: the flags, the two sequences, the rest *)

FlagsOK == isBusy \in BOOLEAN /\ autoTimer \in BOOLEAN

SequencesOK == dialogs \in Seq(Dialogs) /\ posted \in Seq(Events)

RestOK ==
    /\ env \in [testMode : BOOLEAN, autoSend : BOOLEAN, isAdmin : BOOLEAN]
    /\ page \in Pages
    /\ autoSends \in Nat
    /\ loadedOnce \in [FirstShowPages -> BOOLEAN]
    /\ entryLoads \in [FirstShowPages -> Nat]
    /\ changes \subseteq (ChangeOps \X BOOLEAN)
    /\ clicks \in Nat

LEMMA TypeOKParts == TypeOK <=> FlagsOK /\ SequencesOK /\ RestOK
BY DEF TypeOK, FlagsOK, SequencesOK, RestOK

\* Opening a message box of a known kind, or closing the one on top, leaves a
\* stack of message boxes.
LEMMA OpenType ==
    ASSUME NEW op, NEW stage, [op |-> op, stage |-> stage] \in Dialogs,
           dialogs \in Seq(Dialogs), Open(op, stage)
    PROVE  dialogs' \in Seq(Dialogs)
BY DEF Open

LEMMA BelowType ==
    ASSUME dialogs \in Seq(Dialogs), dialogs # <<>>
    PROVE  /\ Below \in Seq(Dialogs)
           /\ Top \in Dialogs
           /\ Len(Below) = Len(dialogs) - 1
           /\ \A i \in DOMAIN Below : i \in DOMAIN dialogs /\ Below[i] = dialogs[i]
<1>1. Len(dialogs) \in Nat /\ Len(dialogs) > 0
  OBVIOUS
<1>2. /\ Below \in Seq(Dialogs)
      /\ Len(Below) = Len(dialogs) - 1
      /\ \A i \in 1 .. Len(dialogs) - 1 : Below[i] = dialogs[i]
  BY <1>1 DEF Below
<1>3. Top \in Dialogs
  BY <1>1 DEF Top
<1>4. DOMAIN Below = 1 .. Len(dialogs) - 1
  BY <1>2
<1> QED BY <1>1, <1>2, <1>3, <1>4

LEMMA DialogKinds ==
    /\ \A op \in NoticeOps : [op |-> op, stage |-> "notice"] \in Dialogs
    /\ \A op \in ConfirmedOps : [op |-> op, stage |-> "confirm"] \in Dialogs
    /\ {"init", "send", "launch", "rename"} \cup MaintenanceOps \subseteq NoticeOps
    /\ {"static_ip", "dhcp"} \cup MaintenanceOps \subseteq ConfirmedOps
BY DEF Dialogs, NoticeOps, BusyNoticeOps, ConfirmedOps, MaintenanceOps

\* The two ways to run a job, and to be refused, keep the stack's type.
LEMMA WorkType ==
    ASSUME dialogs \in Seq(Dialogs), isBusy \in BOOLEAN,
           \/ BeginWorkEnd
           \/ \E op \in NoticeOps : BeginWorkNotify(op)
           \/ Refused
           \/ SendReport
    PROVE  dialogs' \in Seq(Dialogs) /\ isBusy' \in BOOLEAN
<1>1. CASE BeginWorkEnd
  BY <1>1 DEF BeginWorkEnd
<1>2. ASSUME NEW op \in NoticeOps, BeginWorkNotify(op)
      PROVE  dialogs' \in Seq(Dialogs) /\ isBusy' \in BOOLEAN
  BY <1>2, OpenType, DialogKinds DEF BeginWorkNotify
<1>3. CASE Refused
  BY <1>3 DEF Refused
<1>4. CASE SendReport
  BY <1>1, <1>2, <1>3, <1>4, DialogKinds DEF SendReport
<1> QED BY <1>1, <1>2, <1>3, <1>4

LEMMA ChangeType ==
    ASSUME NEW op \in ChangeOps, NEW c \in BOOLEAN, Change(op, c),
           changes \subseteq (ChangeOps \X BOOLEAN)
    PROVE  changes' \subseteq (ChangeOps \X BOOLEAN)
BY DEF Change

LEMMA DispatchType == TypeOK /\ Dispatch => TypeOK'
<1> SUFFICES ASSUME FlagsOK, SequencesOK, RestOK, Dispatch
             PROVE  FlagsOK' /\ SequencesOK' /\ RestOK'
  BY TypeOKParts, PTL
<1>1. ASSUME NEW e, Deliver(e) PROVE posted' \in Seq(Events)
  BY <1>1 DEF Deliver, SequencesOK
<1>2. CASE InitializeStartup
  <2>1. SequencesOK' /\ isBusy' \in BOOLEAN
    BY <1>1, <1>2, WorkType, DialogKinds
       DEF InitializeStartup, SequencesOK, FlagsOK
  <2>2. autoTimer' \in BOOLEAN
    BY <1>2 DEF InitializeStartup, ArmAutoSend, FlagsOK
  <2>3. RestOK'
    BY <1>2 DEF InitializeStartup, Deliver, RestOK
  <2> QED BY <2>1, <2>2, <2>3 DEF FlagsOK
<1>3. ASSUME NEW p \in FirstShowPages, LoadOnFirstShow(p)
      PROVE  FlagsOK' /\ SequencesOK' /\ RestOK'
  <2>1. SequencesOK' /\ FlagsOK'
    BY <1>1, <1>3, WorkType DEF LoadOnFirstShow, SequencesOK, FlagsOK
  <2>2. entryLoads' \in [FirstShowPages -> Nat]
    BY <1>3 DEF LoadOnFirstShow, RestOK
  <2>3. RestOK'
    BY <1>3, <2>2 DEF LoadOnFirstShow, Deliver, RestOK
  <2> QED BY <2>1, <2>3
<1>4. CASE AutoSendAgentReport
  <2>1. SequencesOK' /\ FlagsOK'
    BY <1>1, <1>4, WorkType DEF AutoSendAgentReport, SequencesOK, FlagsOK
  <2>2. RestOK'
    BY <1>4 DEF AutoSendAgentReport, Deliver, RestOK
  <2> QED BY <2>1, <2>2
<1> QED BY <1>2, <1>3, <1>4 DEF Dispatch

LEMMA ClickType == TypeOK /\ ClickAny => TypeOK'
<1> SUFFICES ASSUME FlagsOK, SequencesOK, RestOK, ClickAny
             PROVE  FlagsOK' /\ SequencesOK' /\ RestOK'
  BY TypeOKParts, PTL
<1>1. ASSUME Click PROVE
        /\ env' \in [testMode : BOOLEAN, autoSend : BOOLEAN, isAdmin : BOOLEAN]
        /\ autoTimer' \in BOOLEAN
        /\ autoSends' \in Nat
        /\ entryLoads' \in [FirstShowPages -> Nat]
        /\ clicks' \in Nat
  BY <1>1 DEF Click, RestOK, FlagsOK
<1>2. ASSUME NEW p \in Pages, SelectPage(p)
      PROVE  FlagsOK' /\ SequencesOK' /\ RestOK'
  <2>1. posted' \in Seq(Events)
    BY <1>2 DEF SelectPage, SequencesOK, Events
  <2>2. loadedOnce' \in [FirstShowPages -> BOOLEAN]
    BY <1>2 DEF SelectPage, RestOK
  <2> QED BY <1>1, <1>2, <2>1, <2>2 DEF SelectPage, SequencesOK, FlagsOK, RestOK
<1>3. ASSUME NEW p \in Pages, ClickOn(p),
             isBusy' \in BOOLEAN, dialogs' \in Seq(Dialogs),
             changes' \subseteq (ChangeOps \X BOOLEAN)
      PROVE  FlagsOK' /\ SequencesOK' /\ RestOK'
  BY <1>1, <1>3 DEF ClickOn, SequencesOK, FlagsOK, RestOK
<1>4. ASSUME NEW op \in ChangeOps, NEW c \in BOOLEAN, Change(op, c)
      PROVE  changes' \subseteq (ChangeOps \X BOOLEAN)
  BY <1>4, ChangeType DEF RestOK
<1>5. /\ {"settings", "activation", "launch", "rename"} \subseteq ChangeOps
      /\ {"pc", "actions", "network", "report"} \subseteq Pages
  BY DEF ChangeOps, Pages
<1>6. UNCHANGED changes => changes' \subseteq (ChangeOps \X BOOLEAN)
  BY DEF RestOK
<1>7. BeginWorkEnd \/ SendReport => dialogs' \in Seq(Dialogs) /\ isBusy' \in BOOLEAN
  BY WorkType DEF FlagsOK, SequencesOK
<1>8. CASE RefreshPcInfo \/ RefreshStatus \/ RefreshAdapters \/ ClickSendReport
  BY <1>3, <1>5, <1>6, <1>7, <1>8
     DEF RefreshPcInfo, RefreshStatus, RefreshAdapters, ClickSendReport
<1>9. CASE RenamePc
  <2>1. dialogs' \in Seq(Dialogs) /\ isBusy' \in BOOLEAN
    BY <1>9, OpenType, DialogKinds DEF RenamePc, FlagsOK, SequencesOK
  <2> QED BY <1>3, <1>4, <1>5, <1>6, <1>9, <2>1 DEF RenamePc, ClickChange
<1>10. CASE ApplySettings
  BY <1>3, <1>4, <1>5, <1>7, <1>10 DEF ApplySettings, ClickChange
<1>11. CASE PrepareActivation
  <2>1. dialogs' \in Seq(Dialogs) /\ isBusy' \in BOOLEAN
    BY <1>11 DEF PrepareActivation, FlagsOK, SequencesOK
  <2> QED BY <1>3, <1>4, <1>5, <1>11, <2>1 DEF PrepareActivation, ClickChange
<1>12. CASE LaunchProgram
  <2>1. dialogs' \in Seq(Dialogs) /\ isBusy' \in BOOLEAN
    BY <1>12, WorkType, DialogKinds DEF LaunchProgram, FlagsOK, SequencesOK
  <2> QED BY <1>3, <1>4, <1>5, <1>6, <1>12, <2>1 DEF LaunchProgram, ClickChange
<1>13. ASSUME NEW op \in ConfirmedOps, NEW p \in Pages, AskBefore(op, p)
       PROVE  FlagsOK' /\ SequencesOK' /\ RestOK'
  <2>1. dialogs' \in Seq(Dialogs) /\ isBusy' \in BOOLEAN
    BY <1>13, OpenType, DialogKinds DEF AskBefore, FlagsOK, SequencesOK
  <2> QED BY <1>3, <1>6, <1>13, <2>1 DEF AskBefore, ClickChange
<1>14. CASE RunMaintenance \/ ApplyStaticIp \/ SetDhcp
  BY <1>5, <1>13, <1>14, DialogKinds DEF RunMaintenance, ApplyStaticIp, SetDhcp
<1> QED BY <1>2, <1>8, <1>9, <1>10, <1>11, <1>12, <1>14 DEF ClickAny

LEMMA AnswerType == TypeOK /\ AnswerAny => TypeOK'
<1> SUFFICES ASSUME FlagsOK, SequencesOK, RestOK, AnswerAny
             PROVE  FlagsOK' /\ SequencesOK' /\ RestOK'
  BY TypeOKParts, PTL
<1>1. Below \in Seq(Dialogs) /\ Top \in Dialogs
  BY BelowType DEF AnswerAny, AnswerNo, AnswerYes, DismissNotice, Answer, SequencesOK
<1>2. CASE AnswerNo
  BY <1>1, <1>2 DEF AnswerNo, Answer, FlagsOK, SequencesOK, RestOK
<1>3. CASE AnswerYes
  <2>1. Top.op \in ConfirmedOps /\ Top.op \in ChangeOps
    BY <1>1, <1>3 DEF AnswerYes, Answer, Dialogs, ChangeOps
  <2>2. changes' \subseteq (ChangeOps \X BOOLEAN)
    BY <1>3, <2>1, ChangeType DEF AnswerYes, RestOK
  <2>3. dialogs' \in Seq(Dialogs)
    <3> DEFINE notice == [op |-> Top.op, stage |-> "notice"]
    <3>1. \/ dialogs' = Below
          \/ Top.op \in MaintenanceOps /\ dialogs' = Append(Below, notice)
      BY <1>3 DEF AnswerYes, ConfirmedWork
    <3>2. Top.op \in MaintenanceOps => notice \in Dialogs
      BY DialogKinds
    <3> QED BY <1>1, <3>1, <3>2
  <2>4. isBusy' \in BOOLEAN
    BY <1>3 DEF AnswerYes, ConfirmedWork, FlagsOK
  <2> QED BY <1>3, <2>2, <2>3, <2>4 DEF AnswerYes, Answer, FlagsOK, SequencesOK, RestOK
<1>4. CASE DismissNotice
  <2>1. isBusy' \in BOOLEAN
    BY <1>4 DEF DismissNotice, FlagsOK
  <2>2. autoTimer' \in BOOLEAN
    BY <1>4 DEF DismissNotice, ArmAutoSend, FlagsOK
  <2> QED BY <1>1, <1>4, <2>1, <2>2 DEF DismissNotice, Answer, FlagsOK, SequencesOK, RestOK
<1> QED BY <1>2, <1>3, <1>4 DEF AnswerAny

\* The state variables keep their types, for any bound on the clicks.
THEOREM TypeCorrect == Spec => []TypeOK
<1>1. Init => TypeOK
  <2>1. Init => RestOK
    BY DEF Init, RestOK, Pages
  <2>2. Init => FlagsOK
    BY DEF Init, FlagsOK
  <2>3. Init => SequencesOK
    BY DEF Init, SequencesOK, Events
  <2> QED BY <2>1, <2>2, <2>3, TypeOKParts
<1>2. TypeOK /\ [Next]_vars => TypeOK'
  <2>1. TypeOK /\ TimerExpires => TypeOK'
    <3>1. SequencesOK /\ TimerExpires => SequencesOK'
      BY DEF SequencesOK, TimerExpires, Events
    <3>2. FlagsOK /\ TimerExpires => FlagsOK'
      BY DEF FlagsOK, TimerExpires
    <3>3. RestOK /\ TimerExpires => RestOK'
      BY DEF RestOK, TimerExpires
    <3> QED BY <3>1, <3>2, <3>3, TypeOKParts, PTL
  <2>2. TypeOK /\ UNCHANGED vars => TypeOK'
    BY DEF TypeOK, vars
  <2> QED BY <2>1, <2>2, DispatchType, ClickType, AnswerType DEF Next
<1> QED BY <1>1, <1>2, PTL DEF Spec

-----------------------------------------------------------------------------
(* The owner of the busy flag.  BusyHasOneOwner is inductive: clicks need   *)
(* an empty stack, a delivered event opens a box only when nobody holds the *)
(* flag, and an answer pops the only possible owner.                        *)

NoOwner(s) == \A i \in DOMAIN s : ~Holds(s[i])

LEMMA NotBusyNoOwner ==
    BusyHasOneOwner => (~isBusy <=> NoOwner(dialogs))
BY DEF BusyHasOneOwner, NoOwner

LEMMA IdleStack ==
    ASSUME NoOwner(dialogs)', ~isBusy'
    PROVE  BusyHasOneOwner'
BY DEF BusyHasOneOwner, NoOwner

LEMMA OpenOwner ==
    ASSUME NEW s \in Seq(Dialogs), NoOwner(s), NEW d \in Dialogs,
           dialogs' = Append(s, d), isBusy' <=> Holds(d)
    PROVE  BusyHasOneOwner'
<1>1. /\ Len(dialogs') = Len(s) + 1
      /\ DOMAIN dialogs' = 1 .. Len(s) + 1
      /\ dialogs'[Len(s) + 1] = d
      /\ \A i \in DOMAIN s : dialogs'[i] = s[i]
      /\ DOMAIN s = 1 .. Len(s)
      /\ Len(s) \in Nat
  OBVIOUS
<1>2. \A i \in DOMAIN dialogs' : Holds(dialogs'[i]) => i = Len(s) + 1
  BY <1>1 DEF NoOwner
<1>3. Holds(d) <=> \E i \in DOMAIN dialogs' : Holds(dialogs'[i])
  BY <1>1, <1>2
<1> QED BY <1>1, <1>2, <1>3 DEF BusyHasOneOwner, Holds

LEMMA BelowNoOwner ==
    ASSUME BusyHasOneOwner, dialogs \in Seq(Dialogs), dialogs # <<>>
    PROVE  NoOwner(Below)
BY BelowType DEF BusyHasOneOwner, NoOwner

\* The ways to run a job, and to be refused, keep the owner unique.
LEMMA WorkOwner ==
    ASSUME TypeOK, BusyHasOneOwner,
           \/ BeginWorkEnd
           \/ \E op \in BusyNoticeOps : BeginWorkNotify(op)
           \/ Refused
           \/ SendReport
    PROVE  BusyHasOneOwner'
<1>1. CASE BeginWorkEnd
  BY <1>1, NotBusyNoOwner, IdleStack DEF BeginWorkEnd, TryBegin, NoOwner
<1>2. ASSUME NEW op \in BusyNoticeOps, BeginWorkNotify(op)
      PROVE  BusyHasOneOwner'
  <2> DEFINE d == [op |-> op, stage |-> "notice"]
  <2>1. d \in Dialogs /\ Holds(d)
    BY DEF Dialogs, NoticeOps, Holds
  <2>2. NoOwner(dialogs) /\ dialogs' = Append(dialogs, d) /\ isBusy'
    BY <1>2, NotBusyNoOwner DEF BeginWorkNotify, TryBegin, Open
  <2> QED BY <2>1, <2>2, OpenOwner DEF TypeOK
<1>3. CASE Refused
  BY <1>3 DEF Refused, BusyHasOneOwner
<1>4. CASE SendReport
  BY <1>1, <1>2, <1>3, <1>4 DEF SendReport, BusyNoticeOps
<1> QED BY <1>1, <1>2, <1>3, <1>4

LEMMA StayOwner ==
    ASSUME BusyHasOneOwner, UNCHANGED <<isBusy, dialogs>>
    PROVE  BusyHasOneOwner'
BY DEF BusyHasOneOwner

\* A box that does not hold the flag, opened while the tool is idle.
LEMMA OpenUnowned ==
    ASSUME TypeOK, BusyHasOneOwner, ~isBusy, UNCHANGED isBusy,
           NEW op, NEW stage, [op |-> op, stage |-> stage] \in Dialogs,
           ~Holds([op |-> op, stage |-> stage]), Open(op, stage)
    PROVE  BusyHasOneOwner'
BY NotBusyNoOwner, OpenOwner DEF Open, TypeOK

LEMMA ClickOwner == TypeOK /\ BusyHasOneOwner /\ ClickAny => BusyHasOneOwner'
<1> SUFFICES ASSUME TypeOK, BusyHasOneOwner, ClickAny PROVE BusyHasOneOwner'
  OBVIOUS
<1>1. CASE \E p \in Pages : SelectPage(p)
  BY <1>1, StayOwner DEF SelectPage
<1>2. CASE RefreshPcInfo \/ RefreshStatus \/ RefreshAdapters
             \/ ClickSendReport \/ ApplySettings
  BY <1>2, WorkOwner
     DEF RefreshPcInfo, RefreshStatus, RefreshAdapters, ClickSendReport, ApplySettings
<1>3. CASE RenamePc
  <2>1. ~Holds([op |-> "rename", stage |-> "notice"])
    BY DEF Holds, BusyNoticeOps, MaintenanceOps
  <2> QED BY <1>3, <2>1, DialogKinds, OpenUnowned, StayOwner
          DEF RenamePc, ClickChange, ClickOn, Click
<1>4. CASE PrepareActivation
  BY <1>4, StayOwner DEF PrepareActivation
<1>5. CASE LaunchProgram
  BY <1>5, WorkOwner DEF LaunchProgram, BusyNoticeOps
<1>6. ASSUME NEW op \in ConfirmedOps, NEW p, AskBefore(op, p)
      PROVE  BusyHasOneOwner'
  <2>1. ~Holds([op |-> op, stage |-> "confirm"])
    BY DEF Holds
  <2> QED BY <1>6, <2>1, DialogKinds, OpenUnowned
          DEF AskBefore, ClickChange, ClickOn, Click
<1>7. CASE RunMaintenance \/ ApplyStaticIp \/ SetDhcp
  BY <1>6, <1>7 DEF RunMaintenance, ApplyStaticIp, SetDhcp, ConfirmedOps
<1> QED BY <1>1, <1>2, <1>3, <1>4, <1>5, <1>7 DEF ClickAny

LEMMA AnswerOwner == TypeOK /\ BusyHasOneOwner /\ AnswerAny => BusyHasOneOwner'
<1> SUFFICES ASSUME TypeOK, BusyHasOneOwner, AnswerAny PROVE BusyHasOneOwner'
  OBVIOUS
<1>1. dialogs \in Seq(Dialogs) /\ dialogs # <<>>
  BY DEF AnswerAny, AnswerNo, AnswerYes, DismissNotice, Answer, TypeOK
<1>2. NoOwner(Below) /\ Below \in Seq(Dialogs)
  BY <1>1, BelowNoOwner, BelowType
<1>3. isBusy <=> Holds(Top)
  <2>1. Len(dialogs) \in DOMAIN dialogs
    BY <1>1
  <2> QED BY <2>1 DEF BusyHasOneOwner, Top
<1>4. ~Holds(Top) \/ Top.stage = "notice"
  BY DEF Holds
<1>5. CASE AnswerNo
  <2>1. ~isBusy
    BY <1>3, <1>5 DEF AnswerNo, Answer, Holds
  <2> QED BY <1>2, <1>5, <2>1, IdleStack DEF AnswerNo, NoOwner
<1>6. CASE AnswerYes
  <2>1. ~isBusy
    BY <1>3, <1>6 DEF AnswerYes, Answer, Holds
  <2>2. CASE Top.op \in MaintenanceOps
    <3> DEFINE d == [op |-> Top.op, stage |-> "notice"]
    <3>1. d \in Dialogs /\ Holds(d)
      BY <2>2 DEF Dialogs, NoticeOps, BusyNoticeOps, Holds
    <3>2. dialogs' = Append(Below, d) /\ isBusy'
      BY <1>6, <2>1, <2>2 DEF AnswerYes, ConfirmedWork, TryBegin
    <3> QED BY <1>2, <3>1, <3>2, OpenOwner
  <2>3. CASE Top.op \notin MaintenanceOps
    BY <1>2, <1>6, <2>1, <2>3, IdleStack
       DEF AnswerYes, ConfirmedWork, TryBegin, NoOwner
  <2> QED BY <2>2, <2>3
<1>7. CASE DismissNotice
  <2>1. ~isBusy' /\ dialogs' = Below
    BY <1>3, <1>7 DEF DismissNotice
  <2> QED BY <1>2, <2>1, IdleStack DEF NoOwner
<1> QED BY <1>5, <1>6, <1>7 DEF AnswerAny

LEMMA OwnerInductive ==
    TypeOK /\ BusyHasOneOwner /\ [Next]_vars => BusyHasOneOwner'
<1>1. TypeOK /\ BusyHasOneOwner /\ Dispatch => BusyHasOneOwner'
  BY WorkOwner, StayOwner
     DEF Dispatch, InitializeStartup, LoadOnFirstShow, AutoSendAgentReport, BusyNoticeOps
<1>2. BusyHasOneOwner /\ (TimerExpires \/ UNCHANGED vars) => BusyHasOneOwner'
  BY StayOwner DEF TimerExpires, vars
<1> QED BY <1>1, <1>2, ClickOwner, AnswerOwner DEF Next

\* The busy flag is set exactly while the handler under the top message box
\* owns it, and nobody else ever does.
THEOREM BusyOwnership == Spec => []BusyHasOneOwner
<1>1. Init => BusyHasOneOwner
  BY DEF Init, BusyHasOneOwner
<1> QED BY <1>1, OwnerInductive, TypeCorrect, PTL DEF Spec

\* A question the user can answer is answered while the tool is idle, so the
\* confirmed operation always gets the busy flag.
THEOREM ConfirmedGetsBusy == Spec => []ConfirmedNeverRefused
<1>1. TypeOK /\ BusyHasOneOwner => ConfirmedNeverRefused
  <2> SUFFICES ASSUME TypeOK, BusyHasOneOwner, dialogs # <<>>, Top.stage = "confirm"
               PROVE  ~isBusy
    BY DEF ConfirmedNeverRefused
  <2>1. Len(dialogs) \in DOMAIN dialogs
    BY DEF TypeOK
  <2> QED BY <2>1 DEF BusyHasOneOwner, Holds, Top
<1> QED BY <1>1, BusyOwnership, TypeCorrect, PTL

-----------------------------------------------------------------------------
(* The auto-send token.  AutoSendExactlyOnce is not inductive: that the     *)
(* startup handler ends exactly once needs to know that nothing happens     *)
(* before it is delivered and that its message box is alone.                *)

StartupOpen == \E i \in DOMAIN dialogs : dialogs[i].op = "init"

BeforeStartup ==
    IsPosted("init") => posted = <<"init">> /\ dialogs = <<>> /\ ~isBusy

StartupAlone == StartupOpen => Len(dialogs) = 1

AutoSendInv == AutoSendExactlyOnce /\ BeforeStartup /\ StartupAlone

AutoToken == autoTimer \/ IsPosted("auto_send") \/ autoSends = 1

\* Delivering the first posted event takes it, and only it, out of posted.
LEMMA DeliverPosted ==
    ASSUME TypeOK, NEW x, Deliver(x), NEW e
    PROVE  /\ IsPosted(x)
           /\ e # x => (IsPosted(e)' <=> IsPosted(e))
           /\ AtMostOncePosted(e) => AtMostOncePosted(e)'
           /\ AtMostOncePosted(x) => ~IsPosted(x)'
<1>1. /\ Len(posted) \in Nat /\ Len(posted) > 0
      /\ DOMAIN posted = 1 .. Len(posted)
      /\ posted[1] = x
      /\ DOMAIN posted' = 1 .. Len(posted) - 1
      /\ \A i \in 1 .. Len(posted) - 1 : posted'[i] = posted[i + 1]
  BY DEF Deliver, TypeOK
<1>2. IsPosted(x)
  BY <1>1 DEF IsPosted
<1>3. e # x => (IsPosted(e)' <=> IsPosted(e))
  <2>1. IsPosted(e)' => IsPosted(e)
    BY <1>1 DEF IsPosted
  <2>2. ASSUME e # x, IsPosted(e) PROVE IsPosted(e)'
    <3>1. PICK i \in 1 .. Len(posted) : posted[i] = e
      BY <1>1, <2>2 DEF IsPosted
    <3>2. i - 1 \in 1 .. Len(posted) - 1 /\ posted'[i - 1] = e
      BY <1>1, <2>2, <3>1
    <3> QED BY <1>1, <3>2 DEF IsPosted
  <2> QED BY <2>1, <2>2
<1>4. AtMostOncePosted(e) => AtMostOncePosted(e)'
  <2> SUFFICES ASSUME AtMostOncePosted(e), NEW i \in DOMAIN posted',
                      NEW j \in DOMAIN posted', posted'[i] = e, posted'[j] = e
               PROVE  i = j
    BY DEF AtMostOncePosted
  <2>1. /\ i + 1 \in DOMAIN posted /\ posted[i + 1] = e
        /\ j + 1 \in DOMAIN posted /\ posted[j + 1] = e
    BY <1>1
  <2>2. i + 1 = j + 1
    BY <2>1 DEF AtMostOncePosted
  <2> QED BY <1>1, <2>2
<1>5. AtMostOncePosted(x) => ~IsPosted(x)'
  <2> SUFFICES ASSUME AtMostOncePosted(x), NEW i \in DOMAIN posted', posted'[i] = x
               PROVE  FALSE
    BY DEF IsPosted
  <2>1. i + 1 \in DOMAIN posted /\ 1 \in DOMAIN posted /\ posted[i + 1] = x /\ i \in Nat \ {0}
    BY <1>1
  <2>2. i + 1 = 1
    BY <1>1, <2>1 DEF AtMostOncePosted
  <2> QED BY <2>1, <2>2
<1> QED BY <1>2, <1>3, <1>4, <1>5

LEMMA PostPosted ==
    ASSUME TypeOK, NEW x, posted' = Append(posted, x), NEW e
    PROVE  /\ IsPosted(e)' <=> IsPosted(e) \/ e = x
           /\ AtMostOncePosted(e) /\ (e # x \/ ~IsPosted(e)) => AtMostOncePosted(e)'
<1>1. /\ Len(posted) \in Nat
      /\ DOMAIN posted = 1 .. Len(posted)
      /\ DOMAIN posted' = 1 .. Len(posted) + 1
      /\ \A i \in 1 .. Len(posted) : posted'[i] = posted[i]
      /\ posted'[Len(posted) + 1] = x
  BY DEF TypeOK
<1>2. IsPosted(e)' <=> IsPosted(e) \/ e = x
  BY <1>1 DEF IsPosted
<1>3. AtMostOncePosted(e) /\ (e # x \/ ~IsPosted(e)) => AtMostOncePosted(e)'
  BY <1>1 DEF IsPosted, AtMostOncePosted
<1> QED BY <1>2, <1>3

LEMMA SamePosted ==
    ASSUME UNCHANGED posted, NEW e
    PROVE  (IsPosted(e)' <=> IsPosted(e)) /\ (AtMostOncePosted(e)' <=> AtMostOncePosted(e))
BY DEF IsPosted, AtMostOncePosted

\* A step that keeps the token, the startup event and the startup box keeps
\* the invariant.
LEMMA TokenKept ==
    ASSUME AutoSendInv, TypeOK,
           UNCHANGED <<env, autoTimer, autoSends>>,
           IsPosted("auto_send")' <=> IsPosted("auto_send"),
           AtMostOncePosted("auto_send")',
           ~IsPosted("init"), ~IsPosted("init")',
           StartupOpen' <=> StartupOpen, StartupAlone'
    PROVE  AutoSendInv'
BY DEF AutoSendInv, AutoSendExactlyOnce, BeforeStartup, StartupEnded, StartupOpen, TypeOK

LEMMA AutoSendDispatch == TypeOK /\ AutoSendInv /\ Dispatch => AutoSendInv'
<1> SUFFICES ASSUME TypeOK, AutoSendInv, Dispatch PROVE AutoSendInv'
  OBVIOUS
<1>1. CASE InitializeStartup
  <2>1. posted = <<"init">> /\ dialogs = <<>> /\ ~isBusy
    BY <1>1, DeliverPosted DEF InitializeStartup, AutoSendInv, BeforeStartup
  <2>2. posted' = <<>>
    BY <1>1, <2>1 DEF InitializeStartup, Deliver
  <2>3. ~IsPosted("init")' /\ ~IsPosted("auto_send")' /\ AtMostOncePosted("auto_send")'
    BY <2>2 DEF IsPosted, AtMostOncePosted
  <2>4. ~autoTimer /\ autoSends # 1 /\ autoSends <= 1
    BY <1>1, DeliverPosted
       DEF InitializeStartup, AutoSendInv, AutoSendExactlyOnce, StartupEnded
  <2>5. autoSends' = 0 /\ env' = env
    BY <1>1, <2>4 DEF InitializeStartup, Deliver, TypeOK
  <2>6. CASE env.isAdmin /\ BeginWorkEnd /\ ArmAutoSend
    <3>1. dialogs' = <<>> /\ (autoTimer' <=> env'.autoSend)
      BY <2>1, <2>4, <2>5, <2>6 DEF BeginWorkEnd, ArmAutoSend
    <3>2. ~StartupOpen' /\ StartupEnded'
      BY <2>3, <3>1 DEF StartupOpen, StartupEnded
    <3> QED BY <2>3, <2>5, <3>1, <3>2
            DEF AutoSendInv, AutoSendExactlyOnce, BeforeStartup, StartupAlone
  <2>7. CASE ~env.isAdmin /\ BeginWorkNotify("init") /\ UNCHANGED autoTimer
    <3>1. dialogs' = <<[op |-> "init", stage |-> "notice"]>> /\ ~autoTimer'
      BY <2>1, <2>4, <2>7 DEF BeginWorkNotify, Open
    <3>2. Len(dialogs') = 1 /\ ~StartupEnded'
      BY <3>1 DEF StartupEnded
    <3> QED BY <2>3, <2>5, <3>1, <3>2
            DEF AutoSendInv, AutoSendExactlyOnce, BeforeStartup, StartupAlone
  <2> QED BY <1>1, <2>1, <2>6, <2>7 DEF InitializeStartup, Refused, TryBegin
<1>2. ASSUME NEW p \in FirstShowPages, LoadOnFirstShow(p) PROVE AutoSendInv'
  <2>1. p # "auto_send" /\ p # "init"
    BY DEF FirstShowPages
  <2>2. UNCHANGED <<env, autoTimer, autoSends, dialogs>>
    BY <1>2 DEF LoadOnFirstShow, Deliver, BeginWorkEnd, Refused
  <2>3. /\ IsPosted("auto_send")' <=> IsPosted("auto_send")
        /\ IsPosted("init")' <=> IsPosted("init")
        /\ AtMostOncePosted("auto_send")'
    BY <1>2, <2>1, DeliverPosted
       DEF LoadOnFirstShow, AutoSendInv, AutoSendExactlyOnce
  <2>4. ~IsPosted("init")
    BY <1>2, <2>1, DeliverPosted
       DEF LoadOnFirstShow, AutoSendInv, BeforeStartup, Deliver
  <2>5. StartupOpen' <=> StartupOpen
    BY <2>2 DEF StartupOpen
  <2>6. StartupAlone'
    BY <2>2, <2>5 DEF StartupAlone, AutoSendInv
  <2> QED BY <2>2, <2>3, <2>4, <2>5, <2>6, TokenKept
<1>3. CASE AutoSendAgentReport
  <2>1. IsPosted("auto_send") /\ ~IsPosted("auto_send")' /\ AtMostOncePosted("auto_send")'
    BY <1>3, DeliverPosted DEF AutoSendAgentReport, AutoSendInv, AutoSendExactlyOnce
  <2>2. env.autoSend /\ StartupEnded /\ autoSends = 0 /\ ~autoTimer
    BY <2>1 DEF AutoSendInv, AutoSendExactlyOnce
  <2>3. ~IsPosted("init")' /\ env' = env
    BY <1>3, <2>2, DeliverPosted DEF AutoSendAgentReport, StartupEnded, Deliver
  <2>4. /\ autoTimer' \/ autoSends' = 1
        /\ ~(autoTimer' /\ autoSends' = 1)
        /\ autoSends' \in {0, 1}
    BY <1>3, <2>2 DEF AutoSendAgentReport
  <2>5. ~StartupOpen'
    <3>1. ~StartupOpen
      BY <2>2 DEF StartupEnded, StartupOpen
    <3>2. \/ UNCHANGED dialogs
          \/ dialogs' = Append(dialogs, [op |-> "send", stage |-> "notice"])
      BY <1>3 DEF AutoSendAgentReport, SendReport, BeginWorkEnd,
                  BeginWorkNotify, Refused, Open
    <3>3. CASE dialogs' = Append(dialogs, [op |-> "send", stage |-> "notice"])
      BY <3>1, <3>3 DEF StartupOpen, TypeOK
    <3> QED BY <3>1, <3>2, <3>3 DEF StartupOpen
  <2>6. StartupEnded'
    BY <2>3, <2>5 DEF StartupEnded, StartupOpen
  <2> QED BY <2>1, <2>2, <2>3, <2>4, <2>5, <2>6
          DEF AutoSendInv, AutoSendExactlyOnce, BeforeStartup, StartupAlone
<1> QED BY <1>1, <1>2, <1>3 DEF Dispatch

\* What a click leaves of the stack and of the posted events.
LEMMA ClickEffect ==
    ASSUME TypeOK, ClickAny
    PROVE  /\ Click
           /\ \/ dialogs' = <<>>
              \/ \E d \in Dialogs : d.op # "init" /\ dialogs' = <<d>>
           /\ \/ UNCHANGED <<posted, loadedOnce>>
              \/ \E p \in FirstShowPages :
                    /\ ~loadedOnce[p]
                    /\ loadedOnce' = [loadedOnce EXCEPT ![p] = TRUE]
                    /\ posted' = Append(posted, p)
<1>1. Click
  BY DEF ClickAny, SelectPage, RefreshPcInfo, RefreshStatus, RefreshAdapters,
         ClickSendReport, RenamePc, ApplySettings, PrepareActivation, LaunchProgram,
         RunMaintenance, ApplyStaticIp, SetDhcp, AskBefore, ClickChange, ClickOn
<1>2. dialogs = <<>>
  BY <1>1 DEF Click
<1>3. ASSUME NEW op \in NoticeOps \ {"init"}, Open(op, "notice")
      PROVE  \E d \in Dialogs : d.op # "init" /\ dialogs' = <<d>>
  BY <1>2, <1>3, DialogKinds DEF Open
<1>4. ASSUME NEW op \in ConfirmedOps, Open(op, "confirm")
      PROVE  \E d \in Dialogs : d.op # "init" /\ dialogs' = <<d>>
  BY <1>2, <1>4, DialogKinds DEF Open, ConfirmedOps, MaintenanceOps
<1>5. CASE \E p \in Pages : SelectPage(p)
  BY <1>1, <1>2, <1>5 DEF SelectPage
<1>6. CASE ~(\E p \in Pages : SelectPage(p))
  <2>1. UNCHANGED <<posted, loadedOnce>>
    BY <1>6 DEF ClickAny, RefreshPcInfo, RefreshStatus, RefreshAdapters,
         ClickSendReport, RenamePc, ApplySettings, PrepareActivation, LaunchProgram,
         RunMaintenance, ApplyStaticIp, SetDhcp, AskBefore, ClickChange, ClickOn
  <2>2. \/ UNCHANGED dialogs
        \/ \E op \in NoticeOps \ {"init"} : Open(op, "notice")
        \/ \E op \in ConfirmedOps : Open(op, "confirm")
    BY <1>6, DialogKinds
       DEF ClickAny, RefreshPcInfo, RefreshStatus, RefreshAdapters,
           ClickSendReport, RenamePc, ApplySettings, PrepareActivation, LaunchProgram,
           RunMaintenance, ApplyStaticIp, SetDhcp, AskBefore, SendReport,
           BeginWorkEnd, BeginWorkNotify, Refused
  <2> QED BY <1>1, <1>2, <1>3, <1>4, <2>1, <2>2
<1> QED BY <1>5, <1>6

LEMMA AutoSendClick == TypeOK /\ AutoSendInv /\ ClickAny => AutoSendInv'
<1> SUFFICES ASSUME TypeOK, AutoSendInv, ClickAny PROVE AutoSendInv'
  OBVIOUS
<1>1. /\ ~IsPosted("init")
      /\ dialogs = <<>>
      /\ UNCHANGED <<env, autoTimer, autoSends>>
  BY ClickEffect DEF Click
<1>2. ~StartupOpen /\ ~StartupOpen' /\ StartupAlone'
  BY <1>1, ClickEffect DEF StartupOpen, StartupAlone
<1>3. /\ IsPosted("auto_send")' <=> IsPosted("auto_send")
      /\ AtMostOncePosted("auto_send")'
      /\ ~IsPosted("init")'
  <2>1. AtMostOncePosted("auto_send")
    BY DEF AutoSendInv, AutoSendExactlyOnce
  <2>2. CASE UNCHANGED posted
    BY <1>1, <2>1, <2>2, SamePosted
  <2>3. ASSUME NEW p \in FirstShowPages, posted' = Append(posted, p)
        PROVE  /\ IsPosted("auto_send")' <=> IsPosted("auto_send")
               /\ AtMostOncePosted("auto_send")'
               /\ ~IsPosted("init")'
    <3>1. p # "auto_send" /\ p # "init"
      BY DEF FirstShowPages
    <3> QED BY <1>1, <2>1, <2>3, <3>1, PostPosted
  <2> QED BY <2>2, <2>3, ClickEffect
<1> QED BY <1>1, <1>2, <1>3, TokenKept

LEMMA AutoSendTimer == TypeOK /\ AutoSendInv /\ TimerExpires => AutoSendInv'
<1> SUFFICES ASSUME TypeOK, AutoSendInv, TimerExpires PROVE AutoSendInv'
  OBVIOUS
<1>1. /\ autoTimer /\ ~autoTimer' /\ posted' = Append(posted, "auto_send")
      /\ UNCHANGED <<env, dialogs, isBusy, autoSends>>
  BY DEF TimerExpires
<1>2. ~IsPosted("auto_send") /\ autoSends = 0 /\ env.autoSend /\ StartupEnded
  BY <1>1 DEF AutoSendInv, AutoSendExactlyOnce
<1>3. /\ IsPosted("auto_send")'
      /\ AtMostOncePosted("auto_send")'
      /\ ~IsPosted("init")'
  BY <1>1, <1>2, PostPosted DEF AutoSendInv, AutoSendExactlyOnce, StartupEnded
<1>4. StartupEnded' /\ StartupAlone'
  BY <1>1, <1>2, <1>3 DEF StartupEnded, StartupAlone, StartupOpen, AutoSendInv
<1> QED BY <1>1, <1>2, <1>3, <1>4 DEF AutoSendInv, AutoSendExactlyOnce, BeforeStartup

LEMMA AutoSendAnswer == TypeOK /\ AutoSendInv /\ AnswerAny => AutoSendInv'
<1> SUFFICES ASSUME TypeOK, AutoSendInv, AnswerAny PROVE AutoSendInv'
  OBVIOUS
<1>1. /\ dialogs # <<>>
      /\ UNCHANGED <<env, posted, autoSends>>
  BY DEF AnswerAny, AnswerNo, AnswerYes, DismissNotice, Answer
<1>2. /\ Below \in Seq(Dialogs) /\ Top \in Dialogs
      /\ Len(Below) = Len(dialogs) - 1
      /\ \A i \in DOMAIN Below : i \in DOMAIN dialogs /\ Below[i] = dialogs[i]
  BY <1>1, BelowType DEF TypeOK
<1>3. /\ ~IsPosted("init") /\ ~IsPosted("init")'
      /\ IsPosted("auto_send")' <=> IsPosted("auto_send")
      /\ AtMostOncePosted("auto_send")'
  BY <1>1, SamePosted DEF AutoSendInv, BeforeStartup, AutoSendExactlyOnce
<1>4. Len(dialogs) \in DOMAIN dialogs /\ Top = dialogs[Len(dialogs)]
  BY <1>1 DEF TypeOK, Top
<1>5. StartupOpen <=> Top.op = "init"
  <2>1. ASSUME NEW i \in DOMAIN dialogs, dialogs[i].op = "init"
        PROVE  Top.op = "init"
    <3>1. Len(dialogs) = 1
      BY <2>1 DEF AutoSendInv, StartupAlone, StartupOpen
    <3>2. i = Len(dialogs)
      BY <3>1 DEF TypeOK
    <3> QED BY <1>4, <2>1, <3>2
  <2> QED BY <1>4, <2>1 DEF StartupOpen
<1>6. StartupOpen => Len(Below) = 0
  BY <1>2 DEF AutoSendInv, StartupAlone
<1>7. ~(\E i \in DOMAIN Below : Below[i].op = "init")
  <2>1. DOMAIN Below = 1 .. Len(Below)
    BY <1>2
  <2> QED BY <1>2, <1>6, <2>1 DEF StartupOpen
<1>8. CASE AnswerNo \/ AnswerYes
  <2>1. Top.op # "init" /\ UNCHANGED autoTimer
    BY <1>2, <1>8 DEF AnswerNo, AnswerYes, Answer, Dialogs, ConfirmedOps, MaintenanceOps
  <2>2. \/ dialogs' = Below
        \/ dialogs' = Append(Below, [op |-> Top.op, stage |-> "notice"])
    BY <1>8 DEF AnswerNo, AnswerYes, ConfirmedWork
  <2>3. ~StartupOpen'
    <3>1. CASE dialogs' = Below
      BY <1>7, <3>1 DEF StartupOpen
    <3>2. CASE dialogs' = Append(Below, [op |-> Top.op, stage |-> "notice"])
      BY <1>2, <1>7, <2>1, <3>2 DEF StartupOpen
    <3> QED BY <2>2, <3>1, <3>2
  <2>4. StartupAlone' /\ (StartupOpen' <=> StartupOpen)
    BY <1>5, <2>1, <2>3 DEF StartupAlone
  <2> QED BY <1>1, <1>3, <2>1, <2>4, TokenKept
<1>9. CASE DismissNotice
  <2>1. dialogs' = Below
    BY <1>9 DEF DismissNotice
  <2>2. ~StartupOpen' /\ StartupAlone'
    BY <1>7, <2>1 DEF StartupOpen, StartupAlone
  <2>3. CASE Top.op # "init"
    <3>1. UNCHANGED autoTimer
      BY <1>9, <2>3 DEF DismissNotice
    <3> QED BY <1>1, <1>3, <1>5, <2>2, <2>3, <3>1, TokenKept
  <2>4. CASE Top.op = "init"
    <3>1. ~StartupEnded
      BY <1>5, <2>4 DEF StartupEnded, StartupOpen
    <3>2. ~autoTimer /\ ~IsPosted("auto_send") /\ autoSends # 1 /\ autoSends <= 1
      BY <3>1 DEF AutoSendInv, AutoSendExactlyOnce
    <3>3. autoTimer' <=> env'.autoSend
      BY <1>1, <1>9, <2>4, <3>2 DEF DismissNotice, ArmAutoSend
    <3>4. autoSends' = 0
      BY <1>1, <3>2 DEF TypeOK
    <3>5. StartupEnded'
      BY <1>3, <2>2 DEF StartupEnded, StartupOpen
    <3> QED BY <1>3, <2>2, <3>2, <3>3, <3>4, <3>5
            DEF AutoSendInv, AutoSendExactlyOnce, BeforeStartup
  <2> QED BY <2>3, <2>4
<1> QED BY <1>8, <1>9 DEF AnswerAny

LEMMA AutoSendInductive == Spec => []AutoSendInv
<1>1. Init => AutoSendInv
  BY DEF Init, AutoSendInv, AutoSendExactlyOnce, BeforeStartup, StartupAlone,
         StartupOpen, StartupEnded, IsPosted, AtMostOncePosted
<1>2. AutoSendInv /\ UNCHANGED vars => AutoSendInv'
  BY DEF vars, AutoSendInv, AutoSendExactlyOnce, BeforeStartup, StartupAlone,
         StartupOpen, StartupEnded, IsPosted, AtMostOncePosted
<1>3. TypeOK /\ AutoSendInv /\ [Next]_vars => AutoSendInv'
  BY <1>2, AutoSendDispatch, AutoSendClick, AutoSendTimer, AutoSendAnswer DEF Next
<1> QED BY <1>1, <1>3, TypeCorrect, PTL DEF Spec

\* The auto-send is scheduled by the end of the startup, survives being put
\* off and is never sent twice.
THEOREM AutoSendOnce == Spec => []AutoSendExactlyOnce
<1>1. AutoSendInv => AutoSendExactlyOnce
  BY DEF AutoSendInv
<1> QED BY <1>1, AutoSendInductive, PTL

-----------------------------------------------------------------------------
(* Test mode.  TestModeInert is inductive: what may be open under the       *)
(* buttons of test mode is the recycle bin's question or notice, and the    *)
(* guard of its use case blocks the confirmed change.                       *)

\* An operation that may show a message box in test mode.
Harmless(op) == op \in ChangeOps => op = "recycle_bin"

\* What every step leaves of that.
LEMMA InertKept ==
    ASSUME TypeOK, TestModeInert, UNCHANGED env, env.testMode => UNCHANGED changes,
           env.testMode =>
               \/ UNCHANGED dialogs
               \/ dialogs # <<>> /\ dialogs' = Below
               \/ \E op \in NoticeOps \cup ConfirmedOps :
                     Harmless(op) /\ \E stage \in {"confirm", "notice"} : Open(op, stage)
               \/ /\ dialogs # <<>>
                  /\ dialogs' = Append(Below, [op |-> Top.op, stage |-> "notice"])
    PROVE  TestModeInert'
<1> SUFFICES ASSUME env.testMode
             PROVE  changes' = {} /\ \A i \in DOMAIN dialogs' : Harmless(dialogs'[i].op)
  BY DEF TestModeInert, Harmless
<1>1. changes' = {} /\ \A i \in DOMAIN dialogs : Harmless(dialogs[i].op)
  BY DEF TestModeInert, Harmless
<1>2. CASE UNCHANGED dialogs
  BY <1>1, <1>2
<1>3. CASE dialogs # <<>> /\ dialogs' = Below
  BY <1>1, <1>3, BelowType DEF TypeOK
<1>4. CASE \E op \in NoticeOps \cup ConfirmedOps :
               Harmless(op) /\ \E stage \in {"confirm", "notice"} : Open(op, stage)
  <2>1. PICK op \in NoticeOps \cup ConfirmedOps, stage \in {"confirm", "notice"} :
            Harmless(op) /\ dialogs' = Append(dialogs, [op |-> op, stage |-> stage])
    BY <1>4 DEF Open
  <2>2. \A i \in DOMAIN dialogs' :
            dialogs'[i].op = op \/ (i \in DOMAIN dialogs /\ dialogs'[i] = dialogs[i])
    BY <2>1 DEF TypeOK
  <2> QED BY <1>1, <2>1, <2>2
<1>5. CASE dialogs # <<>> /\ dialogs' = Append(Below, [op |-> Top.op, stage |-> "notice"])
  <2>1. /\ Below \in Seq(Dialogs)
        /\ \A i \in DOMAIN Below : Harmless(Below[i].op)
    BY <1>1, <1>5, BelowType DEF TypeOK
  <2>2. Len(dialogs) \in DOMAIN dialogs
    BY <1>5 DEF TypeOK
  <2>3. Harmless(Top.op)
    BY <1>1, <2>2 DEF Top
  <2>4. \A i \in DOMAIN dialogs' :
            dialogs'[i].op = Top.op \/ (i \in DOMAIN Below /\ dialogs'[i] = Below[i])
    BY <1>5, <2>1
  <2> QED BY <1>1, <2>1, <2>3, <2>4
<1> QED BY <1>1, <1>2, <1>3, <1>4, <1>5

LEMMA InertStep == TypeOK /\ TestModeInert /\ [Next]_vars => TestModeInert'
<1> SUFFICES ASSUME TypeOK, TestModeInert, [Next]_vars PROVE TestModeInert'
  OBVIOUS
<1>1. /\ {"init", "send"} \subseteq NoticeOps /\ "recycle_bin" \in ConfirmedOps
      /\ Harmless("init") /\ Harmless("send") /\ Harmless("recycle_bin")
  BY DEF NoticeOps, BusyNoticeOps, ConfirmedOps, MaintenanceOps, ChangeOps, Harmless
<1>2. CASE Dispatch
  <2>1. UNCHANGED <<env, changes>>
    BY <1>2 DEF Dispatch, InitializeStartup, LoadOnFirstShow, AutoSendAgentReport, Deliver
  <2>2. UNCHANGED dialogs \/ Open("init", "notice") \/ Open("send", "notice")
    BY <1>2 DEF Dispatch, InitializeStartup, LoadOnFirstShow, AutoSendAgentReport,
                SendReport, BeginWorkEnd, BeginWorkNotify, Refused
  <2> QED BY <1>1, <2>1, <2>2, InertKept
<1>3. CASE TimerExpires \/ UNCHANGED vars
  <2>1. UNCHANGED <<env, changes, dialogs>>
    BY <1>3 DEF TimerExpires, vars
  <2> QED BY <2>1, InertKept
<1>4. CASE ClickAny
  <2>1. UNCHANGED env
    BY <1>4, ClickEffect DEF Click
  <2>2. ASSUME env.testMode
        PROVE  /\ UNCHANGED changes
               /\ \/ UNCHANGED dialogs
                  \/ Open("send", "notice")
                  \/ Open("recycle_bin", "confirm")
    <3>1. \/ \E p \in Pages : SelectPage(p)
          \/ RefreshPcInfo \/ RefreshStatus \/ RefreshAdapters \/ ClickSendReport
          \/ AskBefore("recycle_bin", "actions")
      BY <1>4, <2>2 DEF ClickAny, RenamePc, ApplySettings, PrepareActivation,
         LaunchProgram, RunMaintenance, ApplyStaticIp, SetDhcp, AskBefore, ClickChange
    <3> QED BY <3>1 DEF SelectPage, RefreshPcInfo, RefreshStatus, RefreshAdapters,
         ClickSendReport, SendReport, BeginWorkEnd, BeginWorkNotify, Refused, AskBefore
  <2> QED BY <1>1, <2>1, <2>2, InertKept
<1>5. CASE AnswerAny
  <2>1. dialogs # <<>> /\ UNCHANGED env
    BY <1>5 DEF AnswerAny, AnswerNo, AnswerYes, DismissNotice, Answer
  <2>2. ASSUME env.testMode PROVE UNCHANGED changes
    BY <1>5, <2>2 DEF AnswerAny, AnswerNo, AnswerYes, DismissNotice, Change, Blocked
  <2>3. \/ dialogs' = Below
        \/ dialogs' = Append(Below, [op |-> Top.op, stage |-> "notice"])
    BY <1>5 DEF AnswerAny, AnswerNo, AnswerYes, DismissNotice, ConfirmedWork
  <2> QED BY <2>1, <2>2, <2>3, InertKept
<1> QED BY <1>2, <1>3, <1>4, <1>5 DEF Next

\* In test mode no handler, in any order, makes a change to the PC, for any
\* number of clicks: the only operation whose button is left on is stopped by
\* the guard of its use case.
THEOREM TestModeStaysInert == Spec => []TestModeInert
<1>1. Init => TestModeInert
  BY DEF Init, TestModeInert
<1> QED BY <1>1, InertStep, TypeCorrect, PTL DEF Spec

-----------------------------------------------------------------------------
(* Message boxes do not pile up.  With the token of the automatic report    *)
(* the property is inductive: whoever opens a box finds none, but the       *)
(* report, which finds the tool idle and, not having been sent, at most one.*)

IInv == TypeOK /\ BusyHasOneOwner /\ AutoSendInv

LEMMA Invariance == Spec => []IInv
BY TypeCorrect, BusyOwnership, AutoSendInductive, PTL DEF IInv

LEMMA Depth ==
    ASSUME TypeOK, BoxesDoNotPileUp
    PROVE  /\ Len(dialogs) \in Nat /\ Len(dialogs) <= 2
           /\ Len(dialogs) > 1 => Top.stage = "notice" /\ autoSends = 1
<1>1. Len(dialogs) \in Nat
  BY DEF TypeOK
<1>2. Len(dialogs) > 1 => Top.stage = "notice" /\ autoSends = 1
  BY DEF BoxesDoNotPileUp
<1> QED BY <1>1, <1>2 DEF BoxesDoNotPileUp

LEMMA ShallowIsRight ==
    ASSUME Len(dialogs') <= 1, Len(dialogs') \in Nat
    PROVE  BoxesDoNotPileUp'
BY DEF BoxesDoNotPileUp

\* Opening a box that holds the flag over what is there.
LEMMA NotifyDepth ==
    ASSUME TypeOK, BusyHasOneOwner, BoxesDoNotPileUp, NEW op \in NoticeOps, BeginWorkNotify(op),
           dialogs = <<>> \/ (op = "send" /\ autoSends = 0 /\ autoSends' = 1 /\ env'.autoSend)
    PROVE  BoxesDoNotPileUp'
<1> DEFINE d == [op |-> op, stage |-> "notice"]
<1>1. dialogs' = Append(dialogs, d) /\ ~isBusy
  BY DEF BeginWorkNotify, TryBegin, Open
<1>2. Len(dialogs) \in Nat /\ Len(dialogs) <= 1
  BY Depth
<1>3. Len(dialogs') = Len(dialogs) + 1 /\ dialogs'[Len(dialogs) + 1] = d
  BY <1>1 DEF TypeOK
<1>4. CASE Len(dialogs) = 0
  BY <1>3, <1>4, ShallowIsRight
<1>5. CASE Len(dialogs) = 1
  <2>1. dialogs'[1] = dialogs[1] /\ 1 \in DOMAIN dialogs /\ dialogs # <<>>
    BY <1>1, <1>5 DEF TypeOK
  <2>2. ~Holds(dialogs'[1])
    BY <1>1, <2>1 DEF BusyHasOneOwner
  <2>3. Len(dialogs') = 2 /\ dialogs'[2] = d
    BY <1>3, <1>5
  <2>4. Top' = d
    BY <2>3 DEF Top
  <2>5. op = "send" /\ autoSends' = 1 /\ env'.autoSend
    BY <2>1
  <2>6. Len(dialogs') <= 2
    BY <2>3
  <2>7. /\ ~Holds(dialogs[1])'
        /\ Top' = [op |-> "send", stage |-> "notice"]
        /\ env'.autoSend /\ autoSends' = 1
    BY <2>2, <2>4, <2>5 DEF Holds
  <2> QED BY <2>6, <2>7 DEF BoxesDoNotPileUp
<1>6. Len(dialogs) = 0 \/ Len(dialogs) = 1
  <2> DEFINE n == Len(dialogs)
  <2>1. n \in Nat /\ n <= 1
    BY <1>2
  <2> HIDE DEF n
  <2>2. n = 0 \/ n = 1
    BY <2>1
  <2> QED BY <2>2 DEF n
<1> QED BY <1>4, <1>5, <1>6

\* With the stack as it was, or with the box on top closed.
LEMMA SameDepth ==
    ASSUME BoxesDoNotPileUp, UNCHANGED <<env, dialogs, autoSends>>
    PROVE  BoxesDoNotPileUp'
BY DEF BoxesDoNotPileUp, Top, Holds

LEMMA BelowDepth ==
    ASSUME TypeOK, BoxesDoNotPileUp, dialogs # <<>>, dialogs' = Below
    PROVE  BoxesDoNotPileUp'
<1>1. Len(dialogs) \in Nat /\ Len(dialogs) <= 2
  BY Depth
<1>2. Len(dialogs') = Len(dialogs) - 1
  BY BelowType DEF TypeOK
<1> QED BY <1>1, <1>2, ShallowIsRight

LEMMA DispatchDepth == IInv /\ BoxesDoNotPileUp /\ Dispatch => BoxesDoNotPileUp'
<1> SUFFICES ASSUME IInv, BoxesDoNotPileUp, Dispatch PROVE BoxesDoNotPileUp'
  OBVIOUS
<1> USE DEF IInv
<1>1. CASE InitializeStartup
  <2>1. Deliver("init") /\ UNCHANGED <<env, autoSends>>
    BY <1>1 DEF InitializeStartup, Deliver
  <2>2. dialogs = <<>>
    BY <2>1, DeliverPosted DEF AutoSendInv, BeforeStartup
  <2>3. CASE BeginWorkNotify("init")
    BY <2>2, <2>3, NotifyDepth, DialogKinds
  <2>4. CASE UNCHANGED dialogs
    BY <2>1, <2>4, SameDepth
  <2> QED BY <1>1, <2>3, <2>4 DEF InitializeStartup, BeginWorkEnd, Refused
<1>2. ASSUME NEW p \in FirstShowPages, LoadOnFirstShow(p) PROVE BoxesDoNotPileUp'
  BY <1>2, SameDepth DEF LoadOnFirstShow, Deliver, BeginWorkEnd, Refused
<1>3. CASE AutoSendAgentReport
  <2>1. Deliver("auto_send") /\ UNCHANGED env
    BY <1>3 DEF AutoSendAgentReport, Deliver
  <2>2. IsPosted("auto_send")
    BY <2>1, DeliverPosted
  <2>3. autoSends = 0 /\ env.autoSend
    BY <2>2 DEF AutoSendInv, AutoSendExactlyOnce, TypeOK
  <2>4. CASE isBusy
    BY <1>3, <2>1, <2>4, SameDepth DEF AutoSendAgentReport
  <2>5. CASE ~isBusy
    <3>1. autoSends' = 1 /\ (UNCHANGED dialogs \/ BeginWorkNotify("send"))
      BY <1>3, <2>3, <2>5 DEF AutoSendAgentReport, SendReport, BeginWorkEnd, Refused
    <3>2. CASE BeginWorkNotify("send")
      BY <2>1, <2>3, <3>1, <3>2, NotifyDepth, DialogKinds
    <3>3. CASE UNCHANGED dialogs
      BY <2>3, <3>3 DEF BoxesDoNotPileUp
    <3> QED BY <3>1, <3>2, <3>3
  <2> QED BY <2>4, <2>5
<1> QED BY <1>1, <1>2, <1>3 DEF Dispatch

LEMMA AnswerDepth == IInv /\ BoxesDoNotPileUp /\ AnswerAny => BoxesDoNotPileUp'
<1> SUFFICES ASSUME IInv, BoxesDoNotPileUp, AnswerAny PROVE BoxesDoNotPileUp'
  OBVIOUS
<1> USE DEF IInv
<1>1. dialogs # <<>>
  BY DEF AnswerAny, AnswerNo, AnswerYes, DismissNotice, Answer
<1>2. CASE dialogs' = Below
  BY <1>1, <1>2, BelowDepth
<1>3. CASE dialogs' # Below
  <2> DEFINE d == [op |-> Top.op, stage |-> "notice"]
  <2>1. Top.stage = "confirm" /\ dialogs' = Append(Below, d)
    BY <1>3 DEF AnswerAny, AnswerNo, AnswerYes, DismissNotice, Answer, ConfirmedWork
  <2>2. Len(dialogs) = 1
    <3> DEFINE n == Len(dialogs)
    <3>1. n \in Nat /\ ~(n > 1)
      BY <2>1, Depth
    <3>2. n # 0
      BY <1>1 DEF TypeOK
    <3> HIDE DEF n
    <3>3. n = 1
      BY <3>1, <3>2
    <3> QED BY <3>3 DEF n
  <2>3. Len(dialogs') = 1
    BY <1>1, <2>1, <2>2, BelowType DEF TypeOK
  <2> QED BY <2>3, ShallowIsRight
<1> QED BY <1>2, <1>3

\* However events, timer, clicks and answers meet, there are never more than two
\* boxes, and only the automatic report shows one over another.
THEOREM BoxesNeverPileUp == Spec => []BoxesDoNotPileUp
<1>1. Init => BoxesDoNotPileUp
  BY DEF Init, BoxesDoNotPileUp
<1>2. IInv /\ BoxesDoNotPileUp /\ [Next]_vars => BoxesDoNotPileUp'
  <2>1. ASSUME TypeOK, ClickAny PROVE BoxesDoNotPileUp'
    <3>1. CASE dialogs' = <<>>
      BY <3>1, ShallowIsRight
    <3>2. ASSUME NEW d \in Dialogs, dialogs' = <<d>> PROVE BoxesDoNotPileUp'
      <4>1. Len(dialogs') = 1
        BY <3>2
      <4> QED BY <4>1, ShallowIsRight
    <3> QED BY <2>1, <3>1, <3>2, ClickEffect
  <2>2. BoxesDoNotPileUp /\ (TimerExpires \/ UNCHANGED vars) => BoxesDoNotPileUp'
    BY SameDepth DEF TimerExpires, vars
  <2> QED BY <2>1, <2>2, DispatchDepth, AnswerDepth DEF Next, IInv
<1> QED BY <1>1, <1>2, Invariance, PTL DEF Spec

-----------------------------------------------------------------------------
(* The event loop implements ExclusiveJobs *)

\* The abstract state read off a concrete one.
OwnerMap ==
    IF isBusy THEN Owner \in BusyNoticeOps /\ Owner # "none" ELSE Owner = "none"

StageMap ==
    /\ AutoSendStage = "sent" <=> autoSends = 1
    /\ AutoSendStage = "due" <=> autoTimer \/ IsPosted("auto_send")
    /\ AutoSendStage \in {"none", "due", "sent"}

LEMMA AbstractState == IInv => OwnerMap /\ StageMap
<1> SUFFICES ASSUME IInv PROVE OwnerMap /\ StageMap
  OBVIOUS
<1>1. ~isBusy => Owner = "none"
  BY DEF Owner
<1>2. ASSUME isBusy PROVE Owner \in BusyNoticeOps /\ Owner # "none"
  <2>1. Holds(Top)
    BY <1>2 DEF BusyHasOneOwner, Top, IInv
  <2> QED BY <1>2, <2>1 DEF Owner, Holds, BusyNoticeOps, MaintenanceOps
<1>3. StageMap
  BY DEF StageMap, IInv, TypeOK, AutoSendInv, AutoSendExactlyOnce, AutoSendStage
<1> QED BY <1>1, <1>2, <1>3 DEF OwnerMap

LEMMA BothStates == IInv /\ IInv' => OwnerMap /\ StageMap /\ OwnerMap' /\ StageMap'
BY AbstractState, PTL

\* The step from a state of the event loop, seen by ExclusiveJobs.
AbstractStep == [Jobs!Next]_(Jobs!vars)

LEMMA StutterStep == UNCHANGED <<Owner, AutoSendStage>> => AbstractStep
BY DEF AbstractStep, Jobs!vars

LEMMA BeginStep ==
    ASSUME Owner = "none", Owner' \in BusyNoticeOps \cup {"none"},
           UNCHANGED AutoSendStage
    PROVE  AbstractStep
<1>1. CASE Owner' = "none"
  BY <1>1, StutterStep
<1>2. CASE Owner' \in BusyNoticeOps
  BY <1>2 DEF AbstractStep, Jobs!Next, Jobs!Begin
<1> QED BY <1>1, <1>2

LEMMA SameStage ==
    ASSUME UNCHANGED <<autoTimer, autoSends>>,
           IsPosted("auto_send")' <=> IsPosted("auto_send")
    PROVE  UNCHANGED AutoSendStage
BY DEF AutoSendStage

LEMMA RefineDispatch == IInv /\ IInv' /\ Dispatch => AbstractStep
<1> SUFFICES ASSUME IInv, IInv', Dispatch PROVE AbstractStep
  OBVIOUS
<1>1. OwnerMap /\ OwnerMap'
  BY BothStates
<1>2. StageMap'
  BY BothStates
<1>3. StageMap
  BY BothStates
<1>4. CASE InitializeStartup
  <2>1. IsPosted("init") /\ ~isBusy
    BY <1>4, DeliverPosted DEF InitializeStartup, IInv, AutoSendInv, BeforeStartup
  <2>2. AutoSendStage = "none" /\ autoSends' # 1
    BY <1>3, <1>4, <2>1
       DEF StageMap, InitializeStartup, IInv, AutoSendInv, AutoSendExactlyOnce, StartupEnded
  <2>3. CASE isBusy'
    <3>1. BeginWorkNotify("init") /\ UNCHANGED autoTimer
      BY <1>4, <2>1, <2>3 DEF InitializeStartup, BeginWorkEnd, Refused, TryBegin
    <3>2. ~(autoTimer' \/ IsPosted("auto_send")')
      <4>1. ~autoTimer /\ ~IsPosted("auto_send")
        BY <1>3, <2>2 DEF StageMap
      <4> QED BY <1>4, <3>1, <4>1, DeliverPosted DEF InitializeStartup, IInv
    <3> QED BY <1>1, <1>2, <2>1, <2>2, <3>2, BeginStep DEF OwnerMap, StageMap
  <2>4. CASE ~isBusy'
    BY <1>1, <1>2, <2>1, <2>2, <2>4, StutterStep
       DEF OwnerMap, StageMap, AbstractStep, Jobs!Next, Jobs!ScheduleSend
  <2> QED BY <2>3, <2>4
<1>5. ASSUME NEW p \in FirstShowPages, LoadOnFirstShow(p) PROVE AbstractStep
  <2>1. p # "auto_send"
    BY DEF FirstShowPages
  <2>2. IsPosted("auto_send")' <=> IsPosted("auto_send")
    BY <1>5, <2>1, DeliverPosted DEF LoadOnFirstShow, IInv
  <2>3. UNCHANGED <<dialogs, autoTimer, autoSends>> /\ (isBusy' <=> isBusy)
    BY <1>5 DEF LoadOnFirstShow, BeginWorkEnd, Refused, TryBegin
  <2>4. UNCHANGED Owner
    BY <2>3 DEF Owner, Top
  <2> QED BY <2>2, <2>3, <2>4, SameStage, StutterStep
<1>6. CASE AutoSendAgentReport
  <2>1. IsPosted("auto_send") /\ AutoSendStage = "due" /\ autoSends = 0
    BY <1>3, <1>6, DeliverPosted
       DEF StageMap, AutoSendAgentReport, IInv, AutoSendInv, AutoSendExactlyOnce
  <2>2. CASE isBusy
    <3>1. UNCHANGED <<isBusy, dialogs>> /\ autoTimer'
      BY <1>6, <2>2 DEF AutoSendAgentReport
    <3>2. UNCHANGED Owner
      BY <3>1 DEF Owner, Top
    <3> QED BY <1>2, <2>1, <3>1, <3>2, StutterStep DEF StageMap
  <2>3. CASE ~isBusy
    <3>1. SendReport /\ autoSends' = 1
      BY <1>6, <2>1, <2>3 DEF AutoSendAgentReport
    <3>2. Owner' \in {"none", "send"}
      <4>1. CASE isBusy'
        <5>1. dialogs' = Append(dialogs, [op |-> "send", stage |-> "notice"])
          BY <2>3, <3>1, <4>1
             DEF SendReport, BeginWorkEnd, BeginWorkNotify, Refused, TryBegin, Open
        <5>2. Top'.op = "send"
          BY <5>1 DEF Top, IInv, TypeOK
        <5> QED BY <4>1, <5>2 DEF Owner
      <4>2. CASE ~isBusy'
        BY <1>1, <4>2 DEF OwnerMap
      <4> QED BY <4>1, <4>2
    <3> QED BY <1>1, <1>2, <2>1, <2>3, <3>1, <3>2
            DEF OwnerMap, StageMap, AbstractStep, Jobs!Next, Jobs!StartSend
  <2> QED BY <2>2, <2>3
<1> QED BY <1>4, <1>5, <1>6 DEF Dispatch

LEMMA RefineAnswer == IInv /\ IInv' /\ AnswerAny => AbstractStep
<1> SUFFICES ASSUME IInv, IInv', AnswerAny PROVE AbstractStep
  OBVIOUS
<1>1. OwnerMap /\ OwnerMap'
  BY BothStates
<1>2. UNCHANGED <<posted, autoSends>> /\ (IsPosted("auto_send")' <=> IsPosted("auto_send"))
  BY SamePosted DEF AnswerAny, AnswerNo, AnswerYes, DismissNotice, Answer
<1>3. isBusy <=> Holds(Top)
  <2>1. dialogs # <<>>
    BY DEF AnswerAny, AnswerNo, AnswerYes, DismissNotice, Answer
  <2>2. Len(dialogs) \in DOMAIN dialogs
    BY <2>1 DEF IInv, TypeOK
  <2> QED BY <2>2 DEF BusyHasOneOwner, Top, IInv
<1>4. CASE AnswerNo \/ AnswerYes
  <2>1. ~isBusy /\ UNCHANGED autoTimer
    BY <1>3, <1>4 DEF AnswerNo, AnswerYes, Answer, Holds
  <2> QED BY <1>1, <1>2, <2>1, SameStage, BeginStep DEF OwnerMap
<1>5. CASE DismissNotice
  <2>1. ~isBusy'
    BY <1>3, <1>5 DEF DismissNotice
  <2>2. AutoSendStage' # AutoSendStage => AutoSendStage = "none" /\ AutoSendStage' = "due"
    <3>1. autoSends' = autoSends /\ (autoTimer => autoTimer')
      BY <1>2, <1>5 DEF DismissNotice, ArmAutoSend
    <3> QED BY <1>2, <3>1 DEF AutoSendStage
  <2>3. CASE UNCHANGED AutoSendStage
    BY <1>1, <2>1, <2>3, StutterStep DEF OwnerMap, AbstractStep, Jobs!Next, Jobs!End
  <2>4. CASE AutoSendStage' # AutoSendStage
    BY <1>1, <2>1, <2>2, <2>4 DEF OwnerMap, AbstractStep, Jobs!Next, Jobs!ScheduleSend
  <2> QED BY <2>3, <2>4
<1> QED BY <1>4, <1>5 DEF AnswerAny

LEMMA RefineClick == IInv /\ IInv' /\ ClickAny => AbstractStep
<1> SUFFICES ASSUME IInv, IInv', ClickAny PROVE AbstractStep
  OBVIOUS
<1>1. ~isBusy /\ UNCHANGED <<autoTimer, autoSends>>
  BY ClickEffect DEF Click, IInv
<1>2. Owner = "none" /\ Owner' \in BusyNoticeOps \cup {"none"}
  BY <1>1, BothStates DEF OwnerMap
<1>3. IsPosted("auto_send")' <=> IsPosted("auto_send")
  <2>1. \A p \in FirstShowPages : p # "auto_send"
    BY DEF FirstShowPages
  <2> QED BY <2>1, ClickEffect, SamePosted, PostPosted DEF IInv
<1> QED BY <1>1, <1>2, <1>3, SameStage, BeginStep

LEMMA RefineRest == IInv /\ IInv' /\ (TimerExpires \/ UNCHANGED vars) => AbstractStep
<1>1. ASSUME IInv, IInv', TimerExpires PROVE AbstractStep
  <2>1. autoTimer /\ UNCHANGED <<isBusy, dialogs, autoSends>> /\ IsPosted("auto_send")'
    BY <1>1, PostPosted DEF TimerExpires, IInv
  <2>2. UNCHANGED Owner
    BY <2>1 DEF Owner, Top
  <2>3. UNCHANGED AutoSendStage
    BY <2>1 DEF AutoSendStage
  <2> QED BY <2>2, <2>3, StutterStep
<1>2. ASSUME UNCHANGED vars PROVE AbstractStep
  BY <1>2, StutterStep DEF vars, Owner, Top, AutoSendStage, IsPosted
<1> QED BY <1>1, <1>2

\* The busy coordinator, the handlers and their message boxes implement one
\* job at a time, with idle between two jobs and one automatic report.
THEOREM JobsImplemented == Spec => ImplementsExclusiveJobs
<1>1. Spec => []IInv
  BY Invariance
<1>2. Init => Jobs!Init
  BY DEF Init, Jobs!Init, Owner, AutoSendStage, IsPosted
<1>3. IInv /\ IInv' /\ [Next]_vars => AbstractStep
  BY RefineDispatch, RefineAnswer, RefineClick, RefineRest DEF Next
<1> QED BY <1>1, <1>2, <1>3, PTL DEF Spec, ImplementsExclusiveJobs, Jobs!Spec, AbstractStep
=============================================================================
