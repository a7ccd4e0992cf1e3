------------------------ MODULE SettingsShellProofs ------------------------
(***************************************************************************)
(* The shell, the pins and the status table of SettingsApply, proved for   *)
(* any settings and any number of them: the shell is restarted as often as *)
(* the applied settings need, a taskbar that was applied has the pins it   *)
(* promises, and a table read after an apply agrees with its results.      *)
(*                                                                         *)
(* The argument counts: what is left of a plan says how far it got.        *)
(***************************************************************************)
EXTENDS SettingsApplyProofs, SequenceTheorems

Taskbar == "set_taskbar_icons"

\* The steps s are the last ones of the plan p.
Suffix(s, p) ==
    /\ Len(s) <= Len(p)
    /\ \A i \in 1 .. Len(s) : s[i] = p[Len(p) - Len(s) + i]

LEMMA SuffixTail ==
    ASSUME NEW S, NEW s \in Seq(S), NEW p \in Seq(S), s # <<>>, Suffix(s, p)
    PROVE  /\ Suffix(Tail(s), p)
           /\ Len(s) \in 1 .. Len(p) /\ Len(Tail(s)) = Len(s) - 1
           /\ Head(s) = p[Len(p) - Len(s) + 1]
<1>1. /\ Len(s) \in Nat /\ Len(p) \in Nat /\ Len(s) >= 1
      /\ Len(Tail(s)) = Len(s) - 1 /\ Head(s) = s[1]
      /\ \A i \in 1 .. Len(s) - 1 : Tail(s)[i] = s[i + 1]
  OBVIOUS
<1>2. Len(s) <= Len(p) /\ \A i \in 1 .. Len(s) : s[i] = p[Len(p) - Len(s) + i]
  BY DEF Suffix
<1>3. ASSUME NEW i \in 1 .. Len(s) - 1
      PROVE  Tail(s)[i] = p[Len(p) - (Len(s) - 1) + i]
  <2>1. i + 1 \in 1 .. Len(s) /\ Len(p) - Len(s) + (i + 1) = Len(p) - (Len(s) - 1) + i
    BY <1>1
  <2> QED BY <1>1, <1>2, <2>1
<1> QED BY <1>1, <1>2, <1>3 DEF Suffix

LEMMA FirstOf == ASSUME NEW S, NEW s \in Seq(S), s # <<>> PROVE Head(s) = s[1]
OBVIOUS

LEMMA SecondOf == ASSUME NEW S, NEW s \in Seq(S), Len(s) = 2 PROVE Head(Tail(s)) = s[2]
<1> DEFINE t == Tail(s)
<1>1. t \in Seq(S) /\ Len(t) = 1 /\ t[1] = s[2]
  <2>1. s # <<>>
    OBVIOUS
  <2>2. /\ Tail(s) \in Seq(S) /\ Len(Tail(s)) = Len(s) - 1
        /\ \A i \in 1 .. Len(Tail(s)) : Tail(s)[i] = s[i + 1]
    BY <2>1, HeadTailProperties
  <2> QED BY <2>2
<1> HIDE DEF t
<1>2. t # <<>>
  <2>1. Len(<<>>) = 0
    BY ONLY EmptySeq
  <2>2. ASSUME t = <<>> PROVE FALSE
    <3>1. Len(t) = Len(<<>>)
      BY ONLY <2>2
    <3> QED BY ONLY <1>1, <2>1, <3>1
  <2> QED BY <2>2
<1>3. Head(t) = t[1]
  BY <1>1, <1>2, FirstOf
<1> QED BY <1>1, <1>3 DEF t

LEMMA SuffixOfItself == ASSUME NEW S, NEW p \in Seq(S) PROVE Suffix(p, p)
BY DEF Suffix

-----------------------------------------------------------------------------
(* Plans *)

LEMMA TaskbarPlan ==
    LET p == Plan(Taskbar) IN
    /\ p \in Seq(Steps) /\ Len(p) = 7
    /\ p[1] = "find_resources" /\ p[2] = "clear_pins" /\ p[3] = "copy_pins"
    /\ p[4] = "pin_chrome" /\ p[5] = "import_layout"
    /\ p[6] = "stop_explorer" /\ p[7] = "start_explorer"
<1> DEFINE p == <<"find_resources", "clear_pins", "copy_pins", "pin_chrome",
                  "import_layout", "stop_explorer", "start_explorer">>
<1>1. Taskbar \notin RegistrySettings
  BY SettingsAssumption DEF Taskbar, ActionSettings
<1>2. Plan(Taskbar) = p
  BY <1>1 DEF Plan, ActionPlans, Taskbar
<1>3. /\ p \in Seq(Steps) /\ Len(p) = 7
      /\ p[1] = "find_resources" /\ p[2] = "clear_pins" /\ p[3] = "copy_pins"
      /\ p[4] = "pin_chrome" /\ p[5] = "import_layout"
      /\ p[6] = "stop_explorer" /\ p[7] = "start_explorer"
  BY DEF Steps, WriteSteps, TaskbarSteps
<1> HIDE DEF p
<1> QED BY <1>2, <1>3

LEMMA OtherPlans ==
    ASSUME NEW s \in Settings, s # Taskbar
    PROVE  Plan(s) \in Seq(WriteSteps)
<1>1. CASE s \in RegistrySettings
  <2>1. <<"value">> \in Seq(WriteSteps)
    BY DEF WriteSteps
  <2> QED BY <1>1, <2>1 DEF Plan
<1>2. CASE s \notin RegistrySettings
  <2>1. Plan(s) = ActionPlans[s] /\ s \in ActionSettings
    BY <1>2 DEF Plan, Settings
  <2>2. /\ <<"background_type", "wallpaper", "desktop_icon", "refresh_wallpaper">>
              \in Seq(WriteSteps)
        /\ <<"public_link", "user_link", "edge_policy">> \in Seq(WriteSteps)
        /\ <<"max_age", "user_flags", "user_report">> \in Seq(WriteSteps)
    BY DEF WriteSteps
  <2>3. CASE s = "set_default_wallpaper"
    BY <2>1, <2>2, <2>3 DEF ActionPlans
  <2>4. CASE s = "delete_edge_shortcut"
    BY <2>1, <2>2, <2>4 DEF ActionPlans
  <2>5. CASE s = "disable_password_expiration"
    BY <2>1, <2>2, <2>5 DEF ActionPlans
  <2> QED BY <2>1, <2>3, <2>4, <2>5 DEF ActionSettings, Taskbar
<1> QED BY <1>1, <1>2

LEMMA StepsApart == TaskbarSteps \cap WriteSteps = {}
BY DEF TaskbarSteps, WriteSteps

RestartDue(result) == \E s \in ExplorerSettings : result[s] = "applied"

LEMMA PostPlanFacts ==
    ASSUME NEW result
    PROVE  LET p == PostPlan(result) IN
           /\ p \in Seq(Steps)
           /\ RestartDue(result) =>
                 /\ Len(p) \in {2, 3}
                 /\ p[Len(p) - 1] = "stop_explorer" /\ p[Len(p)] = "start_explorer"
                 /\ Len(p) = 3 => p[1] = "update_user_parameters"
           /\ ~RestartDue(result) =>
                 Len(p) \in {0, 1} /\ (Len(p) = 1 => p[1] = "update_user_parameters")
<1> DEFINE applied == {s \in Settings : result[s] = "applied"}
           users == IF applied \cap UserUpdateSettings # {}
                    THEN <<"update_user_parameters">> ELSE <<>>
           restart == IF applied \cap ExplorerSettings # {} THEN RestartPlan ELSE <<>>
<1>1. PostPlan(result) = users \o restart
  BY DEF PostPlan
<1>2. RestartDue(result) <=> applied \cap ExplorerSettings # {}
  BY SettingsAssumption DEF RestartDue, Settings
<1>3. \/ users = <<>>
      \/ users = <<"update_user_parameters">>
  OBVIOUS
<1>4. restart = IF RestartDue(result) THEN <<"stop_explorer", "start_explorer">> ELSE <<>>
  BY <1>2 DEF RestartPlan
<1> HIDE DEF users, restart
<1>5. PostPlan(result) \in Seq(Steps)
  BY PostPlanType, PostStepsAreSteps
<1>6. CASE RestartDue(result) /\ users = <<>>
  <2>1. PostPlan(result) = <<"stop_explorer", "start_explorer">>
    BY <1>1, <1>4, <1>6
  <2> QED BY <1>5, <1>6, <2>1
<1>7. CASE RestartDue(result) /\ users = <<"update_user_parameters">>
  <2>1. PostPlan(result) = users \o restart
    BY <1>1
  <2>2. /\ users \in Seq(Steps) /\ Len(users) = 1 /\ users[1] = "update_user_parameters"
        /\ restart \in Seq(Steps) /\ Len(restart) = 2
        /\ restart[1] = "stop_explorer" /\ restart[2] = "start_explorer"
    BY <1>4, <1>7 DEF Steps, WriteSteps, TaskbarSteps
  <2>3. /\ Len(users \o restart) = 3
        /\ (users \o restart)[1] = users[1]
        /\ (users \o restart)[2] = restart[1] /\ (users \o restart)[3] = restart[2]
    <3>1. /\ Len(users \o restart) = Len(users) + Len(restart)
          /\ \A i \in 1 .. Len(users) + Len(restart) :
                (users \o restart)[i] = IF i <= Len(users) THEN users[i]
                                        ELSE restart[i - Len(users)]
      BY <2>2, ConcatProperties
    <3> QED BY <2>2, <3>1
  <2> DEFINE p == PostPlan(result)
  <2>4. /\ Len(p) = 3 /\ p[1] = "update_user_parameters"
        /\ p[2] = "stop_explorer" /\ p[3] = "start_explorer"
    BY <2>1, <2>2, <2>3
  <2>5. p \in Seq(Steps)
    BY <1>5
  <2> HIDE DEF p
  <2>6. p[Len(p) - 1] = "stop_explorer" /\ p[Len(p)] = "start_explorer"
    BY <2>4
  <2> QED BY <1>7, <2>4, <2>5, <2>6 DEF p
<1>8. CASE ~RestartDue(result) /\ users = <<>>
  <2>1. PostPlan(result) = <<>>
    BY <1>1, <1>4, <1>8
  <2> QED BY <1>5, <1>8, <2>1
<1>9. CASE ~RestartDue(result) /\ users = <<"update_user_parameters">>
  <2>1. PostPlan(result) = <<"update_user_parameters">>
    BY <1>1, <1>4, <1>9
  <2> QED BY <1>5, <1>9, <2>1
<1> QED BY <1>3, <1>6, <1>7, <1>8, <1>9

-----------------------------------------------------------------------------
(* The invariant *)

\* The steps left are the last ones of a plan.
OnPlan ==
    /\ phase = "apply" => Suffix(todo, Plan(Current))
    /\ phase = "post" => Suffix(todo, PostPlan(outcome))

\* No setting is applied twice in one apply.
QueueFresh ==
    phase = "apply" =>
        /\ \A i, j \in 1 .. Len(queue) : queue[i] = queue[j] => i = j
        /\ \A i \in 1 .. Len(queue) : outcome[queue[i]] = "none"

\* Restarts of the shell due to the taskbar, and to the other settings.
OwnRestart == IF Applied(Taskbar) THEN 1 ELSE 0
OthersRestart == IF RestartDue(outcome) THEN 1 ELSE 0

\* A stopped shell is about to be started; the last two steps of the taskbar's
\* plan, and of the post commands, are the restart.
ShellSoFar ==
    /\ explorer = "stopped" => Len(todo) = 1 /\ Head(todo) = "start_explorer"
    /\ phase = "apply" =>
          restarts = IF Current = Taskbar THEN (IF Len(todo) <= 1 THEN 1 ELSE 0)
                     ELSE OwnRestart
    /\ phase = "post" =>
          restarts = OwnRestart + (IF Len(todo) <= 1 THEN OthersRestart ELSE 0)
    /\ phase = "idle" => restarts = OwnRestart + OthersRestart

\* Behind clear_pins five steps are left, behind copy_pins four.
PinsSoFar ==
    /\ phase = "apply" /\ Current = Taskbar =>
          /\ Len(todo) = 5 => pins = {}
          /\ Len(todo) <= 4 => pins = StaticPins
          /\ Len(todo) <= 5 /\ env.unlinkWorks => chromePin # "broken"
    /\ Applied(Taskbar) =>
          pins = StaticPins /\ (env.unlinkWorks => chromePin # "broken")

\* While an apply is under way the table is not its own.
RowsSoFar == (phase # "idle" => ~rowsCurrent) /\ AppliedIsShown

JInv == OnPlan /\ QueueFresh /\ ShellSoFar /\ PinsSoFar /\ RowsSoFar

\* Where the plan of the current setting stands, by the steps left.
LEMMA TaskbarStep ==
    ASSUME IInv, OnPlan, phase = "apply", Current = Taskbar, todo # <<>>
    PROVE  /\ Len(todo) \in 1 .. 7 /\ Len(Tail(todo)) = Len(todo) - 1
           /\ Step = "stop_explorer" <=> Len(todo) = 2
           /\ Step = "start_explorer" <=> Len(todo) = 1
           /\ Step = "clear_pins" <=> Len(todo) = 6
           /\ Step = "copy_pins" <=> Len(todo) = 5
           /\ Step = "pin_chrome" <=> Len(todo) = 4
           /\ Step = "import_layout" <=> Len(todo) = 3
<1> DEFINE p == Plan(Taskbar)
<1>1. /\ p \in Seq(Steps) /\ Len(p) = 7
      /\ p[1] = "find_resources" /\ p[2] = "clear_pins" /\ p[3] = "copy_pins"
      /\ p[4] = "pin_chrome" /\ p[5] = "import_layout"
      /\ p[6] = "stop_explorer" /\ p[7] = "start_explorer"
  BY TaskbarPlan
<1>2. todo \in Seq(Steps) /\ Suffix(todo, p)
  BY DEF IInv, TypeOK, OnPlan
<1> HIDE DEF p
<1>3. /\ Len(todo) \in 1 .. 7 /\ Len(Tail(todo)) = Len(todo) - 1
      /\ Step = p[8 - Len(todo)]
  <2>1. /\ Len(todo) \in 1 .. Len(p) /\ Len(Tail(todo)) = Len(todo) - 1
        /\ Step = p[Len(p) - Len(todo) + 1]
    BY <1>1, <1>2, SuffixTail DEF Step
  <2>2. Len(p) - Len(todo) + 1 = 8 - Len(todo)
    BY <1>1, <2>1
  <2> QED BY <1>1, <2>1, <2>2
<1>4. Len(todo) \in {1, 2, 3, 4, 5, 6, 7}
  BY <1>3
<1>5. CASE Len(todo) = 1
  <2>1. Step = p[7]
    BY <1>3, <1>5
  <2> QED BY <1>1, <1>3, <1>5, <2>1
<1>6. CASE Len(todo) = 2
  <2>1. Step = p[6]
    BY <1>3, <1>6
  <2> QED BY <1>1, <1>3, <1>6, <2>1
<1>7. CASE Len(todo) = 3
  <2>1. Step = p[5]
    BY <1>3, <1>7
  <2> QED BY <1>1, <1>3, <1>7, <2>1
<1>8. CASE Len(todo) = 4
  <2>1. Step = p[4]
    BY <1>3, <1>8
  <2> QED BY <1>1, <1>3, <1>8, <2>1
<1>9. CASE Len(todo) = 5
  <2>1. Step = p[3]
    BY <1>3, <1>9
  <2> QED BY <1>1, <1>3, <1>9, <2>1
<1>10. CASE Len(todo) = 6
  <2>1. Step = p[2]
    BY <1>3, <1>10
  <2> QED BY <1>1, <1>3, <1>10, <2>1
<1>11. CASE Len(todo) = 7
  <2>1. Step = p[1]
    BY <1>3, <1>11
  <2> QED BY <1>1, <1>3, <1>11, <2>1
<1> QED BY <1>4, <1>5, <1>6, <1>7, <1>8, <1>9, <1>10, <1>11

LEMMA OtherStep ==
    ASSUME IInv, OnPlan, phase = "apply", Current # Taskbar, todo # <<>>
    PROVE  Step \in WriteSteps /\ Step \notin TaskbarSteps
<1>1. Current \in Settings /\ todo \in Seq(Steps) /\ Suffix(todo, Plan(Current))
  BY DEF IInv, TypeOK, PhaseOK, OnPlan, Current
<1>2. Plan(Current) \in Seq(WriteSteps)
  BY <1>1, OtherPlans
<1>3. Plan(Current) \in Seq(Steps)
  BY <1>2 DEF Steps
<1>4. Head(todo) = Plan(Current)[Len(Plan(Current)) - Len(todo) + 1]
      /\ Len(todo) \in 1 .. Len(Plan(Current))
  BY <1>1, <1>3, SuffixTail
<1> QED BY <1>2, <1>4, StepsApart DEF Step

LEMMA PostStep ==
    ASSUME IInv, OnPlan, phase = "post", todo # <<>>
    PROVE  /\ Len(todo) \in Nat \ {0} /\ Len(Tail(todo)) = Len(todo) - 1
           /\ Step = "stop_explorer" => Len(todo) = 2 /\ RestartDue(outcome)
           /\ Step = "start_explorer" => Len(todo) = 1 /\ RestartDue(outcome)
           /\ Len(todo) = 2 => Step = "stop_explorer"
           /\ Len(todo) = 1 /\ RestartDue(outcome) => Step = "start_explorer"
           /\ Step \notin PinSteps
<1> DEFINE p == PostPlan(outcome)
<1>1. /\ p \in Seq(Steps)
      /\ RestartDue(outcome) =>
            /\ Len(p) \in {2, 3}
            /\ p[Len(p) - 1] = "stop_explorer" /\ p[Len(p)] = "start_explorer"
            /\ Len(p) = 3 => p[1] = "update_user_parameters"
      /\ ~RestartDue(outcome) =>
            Len(p) \in {0, 1} /\ (Len(p) = 1 => p[1] = "update_user_parameters")
  BY PostPlanFacts
<1>2. todo \in Seq(Steps) /\ Suffix(todo, p)
  BY DEF IInv, TypeOK, OnPlan
<1> HIDE DEF p
<1>3. /\ Len(todo) \in 1 .. Len(p) /\ Len(Tail(todo)) = Len(todo) - 1
      /\ Step = p[Len(p) - Len(todo) + 1] /\ Len(p) \in Nat
  BY <1>1, <1>2, SuffixTail DEF Step
<1>4. CASE RestartDue(outcome)
  <2>1. Len(todo) \in {1, 2, 3} /\ Len(p) \in {2, 3}
    BY <1>1, <1>3, <1>4
  <2>2. CASE Len(todo) = 1
    BY <1>1, <1>3, <1>4, <2>1, <2>2 DEF PinSteps
  <2>3. CASE Len(todo) = 2
    BY <1>1, <1>3, <1>4, <2>1, <2>3 DEF PinSteps
  <2>4. CASE Len(todo) = 3
    BY <1>1, <1>3, <1>4, <2>1, <2>4 DEF PinSteps
  <2> QED BY <2>1, <2>2, <2>3, <2>4
<1>5. CASE ~RestartDue(outcome)
  <2>1. Len(p) \in {0, 1} /\ (Len(p) = 1 => p[1] = "update_user_parameters")
    BY <1>1, <1>5
  <2>2. Len(p) = 1 /\ Len(todo) = 1
    <3>1. Len(p) = 0 \/ Len(p) = 1
      BY <2>1
    <3>2. Len(todo) >= 1 /\ Len(todo) <= Len(p) /\ Len(todo) \in Nat
      BY <1>3
    <3> QED BY <3>1, <3>2
  <2>3. Step = "update_user_parameters"
    BY <1>3, <2>1, <2>2
  <2> QED BY <1>3, <1>5, <2>2, <2>3 DEF PinSteps
<1> QED BY <1>4, <1>5

-----------------------------------------------------------------------------
(* Plans and queue *)

LEMMA PlanGoOn ==
    ASSUME IInv, OnPlan, QueueFresh, phase \in {"apply", "post"}, todo # <<>>, GoOn
    PROVE  OnPlan' /\ QueueFresh' /\ Current' = Current /\ outcome' = outcome
<1>1. todo' = Tail(todo) /\ UNCHANGED <<env, phase, queue, outcome>> /\ todo \in Seq(Steps)
  BY DEF GoOn, IInv, TypeOK
<1>2. Current' = Current
  BY <1>1 DEF Current
<1>3. ASSUME phase = "apply" PROVE Suffix(Tail(todo), Plan(Current))
  <2>1. Current \in Settings /\ Suffix(todo, Plan(Current))
    BY <1>3 DEF IInv, TypeOK, PhaseOK, OnPlan, Current
  <2>2. Plan(Current) \in Seq(Steps)
    BY <2>1, PlanIsGood DEF GoodPlan
  <2> QED BY <1>1, <2>1, <2>2, SuffixTail
<1>4. ASSUME phase = "post" PROVE Suffix(Tail(todo), PostPlan(outcome))
  <2>1. PostPlan(outcome) \in Seq(Steps)
    BY PostPlanFacts
  <2> QED BY <1>1, <1>4, <2>1, SuffixTail DEF OnPlan
<1>5. Plan(Current') = Plan(Current) /\ PostPlan(outcome') = PostPlan(outcome)
  BY <1>1, <1>2
<1>6. OnPlan'
  BY <1>1, <1>2, <1>3, <1>4, <1>5 DEF OnPlan
<1>7. QueueFresh'
  BY <1>1 DEF QueueFresh
<1> QED BY <1>1, <1>2, <1>6, <1>7

\* After the last setting the post commands are due, after any other the next
\* setting, which has no result yet.
NextDue ==
    \/ phase' = "post" /\ todo' = PostPlan(outcome')
    \/ /\ phase' = "apply" /\ Current' \in Settings /\ Current' # Current
       /\ todo' = Plan(Current') /\ outcome'[Current'] = "none"

LEMMA PlanFinish ==
    ASSUME IInv, QueueFresh, phase = "apply",
           NEW result \in {"applied", "failed"}, Finish(result)
    PROVE  /\ OnPlan' /\ QueueFresh' /\ NextDue
           /\ Current \in Settings /\ outcome[Current] = "none"
           /\ outcome \in [Settings -> Outcomes]
           /\ outcome' = [outcome EXCEPT ![Current] = result]
<1>1. /\ queue \in Seq(Settings) /\ queue # <<>> /\ outcome \in [Settings -> Outcomes]
      /\ outcome' = [outcome EXCEPT ![Current] = result]
      /\ queue' = Tail(queue)
      /\ IF Tail(queue) = <<>>
         THEN phase' = "post" /\ todo' = PostPlan(outcome')
         ELSE phase' = phase /\ todo' = Plan(Head(Tail(queue)))
  BY DEF Finish, IInv, TypeOK, PhaseOK
<1>2. /\ Len(queue) \in Nat /\ Len(queue) >= 1 /\ Len(Tail(queue)) = Len(queue) - 1
      /\ \A i \in 1 .. Len(queue) - 1 : Tail(queue)[i] = queue[i + 1]
      /\ \A i \in 1 .. Len(queue) : queue[i] \in Settings
      /\ Current = queue[1] /\ Tail(queue) \in Seq(Settings)
  BY <1>1 DEF Current
<1>3. Current \in Settings /\ outcome[Current] = "none"
  BY <1>2 DEF QueueFresh
<1>4. CASE Tail(queue) = <<>>
  <2>1. phase' = "post" /\ todo' = PostPlan(outcome')
    BY <1>1, <1>4
  <2>2. Suffix(todo', PostPlan(outcome'))
    BY <2>1, PostPlanFacts, SuffixOfItself
  <2> QED BY <1>1, <1>3, <2>1, <2>2 DEF OnPlan, QueueFresh, NextDue
<1>5. CASE Tail(queue) # <<>>
  <2>1. phase' = "apply" /\ todo' = Plan(Head(Tail(queue)))
    BY <1>1, <1>5
  <2>2. Len(queue) >= 2 /\ Head(Tail(queue)) = queue[2] /\ Current' = queue[2]
    BY <1>1, <1>2, <1>5 DEF Current
  <2>3. Current' \in Settings /\ todo' = Plan(Current')
    BY <1>2, <2>1, <2>2
  <2>4. OnPlan'
    <3>1. Plan(Current') \in Seq(Steps)
      BY <2>3, PlanIsGood DEF GoodPlan
    <3> QED BY <2>1, <2>3, <3>1, SuffixOfItself DEF OnPlan
  <2>5. ASSUME NEW i \in 1 .. Len(queue')
        PROVE  /\ i + 1 \in 1 .. Len(queue) /\ queue'[i] = queue[i + 1]
               /\ queue[i + 1] # Current /\ outcome'[queue'[i]] = "none"
    <3>1. i + 1 \in 1 .. Len(queue) /\ queue'[i] = queue[i + 1] /\ i + 1 # 1
      BY <1>1, <1>2, <2>5
    <3>2. queue[i + 1] # Current /\ outcome[queue[i + 1]] = "none"
      BY <1>2, <3>1 DEF QueueFresh
    <3>3. queue[i + 1] \in Settings
      BY <1>2, <3>1
    <3> QED BY <1>1, <3>1, <3>2, <3>3
  <2>6. QueueFresh'
    <3>1. \A i, j \in 1 .. Len(queue') : queue'[i] = queue'[j] => i = j
      <4> SUFFICES ASSUME NEW i \in 1 .. Len(queue'), NEW j \in 1 .. Len(queue'),
                          queue'[i] = queue'[j]
                   PROVE  i = j
        OBVIOUS
      <4>1. i + 1 = j + 1
        BY <2>5 DEF QueueFresh
      <4>2. Len(queue') \in Nat
        BY <1>1, <1>2
      <4> QED BY <4>1, <4>2
    <3>2. \A i \in 1 .. Len(queue') : outcome'[queue'[i]] = "none"
      BY <2>5
    <3> QED BY <3>1, <3>2 DEF QueueFresh
  <2>7. Current' # Current /\ outcome'[Current'] = "none"
    <3>1. 1 \in 1 .. Len(queue') /\ queue'[1] = queue[2]
      BY <1>1, <1>2, <2>2
    <3>2. queue[1 + 1] # Current /\ outcome'[queue'[1]] = "none"
      BY <3>1, <2>5
    <3> QED BY <2>2, <3>1, <3>2
  <2> QED BY <1>1, <1>3, <2>1, <2>3, <2>4, <2>6, <2>7 DEF NextDue
<1> QED BY <1>4, <1>5

-----------------------------------------------------------------------------
(* What a step does to the shell and the pins *)

Ends == phase = "apply" /\ Finish("failed")

StepEffect ==
    /\ todo # <<>> /\ phase \in {"apply", "post"}
    /\ UNCHANGED <<env, view>>
    /\ restarts' = IF Step = "stop_explorer" THEN restarts + 1 ELSE restarts
    /\ explorer' = "stopped" =>
          \/ Step = "stop_explorer"
          \/ explorer = "stopped" /\ Step # "start_explorer"
    /\ Step \notin {"clear_pins", "copy_pins"} => pins' = pins
    /\ Step \notin {"clear_pins", "pin_chrome"} => chromePin' = chromePin
    /\ Step = "pin_chrome" /\ env.unlinkWorks => chromePin' \in {chromePin, "none", "valid"}
    /\ \/ /\ GoOn
          /\ Step = "clear_pins" => pins' = {} /\ chromePin' = "none"
          /\ Step = "copy_pins" => pins' = pins \cup StaticPins
       \/ Ends /\ Step \notin {"stop_explorer", "start_explorer"}

LEMMA StepHasEffect ==
    ASSUME IInv, WriteDone \/ WriteFails \/ ShellOrPins
    PROVE  StepEffect
<1>1. CASE WriteDone
  <2>1. PICK e \in WriteSteps : InStep(e)
    BY <1>1 DEF WriteDone
  <2>2. Step \in WriteSteps /\ Step \notin TaskbarSteps
    BY <2>1, StepsApart DEF InStep
  <2>3. UNCHANGED <<env, view>> /\ GoOn /\ UNCHANGED <<pins, chromePin, explorer, restarts>>
    BY <1>1 DEF WriteDone, GoOn
  <2> QED BY <2>1, <2>2, <2>3 DEF StepEffect, InStep, TaskbarSteps
<1>2. CASE WriteFails
  <2>1. PICK e \in WriteSteps : InStep(e) /\ IF e \in BestEffort THEN GoOn ELSE Finish("failed")
    BY <1>2 DEF WriteFails
  <2>2. Step \in WriteSteps /\ Step \notin TaskbarSteps /\ Step = e
    BY <2>1, StepsApart DEF InStep
  <2>3. UNCHANGED <<env, view>> /\ UNCHANGED <<pins, chromePin, explorer, restarts>>
    BY <1>2, <2>1 DEF WriteFails, GoOn, Finish, pcState
  <2>4. GoOn \/ Ends
    <3>1. CASE phase = "post"
      <4>1. Step \in PostSteps
        BY <2>1, <3>1 DEF IInv, PhaseOK, InStep, Step
      <4> QED BY <2>1, <2>2, <4>1, PostStepsAreSteps
    <3>2. CASE phase = "apply"
      BY <2>1, <3>2 DEF Ends
    <3> QED BY <2>1, <3>1, <3>2 DEF InStep
  <2> QED BY <2>1, <2>2, <2>3, <2>4 DEF StepEffect, InStep, TaskbarSteps
<1>3. CASE FindResources
  <2>1. InStep("find_resources") /\ (GoOn \/ Finish("failed")) /\ UNCHANGED pcState
    BY <1>3 DEF FindResources
  <2>2. UNCHANGED <<env, view>>
    BY <2>1 DEF GoOn, Finish
  <2>3. phase = "apply"
    <3>1. phase = "post" => Step \in PostSteps
      BY <2>1 DEF IInv, PhaseOK, InStep, Step
    <3> QED BY <2>1, <3>1 DEF InStep, PostSteps
  <2> QED BY <2>1, <2>2, <2>3 DEF StepEffect, InStep, pcState, Ends
<1>4. CASE ClearPins \/ CopyPins \/ PinChrome
  <2>1. /\ Step \in PinSteps /\ todo # <<>> /\ phase \in {"apply", "post"}
        /\ UNCHANGED <<explorer, restarts>>
        /\ GoOn \/ Finish("failed")
    BY <1>4 DEF ClearPins, CopyPins, PinChrome, InStep, PinSteps
  <2>2. UNCHANGED <<env, view>>
    BY <2>1 DEF GoOn, Finish
  <2>3. phase = "apply"
    <3>1. phase = "post" => Step \in PostSteps
      BY <2>1 DEF IInv, PhaseOK, Step
    <3> QED BY <2>1, <3>1 DEF PinSteps, PostSteps
  <2>4. CASE ClearPins
    <3>1. \/ pins' = {} /\ chromePin' = "none" /\ GoOn
          \/ Finish("failed")
      BY <2>4 DEF ClearPins
    <3>2. Step = "clear_pins"
      BY <2>4 DEF ClearPins, InStep
    <3> QED BY <2>1, <2>2, <2>3, <3>1, <3>2 DEF StepEffect, Ends
  <2>5. CASE CopyPins
    <3>1. \/ pins' = pins \cup StaticPins /\ GoOn
          \/ Finish("failed")
      BY <2>5 DEF CopyPins
    <3>2. Step = "copy_pins" /\ chromePin' = chromePin
      BY <2>5 DEF CopyPins, InStep
    <3> QED BY <2>1, <2>2, <2>3, <3>1, <3>2 DEF StepEffect, Ends
  <2>6. CASE PinChrome
    <3>1. Step = "pin_chrome" /\ pins' = pins /\ GoOn
      BY <2>6 DEF PinChrome, InStep
    <3>2. env.unlinkWorks => chromePin' \in {chromePin, "none", "valid"}
      BY <2>6 DEF PinChrome
    <3> QED BY <2>1, <2>2, <2>3, <3>1, <3>2 DEF StepEffect
  <2> QED BY <1>4, <2>4, <2>5, <2>6
<1>5. CASE StopExplorer
  <2>1. /\ Step = "stop_explorer" /\ todo # <<>> /\ phase \in {"apply", "post"}
        /\ GoOn /\ restarts' = restarts + 1 /\ UNCHANGED <<pins, chromePin>>
    BY <1>5 DEF StopExplorer, InStep
  <2>2. UNCHANGED <<env, view>>
    BY <2>1 DEF GoOn
  <2> QED BY <2>1, <2>2 DEF StepEffect
<1>6. CASE StartExplorer
  <2>1. /\ Step = "start_explorer" /\ todo # <<>> /\ phase \in {"apply", "post"}
        /\ GoOn /\ restarts' = restarts /\ UNCHANGED <<pins, chromePin>>
        /\ explorer' # "stopped"
    BY <1>6 DEF StartExplorer, InStep
  <2>2. UNCHANGED <<env, view>>
    BY <2>1 DEF GoOn
  <2> QED BY <2>1, <2>2 DEF StepEffect
<1> QED BY <1>1, <1>2, <1>3, <1>4, <1>5, <1>6 DEF ShellOrPins

\* The plan goes on.
LEMMA ShellGoOn ==
    ASSUME IInv, JInv, StepEffect, GoOn
    PROVE  ShellSoFar'
<1>1. /\ todo' = Tail(todo) /\ UNCHANGED <<phase, outcome>> /\ todo # <<>>
      /\ phase \in {"apply", "post"} /\ Current' = Current /\ restarts \in Nat
  BY PlanGoOn DEF GoOn, StepEffect, JInv, IInv, TypeOK
<1>2. OwnRestart' = OwnRestart /\ OthersRestart' = OthersRestart /\ OwnRestart \in Nat
  BY <1>1 DEF OwnRestart, OthersRestart, RestartDue, Applied
<1>3. /\ restarts' = IF Step = "stop_explorer" THEN restarts + 1 ELSE restarts
      /\ explorer' = "stopped" =>
          \/ Step = "stop_explorer"
          \/ explorer = "stopped" /\ Step # "start_explorer"
  BY DEF StepEffect
<1>4. explorer = "stopped" => Step = "start_explorer"
  BY DEF JInv, ShellSoFar, Step
<1>5. CASE phase = "apply" /\ Current = Taskbar
  <2>1. /\ Len(todo) \in 1 .. 7 /\ Len(Tail(todo)) = Len(todo) - 1
        /\ Step = "stop_explorer" <=> Len(todo) = 2
    BY <1>1, <1>5, TaskbarStep DEF JInv
  <2>2. restarts = IF Len(todo) <= 1 THEN 1 ELSE 0
    BY <1>5 DEF JInv, ShellSoFar
  <2>3. Step = "stop_explorer" => Head(Tail(todo)) = "start_explorer"
    <3>1. ASSUME Len(todo) = 2 PROVE Head(Tail(todo)) = "start_explorer"
      <4>1. todo \in Seq(Steps) /\ Suffix(todo, Plan(Taskbar))
        BY <1>5 DEF IInv, TypeOK, JInv, OnPlan
      <4>2. todo[2] = Plan(Taskbar)[7]
        <5>1. 7 - 2 + 2 = 7 /\ 2 \in 1 .. 2
          OBVIOUS
        <5> QED BY <3>1, <4>1, <5>1, TaskbarPlan DEF Suffix
      <4>3. Plan(Taskbar)[7] = "start_explorer"
        BY TaskbarPlan
      <4>4. Head(Tail(todo)) = todo[2]
        BY <3>1, <4>1, SecondOf
      <4> QED BY <4>2, <4>3, <4>4
    <3> QED BY <2>1, <3>1
  <2>4. restarts' = IF Len(todo') <= 1 THEN 1 ELSE 0
    BY <1>1, <1>3, <2>1, <2>2
  <2>5. explorer' = "stopped" => Len(todo') = 1 /\ Head(todo') = "start_explorer"
    BY <1>1, <1>3, <1>4, <2>1, <2>3
  <2> QED BY <1>1, <1>5, <2>4, <2>5 DEF ShellSoFar
<1>6. CASE phase = "apply" /\ Current # Taskbar
  <2>1. Step \notin {"stop_explorer", "start_explorer"}
    BY <1>1, <1>6, OtherStep DEF JInv, TaskbarSteps
  <2>2. restarts = OwnRestart
    BY <1>6 DEF JInv, ShellSoFar
  <2> QED BY <1>1, <1>2, <1>3, <1>4, <1>6, <2>1, <2>2 DEF ShellSoFar
<1>7. CASE phase = "post"
  <2>1. /\ Len(todo) \in Nat \ {0} /\ Len(Tail(todo)) = Len(todo) - 1
        /\ Step = "stop_explorer" => Len(todo) = 2 /\ RestartDue(outcome)
        /\ Len(todo) = 2 => Step = "stop_explorer"
    BY <1>1, <1>7, PostStep DEF JInv
  <2>2. restarts = OwnRestart + (IF Len(todo) <= 1 THEN OthersRestart ELSE 0)
    BY <1>7 DEF JInv, ShellSoFar
  <2>3. Step = "stop_explorer" => Head(Tail(todo)) = "start_explorer" /\ OthersRestart = 1
    <3> SUFFICES ASSUME Len(todo) = 2, RestartDue(outcome)
                 PROVE  Head(Tail(todo)) = "start_explorer" /\ OthersRestart = 1
      BY <2>1
    <3>1. todo \in Seq(Steps) /\ Suffix(todo, PostPlan(outcome))
      BY <1>7 DEF IInv, TypeOK, JInv, OnPlan
    <3> DEFINE p == PostPlan(outcome)
    <3>2. Len(p) \in {2, 3} /\ p[Len(p)] = "start_explorer"
      BY PostPlanFacts
    <3> HIDE DEF p
    <3>3. todo[2] = p[Len(p)]
      <4>1. Len(p) - 2 + 2 = Len(p) /\ 2 \in 1 .. 2
        BY <3>2
      <4>2. todo[2] = p[Len(p) - 2 + 2]
        BY <3>1, <4>1 DEF Suffix, p
      <4> QED BY <4>1, <4>2
    <3>4. Head(Tail(todo)) = todo[2]
      BY <3>1, SecondOf
    <3> QED BY <3>2, <3>3, <3>4 DEF OthersRestart
  <2>4. restarts' = OwnRestart + (IF Len(todo') <= 1 THEN OthersRestart ELSE 0)
    <3>1. OthersRestart \in {0, 1}
      BY DEF OthersRestart
    <3>2. OwnRestart \in Nat /\ todo' = Tail(todo) /\ OthersRestart' = OthersRestart
      BY <1>1, <1>2
    <3>3. Len(todo') = Len(todo) - 1 /\ Len(todo) \in Nat \ {0}
      BY <2>1, <3>2
    <3>4. CASE Len(todo) = 1
      <4>1. restarts' = restarts /\ restarts = OwnRestart + OthersRestart
        BY <1>3, <2>1, <2>2, <3>4
      <4>2. Len(todo') <= 1
        BY <3>3, <3>4
      <4> QED BY <4>1, <4>2
    <3>5. CASE Len(todo) = 2
      <4>1. restarts' = restarts + 1 /\ OthersRestart = 1
        BY <1>3, <2>1, <2>3, <3>5
      <4>2. restarts = OwnRestart
        BY <2>2, <3>2, <3>5
      <4>3. Len(todo') <= 1
        BY <3>3, <3>5
      <4> QED BY <4>1, <4>2, <4>3
    <3>6. CASE Len(todo) > 2
      <4>1. restarts' = restarts
        BY <1>3, <2>1, <3>6
      <4>2. restarts = OwnRestart
        BY <2>2, <3>2, <3>3, <3>6
      <4>3. ~(Len(todo') <= 1)
        BY <3>3, <3>6
      <4> QED BY <3>2, <4>1, <4>2, <4>3
    <3> QED BY <3>3, <3>4, <3>5, <3>6
  <2>5. explorer' = "stopped" => Len(todo') = 1 /\ Head(todo') = "start_explorer"
    BY <1>1, <1>3, <1>4, <2>1, <2>3
  <2> QED BY <1>1, <1>2, <1>7, <2>4, <2>5 DEF ShellSoFar
<1> QED BY <1>1, <1>5, <1>6, <1>7

LEMMA NotBoth == ASSUME IInv, QueueFresh, GoOn, Ends PROVE FALSE
<1>1. /\ Current \in Settings /\ outcome[Current] = "none"
      /\ outcome \in [Settings -> Outcomes]
      /\ outcome' = [outcome EXCEPT ![Current] = "failed"]
  BY PlanFinish DEF Ends
<1>2. outcome' = outcome
  BY DEF GoOn
<1> QED BY <1>1, <1>2

LEMMA PinsGoOn ==
    ASSUME IInv, JInv, StepEffect, GoOn
    PROVE  PinsSoFar'
<1>1. /\ todo' = Tail(todo) /\ UNCHANGED <<env, phase, outcome>> /\ todo # <<>>
      /\ phase \in {"apply", "post"} /\ Current' = Current
  BY PlanGoOn DEF GoOn, StepEffect, JInv
<1>2. Applied(Taskbar)' <=> Applied(Taskbar)
  BY <1>1 DEF Applied
<1>3. /\ Step \notin {"clear_pins", "copy_pins"} => pins' = pins
      /\ Step \notin {"clear_pins", "pin_chrome"} => chromePin' = chromePin
  BY DEF StepEffect
<1>4. /\ Step = "clear_pins" => pins' = {} /\ chromePin' = "none"
      /\ Step = "copy_pins" => pins' = pins \cup StaticPins
  BY NotBoth DEF StepEffect, JInv
<1>5. Applied(Taskbar) => pins = StaticPins /\ (env.unlinkWorks => chromePin # "broken")
  BY DEF JInv, PinsSoFar
<1>6. CASE phase = "apply" /\ Current = Taskbar
  <2>1. /\ Len(todo) \in 1 .. 7 /\ Len(todo') = Len(todo) - 1
        /\ Step = "clear_pins" <=> Len(todo) = 6
        /\ Step = "copy_pins" <=> Len(todo) = 5
        /\ Step = "pin_chrome" <=> Len(todo) = 4
    BY <1>1, <1>6, TaskbarStep DEF JInv
  <2>2. /\ Len(todo) = 5 => pins = {}
        /\ Len(todo) <= 4 => pins = StaticPins
        /\ Len(todo) <= 5 /\ env.unlinkWorks => chromePin # "broken"
    BY <1>6 DEF JInv, PinsSoFar
  <2>3. ~Applied(Taskbar)
    <3>1. queue \in Seq(Settings) /\ queue # <<>>
      BY <1>6 DEF IInv, TypeOK, PhaseOK
    <3>2. 1 \in 1 .. Len(queue) /\ Current = queue[1]
      BY <3>1 DEF Current
    <3> QED BY <1>6, <3>2 DEF JInv, QueueFresh, Applied
  <2>4. Len(todo') = 5 => pins' = {}
    <3> SUFFICES ASSUME Len(todo') = 5 PROVE pins' = {}
      OBVIOUS
    <3>1. Len(todo) = 6
      <4>1. Len(todo) - 1 = 5 /\ Len(todo) \in 1 .. 7
        BY <2>1
      <4> QED BY ONLY <4>1
    <3>2. Step = "clear_pins"
      BY <2>1, <3>1
    <3> QED BY <1>4, <3>2
  <2>5. Len(todo') <= 4 => pins' = StaticPins
    <3>1. CASE Len(todo) = 5
      <4>1. Step = "copy_pins" /\ pins = {}
        BY <2>1, <2>2, <3>1
      <4>2. pins' = pins \cup StaticPins
        BY <1>4, <4>1
      <4> QED BY <4>1, <4>2
    <3>2. CASE Len(todo) <= 4
      BY <1>3, <2>1, <2>2, <3>2
    <3> QED BY <2>1, <3>1, <3>2
  <2>6. Len(todo') <= 5 /\ env.unlinkWorks => chromePin' # "broken"
    <3> SUFFICES ASSUME env.unlinkWorks, Len(todo') <= 5 PROVE chromePin' # "broken"
      OBVIOUS
    <3>1. CASE Len(todo) = 6
      <4>1. Step = "clear_pins"
        BY <2>1, <3>1
      <4> QED BY <1>4, <4>1
    <3>2. CASE Len(todo) = 4
      <4>1. Step = "pin_chrome" /\ chromePin # "broken"
        BY <2>1, <2>2, <3>2
      <4> QED BY <4>1 DEF StepEffect
    <3>3. CASE Len(todo) # 6 /\ Len(todo) # 4
      <4>1. Step \notin {"clear_pins", "pin_chrome"} /\ chromePin # "broken"
        BY <2>1, <2>2, <3>3
      <4> QED BY <1>3, <4>1
    <3> QED BY <3>1, <3>2, <3>3
  <2> QED BY <1>1, <1>2, <2>3, <2>4, <2>5, <2>6 DEF PinsSoFar
<1>7. CASE ~(phase = "apply" /\ Current = Taskbar)
  <2>1. Step \notin PinSteps
    <3>1. CASE phase = "apply"
      BY <1>1, <1>7, <3>1, OtherStep DEF JInv, PinSteps, TaskbarSteps
    <3>2. CASE phase = "post"
      BY <1>1, <3>2, PostStep DEF JInv
    <3> QED BY <1>1, <3>1, <3>2
  <2>2. pins' = pins /\ chromePin' = chromePin
    BY <1>3, <2>1 DEF PinSteps
  <2> QED BY <1>1, <1>2, <1>5, <1>7, <2>2 DEF PinsSoFar
<1> QED BY <1>6, <1>7

-----------------------------------------------------------------------------
(* A setting ends *)

LEMMA TaskbarIsSetting == Taskbar \in Settings
BY DEF Taskbar, Settings, ActionSettings

\* The shell was restarted as the result says, and is not left stopped.
LEMMA ShellFinish ==
    ASSUME IInv, JInv, phase = "apply",
           NEW result \in {"applied", "failed"}, Finish(result),
           restarts' = restarts, explorer' # "stopped",
           restarts = IF Current = Taskbar THEN (IF result = "applied" THEN 1 ELSE 0)
                      ELSE OwnRestart
    PROVE  ShellSoFar'
<1>1. /\ NextDue /\ Current \in Settings /\ outcome \in [Settings -> Outcomes]
      /\ outcome' = [outcome EXCEPT ![Current] = result]
  BY PlanFinish DEF JInv
<1>2. restarts' = OwnRestart'
  <2>1. CASE Current = Taskbar
    <3>1. outcome'[Taskbar] = result
      BY <1>1, <2>1
    <3> QED BY <2>1, <3>1 DEF OwnRestart, Applied
  <2>2. CASE Current # Taskbar
    <3>1. outcome'[Taskbar] = outcome[Taskbar]
      BY <1>1, <2>2, TaskbarIsSetting
    <3> QED BY <2>2, <3>1 DEF OwnRestart, Applied
  <2> QED BY <2>1, <2>2
<1>3. CASE phase' = "post" /\ todo' = PostPlan(outcome')
  <2> DEFINE n == Len(PostPlan(outcome'))
  <2>1. /\ RestartDue(outcome') => n \in {2, 3}
        /\ ~RestartDue(outcome') => n \in {0, 1}
    BY PostPlanFacts
  <2>2. OthersRestart' = IF RestartDue(outcome') THEN 1 ELSE 0
    BY DEF OthersRestart, RestartDue
  <2>3. OwnRestart' \in {0, 1}
    BY DEF OwnRestart
  <2> HIDE DEF n
  <2>4. restarts' = OwnRestart' + (IF n <= 1 THEN OthersRestart' ELSE 0)
    BY <1>2, <2>1, <2>2, <2>3
  <2> QED BY <1>3, <2>4 DEF ShellSoFar, n
<1>4. CASE phase' = "apply" /\ todo' = Plan(Current') /\ outcome'[Current'] = "none"
  <2>1. CASE Current' = Taskbar
    <3>1. OwnRestart' = 0
      BY <1>4, <2>1 DEF OwnRestart, Applied
    <3>2. Len(todo') = 7
      BY <1>4, <2>1, TaskbarPlan
    <3>3. restarts' = 0 /\ ~(Len(todo') <= 1)
      BY <1>2, <3>1, <3>2
    <3> QED BY <1>4, <2>1, <3>3 DEF ShellSoFar
  <2>2. CASE Current' # Taskbar
    BY <1>2, <1>4, <2>2 DEF ShellSoFar
  <2> QED BY <2>1, <2>2
<1> QED BY <1>1, <1>3, <1>4 DEF NextDue

\* A taskbar that is now applied has its pins.
LEMMA PinsFinish ==
    ASSUME IInv, JInv, phase = "apply",
           NEW result \in {"applied", "failed"}, Finish(result),
           Current # Taskbar \/ result = "applied" =>
               pins' = pins /\ chromePin' = chromePin,
           Current = Taskbar /\ result = "applied" => todo = <<>>
    PROVE  PinsSoFar'
<1>1. /\ NextDue /\ Current \in Settings /\ outcome \in [Settings -> Outcomes]
      /\ outcome' = [outcome EXCEPT ![Current] = result]
  BY PlanFinish DEF JInv
<1>2. env' = env
  BY DEF Finish
<1>3. Applied(Taskbar)' => pins' = StaticPins /\ (env.unlinkWorks => chromePin' # "broken")
  <2>1. CASE Current = Taskbar
    <3>1. outcome'[Taskbar] = result
      BY <1>1, <2>1
    <3>2. CASE result = "applied"
      <4>1. Len(todo) = 0
        BY <2>1, <3>2
      <4>2. pins = StaticPins /\ (env.unlinkWorks => chromePin # "broken")
        BY <2>1, <4>1 DEF JInv, PinsSoFar
      <4> QED BY <3>2, <4>2
    <3>3. CASE result # "applied"
      BY <3>1, <3>3 DEF Applied
    <3> QED BY <3>2, <3>3
  <2>2. CASE Current # Taskbar
    <3>1. outcome'[Taskbar] = outcome[Taskbar]
      BY <1>1, <2>2, TaskbarIsSetting
    <3> QED BY <2>2, <3>1 DEF JInv, PinsSoFar, Applied
  <2> QED BY <2>1, <2>2
<1>4. CASE phase' = "post"
  BY <1>2, <1>3, <1>4 DEF PinsSoFar
<1>5. CASE phase' = "apply" /\ todo' = Plan(Current')
  <2>1. CASE Current' = Taskbar
    <3>1. Len(todo') = 7
      BY <1>5, <2>1, TaskbarPlan
    <3> QED BY <1>2, <1>3, <3>1 DEF PinsSoFar
  <2>2. CASE Current' # Taskbar
    BY <1>2, <1>3, <2>2 DEF PinsSoFar
  <2> QED BY <2>1, <2>2
<1> QED BY <1>1, <1>4, <1>5 DEF NextDue

\* The table is left alone by the steps.
LEMMA RowsLeft ==
    ASSUME RowsSoFar, phase # "idle", UNCHANGED view
    PROVE  RowsSoFar'
BY DEF RowsSoFar, AppliedIsShown, view

LEMMA StepKeeps ==
    ASSUME IInv, JInv, WriteDone \/ WriteFails \/ ShellOrPins
    PROVE  JInv'
<1>1. StepEffect
  BY StepHasEffect
<1>2. RowsSoFar'
  BY <1>1, RowsLeft DEF StepEffect, JInv
<1>3. CASE GoOn
  <2>1. OnPlan' /\ QueueFresh'
    BY <1>1, <1>3, PlanGoOn DEF StepEffect, JInv
  <2> QED BY <1>1, <1>2, <1>3, <2>1, ShellGoOn, PinsGoOn DEF JInv
<1>4. CASE Ends /\ Step \notin {"stop_explorer", "start_explorer"}
  <2>1. phase = "apply" /\ Finish("failed") /\ todo # <<>>
    BY <1>1, <1>4 DEF Ends, StepEffect
  <2>2. OnPlan' /\ QueueFresh'
    BY <2>1, PlanFinish DEF JInv
  <2>3. restarts' = restarts /\ explorer' # "stopped"
    <3>1. explorer # "stopped"
      BY <1>4 DEF JInv, ShellSoFar, Step
    <3> QED BY <1>1, <1>4, <3>1 DEF StepEffect
  <2>4. restarts = IF Current = Taskbar THEN 0 ELSE OwnRestart
    <3>1. CASE Current = Taskbar
      <4>1. Len(todo) \in 1 .. 7 /\ Len(todo) # 1 /\ Len(todo) # 2
        BY <1>4, <2>1, <3>1, TaskbarStep DEF JInv
      <4>2. ~(Len(todo) <= 1)
        BY ONLY <4>1
      <4>3. restarts = IF Len(todo) <= 1 THEN 1 ELSE 0
        BY <2>1, <3>1 DEF JInv, ShellSoFar
      <4> QED BY ONLY <3>1, <4>2, <4>3
    <3>2. CASE Current # Taskbar
      BY <2>1, <3>2 DEF JInv, ShellSoFar
    <3> QED BY <3>1, <3>2
  <2>5. ShellSoFar'
    BY <2>1, <2>3, <2>4, ShellFinish
  <2>6. Current # Taskbar => pins' = pins /\ chromePin' = chromePin
    <3>1. Current # Taskbar => Step \notin TaskbarSteps
      BY <2>1, OtherStep DEF JInv
    <3> QED BY <1>1, <3>1 DEF StepEffect, TaskbarSteps
  <2>7. PinsSoFar'
    BY <2>1, <2>6, PinsFinish
  <2> QED BY <1>2, <2>2, <2>5, <2>7 DEF JInv
<1> QED BY <1>1, <1>3, <1>4 DEF StepEffect

LEMMA FinishKeepsShell ==
    ASSUME IInv, JInv, FinishSetting
    PROVE  JInv'
<1>1. /\ phase = "apply" /\ todo = <<>> /\ Finish("applied") /\ Len(todo) = 0
      /\ UNCHANGED <<pins, chromePin, explorer, restarts>> /\ UNCHANGED view
  BY DEF FinishSetting, pcState, Finish
<1>2. OnPlan' /\ QueueFresh'
  BY <1>1, PlanFinish DEF JInv
<1>3. RowsSoFar'
  BY <1>1, RowsLeft DEF JInv
<1>4. ShellSoFar'
  <2>1. explorer' # "stopped"
    BY <1>1 DEF JInv, ShellSoFar
  <2>2. restarts = IF Current = Taskbar THEN 1 ELSE OwnRestart
    BY <1>1 DEF JInv, ShellSoFar
  <2> QED BY <1>1, <2>1, <2>2, ShellFinish
<1>5. PinsSoFar'
  BY <1>1, PinsFinish
<1> QED BY <1>2, <1>3, <1>4, <1>5 DEF JInv

-----------------------------------------------------------------------------
(* The status table *)

\* The writes that make a setting count as configured are promised ones.
LEMMA MustsOf ==
    /\ \A s \in RegistrySettings : "value" \in Musts(s)
    /\ "wallpaper" \in Musts("set_default_wallpaper")
    /\ "edge_policy" \in Musts("delete_edge_shortcut")
    /\ "max_age" \in Musts("disable_password_expiration")
<1>1. ASSUME NEW s \in RegistrySettings PROVE "value" \in Musts(s)
  <2> DEFINE p == <<"value">>
  <2>1. 1 \in DOMAIN p /\ p[1] = "value"
    OBVIOUS
  <2>2. Plan(s) = p
    BY <1>1 DEF Plan
  <2> HIDE DEF p
  <2> QED BY <2>1, <2>2 DEF Musts, Writes, WriteSteps
<1>2. ASSUME NEW s \in ActionSettings PROVE Plan(s) = ActionPlans[s]
  BY SettingsAssumption DEF Plan
<1>3. "wallpaper" \in Musts("set_default_wallpaper")
  <2> DEFINE p == <<"background_type", "wallpaper", "desktop_icon", "refresh_wallpaper">>
  <2>1. 2 \in DOMAIN p /\ p[2] = "wallpaper"
    OBVIOUS
  <2>2. Plan("set_default_wallpaper") = p
    BY <1>2 DEF ActionPlans, ActionSettings
  <2> HIDE DEF p
  <2> QED BY <2>1, <2>2 DEF Musts, Writes, WriteSteps
<1>4. "edge_policy" \in Musts("delete_edge_shortcut")
  <2> DEFINE p == <<"public_link", "user_link", "edge_policy">>
  <2>1. 3 \in DOMAIN p /\ p[3] = "edge_policy"
    OBVIOUS
  <2>2. Plan("delete_edge_shortcut") = p
    BY <1>2 DEF ActionPlans, ActionSettings
  <2> HIDE DEF p
  <2> QED BY <2>1, <2>2 DEF Musts, Writes, WriteSteps
<1>5. "max_age" \in Musts("disable_password_expiration")
  <2> DEFINE p == <<"max_age", "user_flags", "user_report">>
  <2>1. 1 \in DOMAIN p /\ p[1] = "max_age"
    OBVIOUS
  <2>2. Plan("disable_password_expiration") = p
    BY <1>2 DEF ActionPlans, ActionSettings
  <2> HIDE DEF p
  <2> QED BY <2>1, <2>2 DEF Musts, Writes, WriteSteps
<1> QED BY <1>1, <1>3, <1>4, <1>5

\* An applied setting is configured, but for what the code passes over.
LEMMA AppliedIsConfigured ==
    ASSUME IInv, PinsSoFar, NEW s \in Settings, Applied(s), ~Configured(s)
    PROVE  \/ s = "delete_edge_shortcut" /\ ~Holds(s, {"public_link", "user_link"})
           \/ s = Taskbar /\ chromePin = "none"
<1>1. \A e \in Musts(s) : <<s, e>> \in written
  BY PromisedIs DEF IInv, AppliedMeansWritten
<1>2. CASE s \in RegistrySettings
  <2>1. s \notin ActionSettings
    BY <1>2, SettingsAssumption
  <2>2. <<s, "value">> \in written
    BY <1>1, <1>2, MustsOf
  <2> QED BY <1>2, <2>1, <2>2 DEF Configured, Holds, ActionSettings
<1>3. CASE s \in ActionSettings
  <2>1. s \notin RegistrySettings
    BY <1>3, SettingsAssumption
  <2>2. CASE s = "set_default_wallpaper"
    BY <1>1, <2>1, <2>2, MustsOf DEF Configured, Holds
  <2>3. CASE s = "delete_edge_shortcut"
    BY <1>1, <2>1, <2>3, MustsOf DEF Configured, Holds
  <2>4. CASE s = "disable_password_expiration"
    BY <1>1, <2>1, <2>4, MustsOf DEF Configured, Holds
  <2>5. CASE s = Taskbar
    BY <2>1, <2>5 DEF Configured, TaskbarConfigured, PinsSoFar, Taskbar
  <2> QED BY <1>3, <2>2, <2>3, <2>4, <2>5 DEF ActionSettings, Taskbar
<1> QED BY <1>2, <1>3 DEF Settings

LEMMA ReadShows ==
    ASSUME IInv, PinsSoFar, ReadRows, UNCHANGED <<outcome, written, chromePin>>
    PROVE  AppliedIsShown'
<1> SUFFICES ASSUME NEW s \in Settings, outcome[s] = "applied",
                    rows'[s] = "not_configured"
             PROVE  \/ s = "delete_edge_shortcut"
                          /\ ~(({s} \X {"public_link", "user_link"}) \subseteq written)
                    \/ s = "set_taskbar_icons" /\ chromePin = "none"
  BY DEF AppliedIsShown, Applied, Holds
<1>1. PICK unread \in UnreadableSets : rows' = Status(unread)
  BY DEF ReadRows
<1>2. ~Configured(s)
  BY <1>1 DEF Status
<1> QED BY <1>2, AppliedIsConfigured DEF Applied, Holds, Taskbar

LEMMA IdleKeeps ==
    ASSUME IInv, JInv, CheckStatus \/ ApplyNothing \/ Recheck \/ RecheckFails
    PROVE  JInv'
<1>1. /\ UNCHANGED <<env, queue, todo, outcome, pcState>>
      /\ phase' = "idle" /\ todo = <<>> /\ phase \in {"idle", "post"} /\ Len(todo) = 0
  BY DEF CheckStatus, ApplyNothing, Recheck, RecheckFails, IInv, PhaseOK
<1>2. UNCHANGED <<written, pins, chromePin, explorer, restarts>>
  BY <1>1 DEF pcState
<1>3. OnPlan' /\ QueueFresh'
  BY <1>1 DEF OnPlan, QueueFresh
<1>4. ShellSoFar'
  <2>1. OwnRestart' = OwnRestart /\ OthersRestart' = OthersRestart
    BY <1>1 DEF OwnRestart, OthersRestart, RestartDue, Applied
  <2>2. explorer # "stopped" /\ restarts = OwnRestart + OthersRestart
    BY <1>1 DEF JInv, ShellSoFar
  <2> QED BY <1>1, <1>2, <2>1, <2>2 DEF ShellSoFar
<1>5. PinsSoFar'
  BY <1>1, <1>2 DEF JInv, PinsSoFar, Applied
<1>6. RowsSoFar'
  <2>1. CASE ReadRows
    BY <1>1, <1>2, <2>1, ReadShows DEF JInv, RowsSoFar
  <2>2. CASE ApplyNothing
    BY <1>1, <2>2 DEF ApplyNothing, RowsSoFar, AppliedIsShown
  <2>3. CASE RecheckFails
    <3>1. phase # "idle" /\ UNCHANGED view
      BY <2>3 DEF RecheckFails
    <3> QED BY <3>1, RowsLeft DEF JInv
  <2> QED BY <2>1, <2>2, <2>3 DEF CheckStatus, Recheck
<1> QED BY <1>3, <1>4, <1>5, <1>6 DEF JInv

-----------------------------------------------------------------------------
(* Start and apply *)

LEMMA NothingApplied ==
    ASSUME \A s \in Settings : outcome[s] # "applied"
    PROVE  OwnRestart = 0 /\ OthersRestart = 0 /\ ~Applied(Taskbar)
BY SettingsAssumption, TaskbarIsSetting
   DEF OwnRestart, OthersRestart, RestartDue, Applied, Settings

LEMMA InitShell == Init => JInv
<1> SUFFICES ASSUME Init PROVE JInv
  OBVIOUS
<1>1. /\ phase = "idle" /\ explorer = "running" /\ restarts = 0 /\ rowsCurrent = FALSE
      /\ \A s \in Settings : outcome[s] # "applied"
  BY DEF Init, NoOutcome
<1> QED BY <1>1, NothingApplied
        DEF JInv, OnPlan, QueueFresh, ShellSoFar, PinsSoFar, RowsSoFar, AppliedIsShown

LEMMA SelectKeeps ==
    ASSUME IInv, JInv, NEW q \in Selections, ApplySelected(q)
    PROVE  JInv'
<1>1. /\ phase = "idle" /\ todo = <<>> /\ Len(todo) = 0
      /\ UNCHANGED <<env, pins, chromePin, explorer>>
      /\ rowsCurrent' = FALSE /\ restarts' = 0
  BY DEF ApplySelected, IInv, PhaseOK
<1>2. explorer' # "stopped"
  BY <1>1 DEF JInv, ShellSoFar
<1>3. \A s \in Settings : outcome'[s] # "applied"
  BY DEF ApplySelected, NoOutcome
<1>4. OwnRestart' = 0 /\ OthersRestart' = 0 /\ ~Applied(Taskbar)'
  BY <1>3, SettingsAssumption, TaskbarIsSetting
     DEF OwnRestart, OthersRestart, RestartDue, Applied, Settings
<1>5. RowsSoFar'
  BY <1>1 DEF RowsSoFar, AppliedIsShown
<1>6. CASE env.testMode
  <2>1. phase' = "post" /\ todo' = <<>>
    BY <1>1, <1>6 DEF ApplySelected
  <2>2. Suffix(todo', PostPlan(outcome'))
    <3>1. Len(PostPlan(outcome')) \in Nat
      BY PostPlanFacts
    <3>2. Len(todo') = 0
      BY <2>1
    <3> QED BY <3>1, <3>2 DEF Suffix
  <2>3. restarts' = OwnRestart' + (IF Len(todo') <= 1 THEN OthersRestart' ELSE 0)
    BY <1>1, <1>4
  <2> QED BY <1>2, <1>4, <1>5, <2>1, <2>2, <2>3
          DEF JInv, OnPlan, QueueFresh, ShellSoFar, PinsSoFar
<1>7. CASE ~env.testMode
  <2>1. phase' = "apply" /\ queue' = q /\ todo' = Plan(q[1]) /\ outcome' = NoOutcome
    BY <1>7 DEF ApplySelected
  <2>2. Current' = q[1] /\ q[1] \in Settings /\ q \in Seq(Settings)
    BY <2>1, SelectionType DEF Current
  <2>3. OnPlan'
    <3>1. Plan(q[1]) \in Seq(Steps)
      BY <2>2, PlanIsGood DEF GoodPlan
    <3> QED BY <2>1, <2>2, <3>1, SuffixOfItself DEF OnPlan
  <2>4. QueueFresh'
    <3>1. \A i, j \in DOMAIN q : q[i] = q[j] => i = j
      BY DEF Selections
    <3>2. DOMAIN q = 1 .. Len(q) /\ \A i \in 1 .. Len(q) : q[i] \in Settings
      BY <2>2
    <3> QED BY <2>1, <3>1, <3>2 DEF QueueFresh, NoOutcome
  <2>5. Current' = Taskbar => Len(todo') = 7
    BY <2>1, <2>2, TaskbarPlan
  <2>6. ShellSoFar'
    BY <1>1, <1>2, <1>4, <2>1, <2>5 DEF ShellSoFar
  <2>7. PinsSoFar'
    BY <1>4, <2>5 DEF PinsSoFar
  <2> QED BY <1>5, <2>3, <2>4, <2>6, <2>7 DEF JInv
<1> QED BY <1>6, <1>7

LEMMA ShellStutter == ASSUME JInv, UNCHANGED vars PROVE JInv'
<1>1. /\ UNCHANGED <<env, phase, queue, todo, outcome, explorer, restarts>>
      /\ UNCHANGED <<written, pins, chromePin, rows, rowsCurrent>>
  BY DEF vars
<1>2. Current' = Current
  BY <1>1 DEF Current
<1>3. OwnRestart' = OwnRestart /\ OthersRestart' = OthersRestart
  BY <1>1 DEF OwnRestart, OthersRestart, RestartDue, Applied
<1>4. OnPlan' /\ QueueFresh'
  BY <1>1, <1>2 DEF JInv, OnPlan, QueueFresh
<1>5. ShellSoFar'
  BY <1>1, <1>2, <1>3 DEF JInv, ShellSoFar
<1>6. PinsSoFar'
  BY <1>1, <1>2 DEF JInv, PinsSoFar, Applied
<1>7. RowsSoFar'
  BY <1>1 DEF JInv, RowsSoFar, AppliedIsShown, Applied, Holds
<1> QED BY <1>4, <1>5, <1>6, <1>7 DEF JInv

LEMMA ShellStep == IInv /\ JInv /\ [Next]_vars => JInv'
<1> SUFFICES ASSUME IInv, JInv, [Next]_vars PROVE JInv'
  OBVIOUS
<1>1. CASE CheckStatus \/ ApplyNothing \/ Recheck \/ RecheckFails
  BY <1>1, IdleKeeps
<1>2. CASE \E q \in Selections : ApplySelected(q)
  BY <1>2, SelectKeeps
<1>3. CASE WriteDone \/ WriteFails \/ ShellOrPins
  BY <1>3, StepKeeps
<1>4. CASE FinishSetting
  BY <1>4, FinishKeepsShell
<1>5. CASE UNCHANGED vars
  BY <1>5, ShellStutter
<1> QED BY <1>1, <1>2, <1>3, <1>4, <1>5 DEF Next, ShellOrPins

LEMMA ShellInductive == Spec => []JInv
BY InitShell, ShellStep, Inductive, PTL DEF Spec

-----------------------------------------------------------------------------
(* Theorems *)

\* After an apply the shell is not left stopped without an attempt to start
\* it, and was stopped once for all applied settings that need it, and once
\* more for the taskbar, whatever was selected and whatever failed.
THEOREM ShellRestarts == Spec => []ExplorerRestarts
<1>1. IInv /\ JInv => ExplorerRestarts
  <2> SUFFICES ASSUME IInv, JInv, todo = <<>>, phase # "apply"
               PROVE  /\ explorer # "stopped"
                      /\ restarts = OthersRestart + OwnRestart
    BY DEF ExplorerRestarts, OwnRestart, OthersRestart, RestartDue, Applied, Taskbar
  <2>1. Len(todo) = 0 /\ phase \in {"idle", "post"}
    BY DEF IInv, TypeOK
  <2>2. OwnRestart \in {0, 1} /\ OthersRestart \in {0, 1}
    BY DEF OwnRestart, OthersRestart
  <2> QED BY <2>1, <2>2 DEF JInv, ShellSoFar
<1> QED BY <1>1, Inductive, ShellInductive, PTL

\* The Chrome pin an applied taskbar leaves behind has a target, as long as
\* files in the pinned folder can be deleted.
THEOREM ChromePinStaysValid == Spec => []ChromePinValid
<1>1. JInv => ChromePinValid
  BY DEF JInv, PinsSoFar, ChromePinValid, Taskbar
<1> QED BY <1>1, ShellInductive, PTL

\* A table read after the apply shows every applied setting as configured or
\* unreadable, but for the two things the code passes over.
THEOREM AppliedStaysShown == Spec => []AppliedIsShown
<1>1. JInv => AppliedIsShown
  BY DEF JInv, RowsSoFar
<1> QED BY <1>1, ShellInductive, PTL
=============================================================================
