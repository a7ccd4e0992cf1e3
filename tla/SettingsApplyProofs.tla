------------------------ MODULE SettingsApplyProofs ------------------------
(***************************************************************************)
(* What TLC checks of SettingsApply for two of six settings, proved for    *)
(* any settings and any number of them: an applied result keeps its        *)
(* promise, and an apply changes nothing but what was selected.            *)
(***************************************************************************)
EXTENDS SettingsApply, TLAPS

PinSteps == {"clear_pins", "copy_pins", "pin_chrome"}
PostSteps == {"update_user_parameters", "stop_explorer", "start_explorer"}

\* The writes a result of success promises.
Musts(s) == Writes(s) \ {"public_link", "user_link", "user_flags"}

-----------------------------------------------------------------------------
(* Plans *)

\* What the proofs need of the plan p of the setting s.
GoodPlan(s, p) ==
    /\ p \in Seq(Steps)
    /\ \A i \in DOMAIN p :
          /\ p[i] # "update_user_parameters"
          /\ p[i] \in PinSteps => s = "set_taskbar_icons" /\ p[1] = "find_resources"

LEMMA PlanIsGood == ASSUME NEW s \in Settings PROVE GoodPlan(s, Plan(s))
<1>1. CASE s \in RegistrySettings
  <2> DEFINE p == <<"value">>
  <2>1. p \in Seq(Steps) /\ DOMAIN p = 1 .. 1 /\ p[1] = "value"
    BY DEF Steps, WriteSteps
  <2>2. Plan(s) = p
    BY <1>1 DEF Plan
  <2> HIDE DEF p
  <2> QED BY <2>1, <2>2 DEF GoodPlan, PinSteps
<1>2. CASE s \notin RegistrySettings
  <2>1. Plan(s) = ActionPlans[s] /\ s \in ActionSettings
    BY <1>2 DEF Plan, Settings
  <2>2. CASE s = "set_default_wallpaper"
    <3> DEFINE p == <<"background_type", "wallpaper", "desktop_icon", "refresh_wallpaper">>
    <3>1. /\ p \in Seq(Steps) /\ DOMAIN p = 1 .. 4
          /\ p[1] = "background_type" /\ p[2] = "wallpaper"
          /\ p[3] = "desktop_icon" /\ p[4] = "refresh_wallpaper"
      BY DEF Steps, WriteSteps
    <3>2. Plan(s) = p
      BY <2>1, <2>2 DEF ActionPlans
    <3> HIDE DEF p
    <3> QED BY <3>1, <3>2 DEF GoodPlan, PinSteps
  <2>3. CASE s = "delete_edge_shortcut"
    <3> DEFINE p == <<"public_link", "user_link", "edge_policy">>
    <3>1. /\ p \in Seq(Steps) /\ DOMAIN p = 1 .. 3
          /\ p[1] = "public_link" /\ p[2] = "user_link" /\ p[3] = "edge_policy"
      BY DEF Steps, WriteSteps
    <3>2. Plan(s) = p
      BY <2>1, <2>3 DEF ActionPlans
    <3> HIDE DEF p
    <3> QED BY <3>1, <3>2 DEF GoodPlan, PinSteps
  <2>4. CASE s = "disable_password_expiration"
    <3> DEFINE p == <<"max_age", "user_flags", "user_report">>
    <3>1. /\ p \in Seq(Steps) /\ DOMAIN p = 1 .. 3
          /\ p[1] = "max_age" /\ p[2] = "user_flags" /\ p[3] = "user_report"
      BY DEF Steps, WriteSteps
    <3>2. Plan(s) = p
      BY <2>1, <2>4 DEF ActionPlans
    <3> HIDE DEF p
    <3> QED BY <3>1, <3>2 DEF GoodPlan, PinSteps
  <2>5. CASE s = "set_taskbar_icons"
    <3> DEFINE p == <<"find_resources", "clear_pins", "copy_pins", "pin_chrome",
                      "import_layout", "stop_explorer", "start_explorer">>
    <3>1. /\ p \in Seq(Steps) /\ DOMAIN p = 1 .. 7 /\ p[1] = "find_resources"
          /\ p[2] = "clear_pins" /\ p[3] = "copy_pins" /\ p[4] = "pin_chrome"
          /\ p[5] = "import_layout" /\ p[6] = "stop_explorer" /\ p[7] = "start_explorer"
      BY DEF Steps, WriteSteps, TaskbarSteps
    <3>2. Plan(s) = p
      BY <2>1, <2>5 DEF ActionPlans
    <3> HIDE DEF p
    <3> QED BY <2>5, <3>1, <3>2 DEF GoodPlan, PinSteps
  <2> QED BY <2>1, <2>2, <2>3, <2>4, <2>5 DEF ActionSettings
<1> QED BY <1>1, <1>2

\* Every promised write is a step of the plan.
LEMMA MustsPlanned ==
    ASSUME NEW s, NEW e \in Musts(s)
    PROVE  /\ \E i \in DOMAIN Plan(s) : Plan(s)[i] = e
           /\ e \in WriteSteps \ {"public_link", "user_link", "user_flags"}
BY DEF Musts, Writes

LEMMA MustsAreNoBestEffort ==
    ASSUME NEW s \in Settings, NEW e \in Musts(s)
    PROVE  e \notin BestEffort
<1>1. PICK i \in DOMAIN Plan(s) : Plan(s)[i] = e
  BY MustsPlanned
<1>2. e # "update_user_parameters"
  BY <1>1, PlanIsGood DEF GoodPlan
<1> QED BY <1>2, MustsPlanned DEF BestEffort, WriteSteps

LEMMA PostPlanType == ASSUME NEW result PROVE PostPlan(result) \in Seq(PostSteps)
<1>1. /\ <<"update_user_parameters">> \in Seq(PostSteps)
      /\ <<"stop_explorer", "start_explorer">> \in Seq(PostSteps)
      /\ <<>> \in Seq(PostSteps)
  BY DEF PostSteps
<1> QED BY <1>1 DEF PostPlan, RestartPlan

LEMMA PostStepsAreSteps ==
    /\ Seq(PostSteps) \subseteq Seq(Steps)
    /\ PostSteps \cap PinSteps = {}
    /\ PostSteps \subseteq BestEffort
BY DEF PostSteps, PinSteps, BestEffort, Steps, WriteSteps, TaskbarSteps

-----------------------------------------------------------------------------
(* The inductive invariant *)

\* There are steps left only during an apply, and never in test mode.
PhaseOK ==
    /\ phase = "idle" => todo = <<>>
    /\ phase = "apply" => queue # <<>>
    /\ phase = "post" => todo \in Seq(PostSteps)
    /\ env.testMode => phase # "apply" /\ todo = <<>> /\ restarts = 0

\* Pins are touched for the taskbar only, once its resources are found.
PinsOwned ==
    \A i \in DOMAIN todo :
        todo[i] \in PinSteps =>
            /\ phase = "apply" /\ Current = "set_taskbar_icons"
            /\ env.resources = "ok" \/ todo[1] = "find_resources"

\* What the current setting promises is written, or about to be.
PromiseOnTheWay ==
    phase = "apply" =>
        \A e \in Musts(Current) :
            <<Current, e>> \in written \/ \E i \in DOMAIN todo : todo[i] = e

IInv == TypeOK /\ PhaseOK /\ PinsOwned /\ PromiseOnTheWay /\ AppliedMeansWritten

\* What the applies and their steps change, in two parts.
ApplyState == <<env, phase, queue, todo, outcome, written>>

LEMMA PromisedIs ==
    \A s : Promised(s) \subseteq written <=> \A e \in Musts(s) : <<s, e>> \in written
BY DEF Promised, Musts

LEMMA TailOfTodo ==
    ASSUME NEW S, todo \in Seq(S), todo # <<>>
    PROVE  /\ Tail(todo) \in Seq(S)
           /\ \A i \in DOMAIN Tail(todo) :
                 i + 1 \in DOMAIN todo /\ Tail(todo)[i] = todo[i + 1] /\ i >= 1 /\ i + 1 # 1
           /\ \A i \in DOMAIN todo :
                 i = 1 \/ (i - 1 \in DOMAIN Tail(todo) /\ Tail(todo)[i - 1] = todo[i])
           /\ Step = todo[1] /\ 1 \in DOMAIN todo
BY DEF Step

-----------------------------------------------------------------------------
(* The two ways a step ends *)

\* What a step keeps of the invariant, but for RestOK.
Kept ==
    /\ todo' \in Seq(Steps) /\ phase' \in {"idle", "apply", "post"}
    /\ queue' \in Seq(Settings) /\ outcome' \in [Settings -> Outcomes]
    /\ PhaseOK' /\ PinsOwned' /\ PromiseOnTheWay' /\ AppliedMeansWritten'

\* The plan goes on: the step was not find_resources, or the resources are
\* there; a promised write was made.
LEMMA GoOnKeeps ==
    ASSUME IInv, todo # <<>>, phase \in {"apply", "post"}, GoOn,
           written \subseteq written', written' \subseteq (Settings \X WriteSteps),
           Step = "find_resources" => env.resources = "ok",
           phase = "apply" /\ Step \in Musts(Current) => <<Current, Step>> \in written'
    PROVE  Kept
<1>1. /\ todo' = Tail(todo) /\ UNCHANGED <<env, phase, queue, outcome>>
      /\ todo \in Seq(Steps)
  BY DEF GoOn, IInv, TypeOK
<1>2. /\ todo' \in Seq(Steps) /\ phase' \in {"idle", "apply", "post"}
      /\ queue' \in Seq(Settings) /\ outcome' \in [Settings -> Outcomes]
  BY <1>1, TailOfTodo DEF IInv, TypeOK
<1>3. PhaseOK'
  <2>1. phase = "post" => todo' \in Seq(PostSteps)
    BY <1>1, TailOfTodo DEF IInv, PhaseOK
  <2> QED BY <1>1, <2>1 DEF IInv, PhaseOK
<1>4. PinsOwned'
  <2> SUFFICES ASSUME NEW i \in DOMAIN todo', todo'[i] \in PinSteps
               PROVE  /\ phase = "apply" /\ Current = "set_taskbar_icons"
                      /\ env.resources = "ok"
    BY <1>1 DEF PinsOwned, Current
  <2>1. i + 1 \in DOMAIN todo /\ todo[i + 1] = todo'[i]
    BY <1>1, TailOfTodo
  <2>2. /\ phase = "apply" /\ Current = "set_taskbar_icons"
        /\ env.resources = "ok" \/ todo[1] = "find_resources"
    BY <2>1 DEF IInv, PinsOwned
  <2> QED BY <1>1, <2>2, TailOfTodo
<1>5. PromiseOnTheWay'
  <2> SUFFICES ASSUME phase = "apply", NEW e \in Musts(Current)
               PROVE  <<Current, e>> \in written' \/ \E i \in DOMAIN todo' : todo'[i] = e
    <3>1. Current' = Current
      BY <1>1 DEF Current
    <3>2. Musts(Current)' = Musts(Current)
      BY <3>1 DEF Musts, Writes, Plan
    <3> QED BY <1>1, <3>1, <3>2 DEF PromiseOnTheWay
  <2>1. CASE <<Current, e>> \in written
    BY <2>1
  <2>2. CASE \E i \in DOMAIN todo : todo[i] = e
    <3>1. PICK i \in DOMAIN todo : todo[i] = e
      BY <2>2
    <3>2. CASE i = 1
      BY <1>1, <3>1, <3>2, TailOfTodo
    <3>3. CASE i # 1
      BY <1>1, <3>1, <3>3, TailOfTodo
    <3> QED BY <3>2, <3>3
  <2> QED BY <2>1, <2>2 DEF IInv, PromiseOnTheWay
<1>6. AppliedMeansWritten'
  BY <1>1 DEF IInv, AppliedMeansWritten, Applied, Promised, Writes, Plan
<1> QED BY <1>2, <1>3, <1>4, <1>5, <1>6 DEF Kept

\* The setting ends, as applied only when all its steps are done.
LEMMA FinishKeeps ==
    ASSUME IInv, phase = "apply", NEW result \in {"applied", "failed"}, Finish(result),
           result = "applied" => todo = <<>>, written' = written
    PROVE  Kept
<1>1. /\ queue \in Seq(Settings) /\ queue # <<>> /\ outcome \in [Settings -> Outcomes]
      /\ ~env.testMode /\ env' = env
      /\ outcome' = [outcome EXCEPT ![Current] = result]
      /\ queue' = Tail(queue)
  <2>1. env' = env /\ outcome' = [outcome EXCEPT ![Current] = result] /\ queue' = Tail(queue)
    BY DEF Finish
  <2> QED BY <2>1 DEF IInv, TypeOK, PhaseOK
<1>2. Current \in Settings /\ queue' \in Seq(Settings)
  BY <1>1 DEF Current
<1>3. outcome' \in [Settings -> Outcomes]
  BY <1>1 DEF Outcomes
<1>4. AppliedMeansWritten'
  <2> SUFFICES ASSUME NEW s \in Settings, outcome'[s] = "applied"
               PROVE  Promised(s) \subseteq written
    BY DEF AppliedMeansWritten, Applied, Promised, Writes, Plan
  <2>1. CASE s = Current
    <3>1. result = "applied"
      BY <1>1, <1>2, <2>1
    <3>2. \A e \in Musts(Current) : <<Current, e>> \in written
      BY <3>1 DEF IInv, PromiseOnTheWay
    <3> QED BY <2>1, <3>2, PromisedIs
  <2>2. CASE s # Current
    BY <1>1, <2>2 DEF IInv, AppliedMeansWritten, Applied
  <2> QED BY <2>1, <2>2
<1>5. CASE Tail(queue) = <<>>
  <2>1. phase' = "post" /\ todo' = PostPlan(outcome')
    BY <1>5 DEF Finish
  <2>2. todo' \in Seq(PostSteps)
    BY <2>1, PostPlanType
  <2>3. PinsOwned'
    <3>1. \A i \in DOMAIN todo' : todo'[i] \in PostSteps
      BY <2>2
    <3> QED BY <3>1, PostStepsAreSteps DEF PinsOwned
  <2>4. PhaseOK' /\ PromiseOnTheWay'
    BY <1>1, <2>1, <2>2 DEF PhaseOK, PromiseOnTheWay
  <2> QED BY <1>2, <1>3, <1>4, <2>1, <2>2, <2>3, <2>4, PostStepsAreSteps DEF Kept
<1>6. CASE Tail(queue) # <<>>
  <2>1. phase' = "apply" /\ todo' = Plan(Head(Tail(queue)))
    BY <1>6 DEF Finish
  <2>2. Current' = Head(Tail(queue)) /\ Current' \in Settings /\ queue' # <<>>
    BY <1>1, <1>2, <1>6 DEF Current
  <2>3. GoodPlan(Current', todo') /\ todo' = Plan(Current')
    BY <2>1, <2>2, PlanIsGood
  <2>4. todo' \in Seq(Steps)
    BY <2>3 DEF GoodPlan
  <2>5. PinsOwned'
    BY <2>1, <2>3 DEF PinsOwned, GoodPlan
  <2>6. PromiseOnTheWay'
    BY <2>3, MustsPlanned DEF PromiseOnTheWay, Musts, Writes, Plan
  <2>7. PhaseOK'
    BY <1>1, <2>1, <2>2 DEF PhaseOK
  <2> QED BY <1>2, <1>3, <1>4, <2>1, <2>4, <2>5, <2>6, <2>7 DEF Kept
<1> QED BY <1>5, <1>6

-----------------------------------------------------------------------------
(* The invariant is inductive *)

\* The rest of the state, which the invariant says little of.
RestOK ==
    /\ env \in Envs
    /\ written \subseteq (Settings \X WriteSteps)
    /\ pins \subseteq (StaticPins \cup ForeignPins)
    /\ chromePin \in {"none", "valid", "broken"}
    /\ explorer \in {"running", "stopped", "start_failed"}
    /\ restarts \in Nat
    /\ rows \in [Settings -> RowStatus]
    /\ rowsCurrent \in BOOLEAN
    /\ asked \in Nat

LEMMA TypeOKParts ==
    /\ todo \in Seq(Steps) /\ phase \in {"idle", "apply", "post"}
    /\ queue \in Seq(Settings) /\ outcome \in [Settings -> Outcomes]
    /\ RestOK
    <=> TypeOK
BY DEF TypeOK, RestOK

LEMMA KeptRest == Kept /\ RestOK' => IInv'
BY DEF Kept, RestOK, IInv, TypeOK

LEMMA WritesOfSettings ==
    /\ \A s : Writes(s) \subseteq WriteSteps
    /\ UNION {{s} \X Writes(s) : s \in Settings} \subseteq (Settings \X WriteSteps)
BY DEF Writes

LEMMA InitInv == Init => IInv
<1> SUFFICES ASSUME Init PROVE IInv
  OBVIOUS
<1>1. /\ todo = <<>> /\ queue = <<>> /\ phase = "idle" /\ restarts = 0
      /\ todo \in Seq(Steps) /\ queue \in Seq(Settings) /\ DOMAIN todo = {}
  BY DEF Init
<1>2. outcome \in [Settings -> Outcomes] /\ \A s \in Settings : outcome[s] # "applied"
  BY DEF Init, NoOutcome, Outcomes
<1>3. rows \in [Settings -> RowStatus]
  BY DEF Init, NoRows, RowStatus
<1>4. written \subseteq (Settings \X WriteSteps)
  BY WritesOfSettings DEF Init
<1>5. RestOK
  BY <1>3, <1>4 DEF Init, RestOK
<1> QED BY <1>1, <1>2, <1>5, TypeOKParts
        DEF IInv, PhaseOK, PinsOwned, PromiseOnTheWay, AppliedMeansWritten, Applied

\* The status table has a word for every setting.
LEMMA RowsType ==
    ASSUME RestOK, ReadRows
    PROVE  rows' \in [Settings -> RowStatus] /\ rowsCurrent' \in BOOLEAN
BY DEF ReadRows, Status, RowStatus

LEMMA KeepIdle ==
    IInv /\ (CheckStatus \/ ApplyNothing \/ Recheck \/ RecheckFails) => IInv'
<1> SUFFICES ASSUME IInv, CheckStatus \/ ApplyNothing \/ Recheck \/ RecheckFails
             PROVE  IInv'
  OBVIOUS
<1>1. /\ UNCHANGED <<env, queue, todo, outcome, asked, pcState>>
      /\ phase' \in {"idle", phase} /\ (phase' # phase => todo = <<>>)
  BY DEF CheckStatus, ApplyNothing, Recheck, RecheckFails
<1>2. rows' \in [Settings -> RowStatus] /\ rowsCurrent' \in BOOLEAN
  <2>1. RestOK
    BY TypeOKParts DEF IInv
  <2>2. NoRows \in [Settings -> RowStatus]
    BY DEF NoRows, RowStatus
  <2>3. CASE CheckStatus \/ Recheck
    BY <2>1, <2>3, RowsType DEF CheckStatus, Recheck
  <2>4. CASE ApplyNothing
    BY <2>2, <2>4 DEF ApplyNothing
  <2>5. CASE RecheckFails
    BY <2>1, <2>5 DEF RecheckFails, view, RestOK
  <2> QED BY <2>3, <2>4, <2>5
<1>3. TypeOK'
  BY <1>1, <1>2 DEF IInv, TypeOK, pcState
<1>4. PhaseOK' /\ PromiseOnTheWay' /\ PinsOwned'
  BY <1>1 DEF IInv, PhaseOK, PromiseOnTheWay, PinsOwned, Current, pcState, Musts, Writes, Plan
<1>5. AppliedMeansWritten'
  BY <1>1 DEF IInv, AppliedMeansWritten, Applied, Promised, Writes, Plan, pcState
<1> QED BY <1>3, <1>4, <1>5 DEF IInv

LEMMA SelectionType ==
    ASSUME NEW q \in Selections
    PROVE  /\ q \in Seq(Settings) /\ q # <<>> /\ Head(q) = q[1] /\ Len(q) \in Nat
           /\ q[1] \in Settings
<1>1. PICK n \in 1 .. MaxAsked : q \in [1 .. n -> Settings]
  BY DEF Selections
<1>2. q \in Seq(Settings) /\ Len(q) = n
  BY <1>1, SettingsAssumption
<1> QED BY <1>1, <1>2, SettingsAssumption

LEMMA KeepSelect == ASSUME IInv, NEW q \in Selections, ApplySelected(q) PROVE IInv'
<1>1. /\ phase = "idle" /\ todo = <<>> /\ queue \in Seq(Settings) /\ asked \in Nat
      /\ UNCHANGED <<env, written, pins, chromePin, explorer, rows>>
      /\ rowsCurrent' = FALSE /\ restarts' = 0 /\ asked' = asked + Len(q)
      /\ env \in Envs
  BY DEF ApplySelected, IInv, TypeOK, PhaseOK
<1>2. RestOK'
  <2>1. asked' \in Nat
    BY <1>1, SelectionType
  <2>2. RestOK
    BY TypeOKParts DEF IInv
  <2> QED BY <1>1, <2>1, <2>2 DEF RestOK
<1>3. outcome' \in [Settings -> Outcomes] /\ \A s \in Settings : outcome'[s] # "applied"
  <2>1. CASE env.testMode
    BY <2>1 DEF ApplySelected, Outcomes
  <2>2. CASE ~env.testMode
    BY <2>2 DEF ApplySelected, NoOutcome, Outcomes
  <2> QED BY <2>1, <2>2
<1>4. AppliedMeansWritten'
  BY <1>3 DEF AppliedMeansWritten, Applied
<1>5. CASE env.testMode
  <2>1. phase' = "post" /\ UNCHANGED <<queue, todo>>
    BY <1>5 DEF ApplySelected
  <2>2. todo' \in Seq(Steps) /\ todo' \in Seq(PostSteps) /\ DOMAIN todo' = {}
    BY <1>1, <2>1
  <2>3. PhaseOK' /\ PinsOwned' /\ PromiseOnTheWay'
    BY <1>1, <2>1, <2>2 DEF PhaseOK, PinsOwned, PromiseOnTheWay
  <2>4. TypeOK'
    BY <1>1, <1>2, <1>3, <2>1, <2>2 DEF TypeOK, RestOK
  <2> QED BY <1>4, <2>3, <2>4 DEF IInv
<1>6. CASE ~env.testMode
  <2>1. phase' = "apply" /\ queue' = q /\ todo' = Plan(q[1])
    BY <1>6 DEF ApplySelected
  <2>2. Current' = q[1] /\ Current' \in Settings /\ queue' \in Seq(Settings) /\ queue' # <<>>
    BY <2>1, SelectionType DEF Current
  <2>3. GoodPlan(Current', todo') /\ todo' = Plan(Current')
    BY <2>1, <2>2, PlanIsGood
  <2>4. PinsOwned'
    BY <2>1, <2>3 DEF PinsOwned, GoodPlan
  <2>5. PromiseOnTheWay'
    BY <2>3, MustsPlanned DEF PromiseOnTheWay, Musts, Writes, Plan
  <2>6. PhaseOK'
    BY <1>1, <1>6, <2>1, <2>2 DEF PhaseOK
  <2>7. TypeOK'
    BY <1>2, <1>3, <2>1, <2>2, <2>3 DEF TypeOK, RestOK, GoodPlan
  <2> QED BY <1>4, <2>4, <2>5, <2>6, <2>7 DEF IInv
<1> QED BY <1>5, <1>6

LEMMA KeepWrites == IInv /\ (WriteDone \/ WriteFails \/ FinishSetting) => IInv'
<1> SUFFICES ASSUME IInv PROVE (WriteDone \/ WriteFails \/ FinishSetting) => IInv'
  OBVIOUS
<1>1. phase = "apply" => Current \in Settings
  BY DEF IInv, TypeOK, PhaseOK, Current
<1>2. CASE WriteDone
  <2>1. PICK e \in WriteSteps :
           /\ InStep(e)
           /\ written' = IF phase = "apply" THEN written \cup {<<Current, e>>} ELSE written
    BY <1>2 DEF WriteDone
  <2>2. /\ GoOn /\ UNCHANGED <<pins, chromePin, explorer, restarts>>
        /\ todo # <<>> /\ phase \in {"apply", "post"} /\ Step = e
        /\ Step # "find_resources"
    BY <1>2, <2>1 DEF WriteDone, InStep, WriteSteps
  <2>3. written \subseteq written' /\ written' \subseteq (Settings \X WriteSteps)
    BY <1>1, <2>1 DEF IInv, TypeOK
  <2>4. phase = "apply" /\ Step \in Musts(Current) => <<Current, Step>> \in written'
    BY <2>1, <2>2
  <2>5. RestOK'
    BY <2>2, <2>3 DEF IInv, TypeOK, RestOK, GoOn, view
  <2>6. Kept
    BY <2>2, <2>3, <2>4, GoOnKeeps
  <2> QED BY <2>5, <2>6, KeptRest
<1>3. CASE WriteFails
  <2>1. PICK e \in WriteSteps : InStep(e) /\ IF e \in BestEffort THEN GoOn ELSE Finish("failed")
    BY <1>3 DEF WriteFails
  <2>2. /\ UNCHANGED pcState /\ todo # <<>> /\ phase \in {"apply", "post"} /\ Step = e
        /\ Step # "find_resources"
    BY <1>3, <2>1 DEF WriteFails, InStep, WriteSteps
  <2>3. RestOK'
    BY <2>1, <2>2 DEF IInv, TypeOK, RestOK, GoOn, Finish, view, pcState
  <2>4. CASE e \in BestEffort
    <3>1. ~(phase = "apply" /\ Step \in Musts(Current))
      BY <1>1, <2>2, <2>4, MustsAreNoBestEffort
    <3>2. GoOn /\ written' = written
      BY <2>1, <2>2, <2>4 DEF pcState
    <3>3. written \subseteq (Settings \X WriteSteps)
      BY DEF IInv, TypeOK
    <3>4. Kept
      BY <2>2, <3>1, <3>2, <3>3, GoOnKeeps
    <3> QED BY <2>3, <3>4, KeptRest
  <2>5. CASE e \notin BestEffort
    <3>1. phase = "apply"
      <4>1. CASE phase = "post"
        <5>1. Step \in PostSteps
          BY <2>2, <4>1 DEF IInv, PhaseOK, Step
        <5> QED BY <2>2, <2>5, <5>1, PostStepsAreSteps
      <4> QED BY <2>2, <4>1
    <3>2. Finish("failed") /\ written' = written
      BY <2>1, <2>2, <2>5 DEF pcState
    <3>3. Kept
      BY <3>1, <3>2, FinishKeeps
    <3> QED BY <2>3, <3>3, KeptRest
  <2> QED BY <2>4, <2>5
<1>4. CASE FinishSetting
  <2>1. Finish("applied") /\ phase = "apply" /\ todo = <<>> /\ UNCHANGED pcState
    BY <1>4 DEF FinishSetting
  <2>2. RestOK'
    BY <2>1 DEF IInv, TypeOK, RestOK, Finish, view, pcState
  <2>3. written' = written
    BY <2>1 DEF pcState
  <2>4. Kept
    BY <2>1, <2>3, FinishKeeps
  <2> QED BY <2>2, <2>4, KeptRest
<1> QED BY <1>2, <1>3, <1>4

\* The steps that are not writes: the taskbar's and the shell's.
ShellOrPins ==
    \/ FindResources \/ ClearPins \/ CopyPins
    \/ PinChrome \/ StopExplorer \/ StartExplorer

\* Each of them goes on or gives the setting up, and writes nothing.
LEMMA ShellOrPinsEffect ==
    ASSUME IInv, ShellOrPins
    PROVE  /\ todo # <<>> /\ phase \in {"apply", "post"} /\ written' = written
           /\ Step \in TaskbarSteps
           /\ \/ GoOn /\ (Step = "find_resources" => env.resources = "ok")
              \/ Finish("failed") /\ Step \in PinSteps \cup {"find_resources"}
           /\ pins' \subseteq (StaticPins \cup ForeignPins)
           /\ chromePin' \in {"none", "valid", "broken"}
           /\ explorer' \in {"running", "stopped", "start_failed"}
           /\ restarts' \in Nat
           /\ <<pins, chromePin>>' # <<pins, chromePin>> => Step \in PinSteps
<1>1. /\ pins \subseteq (StaticPins \cup ForeignPins)
      /\ chromePin \in {"none", "valid", "broken"}
      /\ explorer \in {"running", "stopped", "start_failed"}
      /\ restarts \in Nat
  BY DEF IInv, TypeOK
<1>2. CASE FindResources
  BY <1>1, <1>2 DEF FindResources, InStep, TaskbarSteps, PinSteps, pcState
<1>3. CASE ClearPins
  <2>1. /\ InStep("clear_pins") /\ (GoOn \/ Finish("failed"))
        /\ UNCHANGED <<written, explorer, restarts>>
    BY <1>3 DEF ClearPins
  <2>2. pins' \subseteq pins /\ chromePin' \in {chromePin, "none"}
    BY <1>3 DEF ClearPins
  <2>3. pins' \subseteq (StaticPins \cup ForeignPins) /\ chromePin' \in {"none", "valid", "broken"}
    BY <1>1, <2>2
  <2>4. Step \in PinSteps /\ Step \in TaskbarSteps /\ Step # "find_resources"
    BY <2>1 DEF InStep, TaskbarSteps, PinSteps
  <2> QED BY <1>1, <2>1, <2>3, <2>4 DEF InStep
<1>4. CASE CopyPins
  <2>1. /\ InStep("copy_pins") /\ (GoOn \/ Finish("failed"))
        /\ UNCHANGED <<written, chromePin, explorer, restarts>>
    BY <1>4 DEF CopyPins
  <2>2. pins' \subseteq pins \cup StaticPins
    BY <1>4 DEF CopyPins
  <2>3. pins' \subseteq (StaticPins \cup ForeignPins)
    BY <1>1, <2>2
  <2>4. Step \in PinSteps /\ Step \in TaskbarSteps /\ Step # "find_resources"
    BY <2>1 DEF InStep, TaskbarSteps, PinSteps
  <2> QED BY <1>1, <2>1, <2>3, <2>4 DEF InStep
<1>5. CASE PinChrome
  BY <1>1, <1>5 DEF PinChrome, InStep, TaskbarSteps, PinSteps
<1>6. CASE StopExplorer
  BY <1>1, <1>6 DEF StopExplorer, InStep, TaskbarSteps
<1>7. CASE StartExplorer
  BY <1>1, <1>7 DEF StartExplorer, InStep, TaskbarSteps
<1> QED BY <1>2, <1>3, <1>4, <1>5, <1>6, <1>7 DEF ShellOrPins

LEMMA KeepShellOrPins == IInv /\ ShellOrPins => IInv'
<1> SUFFICES ASSUME IInv, ShellOrPins PROVE IInv'
  OBVIOUS
<1>1. /\ todo # <<>> /\ phase \in {"apply", "post"} /\ written' = written
      /\ written \subseteq (Settings \X WriteSteps)
  BY ShellOrPinsEffect DEF IInv, TypeOK
<1>2. RestOK'
  <2>1. UNCHANGED <<env, asked, view>>
    BY ShellOrPinsEffect DEF GoOn, Finish
  <2>2. RestOK
    BY TypeOKParts DEF IInv
  <2> QED BY <1>1, <2>1, <2>2, ShellOrPinsEffect DEF RestOK, view
<1>3. CASE GoOn /\ (Step = "find_resources" => env.resources = "ok")
  <2>1. phase = "apply" /\ Step \in Musts(Current) => FALSE
    BY ShellOrPinsEffect, MustsPlanned DEF WriteSteps, TaskbarSteps
  <2>2. Kept
    BY <1>1, <1>3, <2>1, GoOnKeeps
  <2> QED BY <1>2, <2>2, KeptRest
<1>4. CASE Finish("failed") /\ Step \in PinSteps \cup {"find_resources"}
  <2>1. phase = "apply"
    <3>1. CASE phase = "post"
      <4>1. Step \in PostSteps
        BY <1>1, <3>1 DEF IInv, PhaseOK, Step
      <4> QED BY <1>4, <4>1 DEF PostSteps, PinSteps
    <3> QED BY <1>1, <3>1
  <2>2. Kept
    BY <1>1, <1>4, <2>1, FinishKeeps
  <2> QED BY <1>2, <2>2, KeptRest
<1> QED BY <1>3, <1>4, ShellOrPinsEffect

LEMMA StepInv == IInv /\ [Next]_vars => IInv'
<1>1. IInv /\ UNCHANGED vars => IInv'
  BY DEF vars, IInv, TypeOK, PhaseOK, PinsOwned, PromiseOnTheWay, AppliedMeansWritten,
     Current, Applied, Promised, Musts, Writes, Plan
<1> QED BY <1>1, KeepIdle, KeepSelect, KeepWrites, KeepShellOrPins
        DEF Next, ShellOrPins

LEMMA Inductive == Spec => []IInv
BY InitInv, StepInv, PTL DEF Spec

-----------------------------------------------------------------------------
(* Theorems *)

\* The state keeps its type, for any settings and any number applied.
THEOREM TypeCorrect == Spec => []TypeOK
BY Inductive, PTL DEF IInv

\* A setting reported as applied has been written in full.
THEOREM AppliedIsWritten == Spec => []AppliedMeansWritten
BY Inductive, PTL DEF IInv

\* No step of an apply touches what was not selected, or takes a write back;
\* test mode changes nothing.
THEOREM NothingElseChanges == Spec => OnlySelectedChange
<1> DEFINE Change ==
      /\ written \subseteq written'
      /\ written' # written =>
           phase = "apply" /\ written' \ written \subseteq {Current} \X WriteSteps
      /\ <<pins, chromePin>>' # <<pins, chromePin>> =>
           /\ phase = "apply" /\ Current = "set_taskbar_icons"
           /\ env.resources = "ok"
      /\ env.testMode => UNCHANGED pcState
<1>1. IInv /\ [Next]_vars => [Change]_vars
  <2> SUFFICES ASSUME IInv, Next PROVE Change
    OBVIOUS
  <2>1. CASE UNCHANGED pcState
    BY <2>1 DEF pcState
  <2>2. CASE WriteDone
    <3>1. ~env.testMode
      BY <2>2 DEF WriteDone, InStep, IInv, PhaseOK
    <3>2. UNCHANGED <<pins, chromePin>>
      BY <2>2 DEF WriteDone
    <3>3. \E e \in WriteSteps :
             written' = IF phase = "apply" THEN written \cup {<<Current, e>>} ELSE written
      BY <2>2 DEF WriteDone
    <3> QED BY <3>1, <3>2, <3>3
  <2>3. CASE ShellOrPins
    <3>1. ~env.testMode /\ written' = written /\ Step = todo[1] /\ 1 \in DOMAIN todo
      BY <2>3, ShellOrPinsEffect, TailOfTodo DEF IInv, PhaseOK, TypeOK
    <3>2. Step \in PinSteps =>
            /\ phase = "apply" /\ Current = "set_taskbar_icons" /\ env.resources = "ok"
      BY <3>1 DEF IInv, PinsOwned, PinSteps
    <3> QED BY <2>3, <3>1, <3>2, ShellOrPinsEffect
  <2>4. CASE \E q \in Selections : ApplySelected(q)
    <3>1. UNCHANGED <<written, pins, chromePin, explorer>> /\ restarts' = 0
      BY <2>4 DEF ApplySelected
    <3>2. env.testMode => restarts = 0
      BY DEF IInv, PhaseOK
    <3> QED BY <3>1, <3>2 DEF pcState
  <2> QED BY <2>1, <2>2, <2>3, <2>4
          DEF Next, ShellOrPins, CheckStatus, ApplyNothing, WriteFails, FinishSetting,
              Recheck, RecheckFails
<1> QED BY <1>1, Inductive, PTL DEF Spec, OnlySelectedChange
=============================================================================
