------------------------- MODULE PcOperationsProofs -------------------------
(***************************************************************************)
(* What TLC checks of PcOperations for two browsers and three PCs, proved  *)
(* for any browsers, any settings, any PC to begin with and any number of  *)
(* operations: the types, the selection, what an applied operation has in  *)
(* force and what a failed one has changed, the key in the clipboard and   *)
(* what the rows tell.                                                     *)
(***************************************************************************)
EXTENDS PcOperations, TLAPS

-----------------------------------------------------------------------------
(* Plans *)

\* Which operation has a step, and as which number.
StepOf(name, k, n) ==
    /\ name \in Timeouts => k = "set_power_never" /\ name = Powercfg[n]
    /\ name \in {"register", "copy", "compare"} => k = "set_auto_shutdown_at_23"
    /\ name = "register" => n = 1
    /\ name = "copy" => n = 2
    /\ name = "compare" => n = 3
    /\ name = "empty" => k = "empty_recycle_bin"
    /\ name \in {"kill", "look", "delete"} => k = "reset_browser"
    /\ name = "kill" => n = 1
    /\ name = "look" => n = 2
    /\ name = "delete" => n = 3
    /\ name \in {"key", "clipboard"} => k \in Activations
    /\ name = "key" => n = 1
    /\ name = "clipboard" => n = 2
    /\ name = "launch" => (k \in Activations /\ n = 3) \/ k = "launch_program"

Lengths(k) ==
    IF k = "set_power_never" THEN 6
    ELSE IF k \in {"empty_recycle_bin", "launch_program"} THEN 1
    ELSE 3

LEMMA PowercfgFacts ==
    /\ Len(Powercfg) = 6
    /\ \A n \in 1..6 : Powercfg[n] \in Timeouts
    /\ Timeouts = FirstTimeouts(6)
<1>1. /\ Len(Powercfg) = 6
      /\ Powercfg[1] = "monitor-ac" /\ Powercfg[2] = "monitor-dc"
      /\ Powercfg[3] = "standby-ac" /\ Powercfg[4] = "standby-dc"
      /\ Powercfg[5] = "hibernate-ac" /\ Powercfg[6] = "hibernate-dc"
  BY DEF Powercfg
<1>2. \A n \in 1..6 : n \in {1, 2, 3, 4, 5, 6}
  OBVIOUS
<1>3. \A n \in 1..6 : Powercfg[n] \in Timeouts
  BY <1>1, <1>2 DEF Timeouts
<1>4. \A t \in Timeouts : t \in FirstTimeouts(6)
  BY <1>1 DEF Timeouts, FirstTimeouts
<1>5. Timeouts = FirstTimeouts(6)
  BY <1>3, <1>4 DEF FirstTimeouts
<1> QED BY <1>1, <1>3, <1>5

LEMMA PlanFacts ==
    ASSUME NEW k \in Kinds
    PROVE  /\ Len(Plan[k]) = Lengths(k)
           /\ \A n \in 1..Lengths(k) : StepOf(Plan[k][n], k, n)
<1>1. CASE k = "set_power_never"
  <2>1. Plan[k] = Powercfg /\ Lengths(k) = 6
    BY <1>1 DEF Plan, Lengths, Kinds
  <2>2. ASSUME NEW n \in 1..6 PROVE StepOf(Powercfg[n], k, n)
    <3>1. Powercfg[n] \in Timeouts
      BY PowercfgFacts
    <3> QED BY <3>1, <1>1 DEF StepOf, Timeouts
  <2> QED BY <2>1, <2>2, PowercfgFacts
<1>2. CASE k = "set_auto_shutdown_at_23"
  <2> DEFINE p == <<"register", "copy", "compare">>
  <2>1. Plan[k] = p /\ Lengths(k) = 3
    BY <1>2 DEF Plan, Lengths, Kinds
  <2>2. Len(p) = 3 /\ p[1] = "register" /\ p[2] = "copy" /\ p[3] = "compare"
    OBVIOUS
  <2> HIDE DEF p
  <2> QED BY <2>1, <2>2, <1>2 DEF StepOf, Timeouts
<1>3. CASE k = "empty_recycle_bin"
  <2> DEFINE p == <<"empty">>
  <2>1. Plan[k] = p /\ Lengths(k) = 1
    BY <1>3 DEF Plan, Lengths, Kinds
  <2>2. Len(p) = 1 /\ p[1] = "empty"
    OBVIOUS
  <2> HIDE DEF p
  <2> QED BY <2>1, <2>2, <1>3 DEF StepOf, Timeouts
<1>4. CASE k = "reset_browser"
  <2> DEFINE p == <<"kill", "look", "delete">>
  <2>1. Plan[k] = p /\ Lengths(k) = 3
    BY <1>4 DEF Plan, Lengths, Kinds
  <2>2. Len(p) = 3 /\ p[1] = "kill" /\ p[2] = "look" /\ p[3] = "delete"
    OBVIOUS
  <2> HIDE DEF p
  <2> QED BY <2>1, <2>2, <1>4 DEF StepOf, Timeouts
<1>5. CASE k \in Activations
  <2> DEFINE p == <<"key", "clipboard", "launch">>
  <2>1. Plan[k] = p /\ Lengths(k) = 3
    BY <1>5 DEF Plan, Lengths, Kinds, Activations
  <2>2. Len(p) = 3 /\ p[1] = "key" /\ p[2] = "clipboard" /\ p[3] = "launch"
    OBVIOUS
  <2> HIDE DEF p
  <2> QED BY <2>1, <2>2, <1>5 DEF StepOf, Timeouts, Activations
<1>6. CASE k = "launch_program"
  <2> DEFINE p == <<"launch">>
  <2>1. Plan[k] = p /\ Lengths(k) = 1
    BY <1>6 DEF Plan, Lengths, Kinds, Activations
  <2>2. Len(p) = 1 /\ p[1] = "launch"
    OBVIOUS
  <2> HIDE DEF p
  <2> QED BY <2>1, <2>2, <1>6 DEF StepOf, Timeouts
<1> QED BY <1>1, <1>2, <1>3, <1>4, <1>5, <1>6 DEF Kinds, Maintenance, Activations

-----------------------------------------------------------------------------
(* The PC *)

LEMMA PcFacts ==
    ASSUME NEW p \in Pcs
    PROVE  /\ \A t \in Timeouts : [p EXCEPT !.never = @ \cup {t}] \in Pcs
           /\ \A t \in {"absent", "right", "wrong"} : [p EXCEPT !.task = t] \in Pcs
           /\ \A s \in {"absent", "same", "other"} : [p EXCEPT !.shortcut = s] \in Pcs
           /\ \A b \in {"empty", "items"} : [p EXCEPT !.bin = b] \in Pcs
           /\ \A b \in Browsers, d \in {"absent", "small", "history"} :
                  [p EXCEPT !.data[b] = d] \in Pcs
<1> USE DEF Pcs
<1>1. \A t \in Timeouts : [p EXCEPT !.never = @ \cup {t}] \in Pcs
  OBVIOUS
<1>2. \A t \in {"absent", "right", "wrong"} : [p EXCEPT !.task = t] \in Pcs
  OBVIOUS
<1>3. \A s \in {"absent", "same", "other"} : [p EXCEPT !.shortcut = s] \in Pcs
  OBVIOUS
<1>4. \A b \in {"empty", "items"} : [p EXCEPT !.bin = b] \in Pcs
  OBVIOUS
<1>5. \A b \in Browsers, d \in {"absent", "small", "history"} :
        [p EXCEPT !.data[b] = d] \in Pcs
  OBVIOUS
<1> QED BY <1>1, <1>2, <1>3, <1>4, <1>5

\* The other changes of a PC.
LEMMA ChangedPcs ==
    ASSUME NEW p \in Pcs
    PROVE  /\ [p EXCEPT !.never = @ \ {"monitor-ac", "standby-dc"}] \in Pcs
           /\ [p EXCEPT !.data = [b \in Browsers |-> "history"]] \in Pcs
           /\ [p EXCEPT !.office = "2024"] \in Pcs
<1> USE DEF Pcs
<1>1. [p EXCEPT !.never = @ \ {"monitor-ac", "standby-dc"}] \in Pcs
  OBVIOUS
<1>2. [p EXCEPT !.data = [b \in Browsers |-> "history"]] \in Pcs
  OBVIOUS
<1>3. [p EXCEPT !.office = "2024"] \in Pcs
  OBVIOUS
<1> QED BY <1>1, <1>2, <1>3

-----------------------------------------------------------------------------
(* Readings *)

\* A text about a check that RowsTellTruth allows; told is whether a query of
\* the shutdown task answered.
Truthful(text, c, p, told) ==
    /\ text \in Texts
    /\ text \in OkTexts => Fine(c, p)
    /\ text \in WarningTexts =>
          ~Fine(c, p) \/ text = "no source" \/ (text = "no task" /\ ~told)
    /\ c = "auto_shutdown_schedule" =>
          /\ text = "no task" /\ told => p.task = "absent"
          /\ text = "wrong task" => p.task = "wrong"

LEMMA PowerTextTrue ==
    ASSUME NEW p \in Pcs, NEW combined \in BOOLEAN, NEW answered \in SUBSET AcTimeouts
    PROVE  Truthful(PowerText(p, combined, answered), "power_settings", p, TRUE)
<1> DEFINE readings == PowerSeen(p, combined, answered)
<1>1. CASE DOMAIN readings # AcTimeouts
  <2>1. PowerText(p, combined, answered) = "unreadable"
    BY <1>1 DEF PowerText, IsNever
  <2> QED BY <2>1 DEF Truthful, Texts, OkTexts, UnknownTexts, WarningTexts
<1>2. CASE DOMAIN readings = AcTimeouts
  <2>1. \A t \in AcTimeouts : readings[t] <=> t \in p.never
    BY <1>2 DEF PowerSeen
  <2>2. (\A t \in AcTimeouts : readings[t]) <=> AcTimeouts \subseteq p.never
    BY <2>1
  <2>3. "power_settings" \notin Browsers
    BY PcAssumption
  <2>4. Fine("power_settings", p) <=> AcTimeouts \subseteq p.never
    BY <2>3 DEF Fine
  <2> HIDE DEF readings
  <2>5. CASE AcTimeouts \subseteq p.never
    <3>1. PowerText(p, combined, answered) = "never"
      BY <1>2, <2>2, <2>5 DEF PowerText, IsNever, readings
    <3> QED BY <3>1, <2>4, <2>5 DEF Truthful, Texts, OkTexts, UnknownTexts, WarningTexts
  <2>6. CASE ~(AcTimeouts \subseteq p.never)
    <3>1. PowerText(p, combined, answered) = "timeouts set"
      BY <1>2, <2>2, <2>6 DEF PowerText, IsNever, readings
    <3> QED BY <3>1, <2>4, <2>6 DEF Truthful, Texts, OkTexts, UnknownTexts, WarningTexts
  <2> QED BY <2>5, <2>6
<1> QED BY <1>1, <1>2

LEMMA ShutdownTextTrue ==
    ASSUME NEW p \in Pcs,
           NEW s \in {"answers", "not found", "fails"},
           NEW w \in {"answers", "not found", "silent", "garbled"},
           NEW r \in {"readable", "raises", "no source", "unreadable"}
    PROVE  Truthful(ShutdownText(p, s, w, r), "auto_shutdown_schedule", p, TaskAnswered(s, w))
<1>1. /\ TaskSeen(p, s, w) \in {p.task, "absent", "error"}
      /\ TaskAnswered(s, w) => TaskSeen(p, s, w) = p.task
  BY DEF TaskSeen, TaskAnswered
<1>2. p.task \in {"absent", "right", "wrong"} /\ p.shortcut \in {"absent", "same", "other"}
  BY DEF Pcs
<1>3. "auto_shutdown_schedule" \notin Browsers
  BY PcAssumption
<1>4. Fine("auto_shutdown_schedule", p) <=> p.task = "right" /\ p.shortcut = "same"
  BY <1>3 DEF Fine
<1>5. CASE TaskSeen(p, s, w) = "right"
  <2>1. p.task = "right"
    BY <1>1, <1>5
  <2>2. ShutdownText(p, s, w, r) = ShortcutText(p, r)
    BY <1>5 DEF ShutdownText
  <2>3. /\ ShortcutText(p, r) \in {"raised", "no source", "no shortcut",
                                   "shortcut unknown", "scheduled", "other shortcut"}
        /\ ShortcutText(p, r) = "scheduled" => p.shortcut = "same"
        /\ ShortcutText(p, r) \in {"no shortcut", "other shortcut"} => p.shortcut # "same"
    BY <1>2 DEF ShortcutText
  <2> QED BY <2>1, <2>2, <2>3, <1>4 DEF Truthful, Texts, OkTexts, UnknownTexts, WarningTexts
<1>6. CASE TaskSeen(p, s, w) # "right"
  <2>1. /\ ShutdownText(p, s, w, r) \in {"task unknown", "no task", "wrong task"}
        /\ ShutdownText(p, s, w, r) = "wrong task" => p.task = "wrong"
        /\ ShutdownText(p, s, w, r) = "no task" /\ TaskAnswered(s, w) => p.task = "absent"
    BY <1>1, <1>2, <1>6 DEF ShutdownText
  <2> QED BY <2>1, <1>4 DEF Truthful, Texts, OkTexts, UnknownTexts, WarningTexts
<1> QED BY <1>5, <1>6

LEMMA BinTextTrue ==
    ASSUME NEW p \in Pcs, NEW answers \in BOOLEAN
    PROVE  Truthful(BinText(p, answers), "recycle_bin", p, TRUE)
<1>1. p.bin \in {"empty", "items"} /\ "recycle_bin" \notin Browsers
  BY PcAssumption DEF Pcs
<1>2. Fine("recycle_bin", p) <=> p.bin = "empty"
  BY <1>1 DEF Fine
<1> QED BY <1>1, <1>2 DEF BinText, Truthful, Texts, OkTexts, UnknownTexts, WarningTexts

LEMMA BrowserTextTrue ==
    ASSUME NEW p \in Pcs, NEW b \in Browsers
    PROVE  Truthful(BrowserText(p, b), b, p, TRUE)
<1>1. p.data[b] \in {"absent", "small", "history"}
  BY DEF Pcs
<1>2. Fine(b, p) <=> p.data[b] # "history"
  BY PcAssumption DEF Fine
<1> QED BY <1>1, <1>2 DEF BrowserText, Truthful, Texts, OkTexts, UnknownTexts, WarningTexts

LEMMA HealthyTrue ==
    ASSUME NEW p \in Pcs
    PROVE  /\ Healthy(p) \in [Checks -> Texts]
           /\ \A c \in Checks : Truthful(Healthy(p)[c], c, p, TRUE)
<1>1. ASSUME NEW c \in Checks PROVE Truthful(Healthy(p)[c], c, p, TRUE)
  <2>1. CASE c = "power_settings"
    <3>1. Healthy(p)[c] = PowerText(p, TRUE, {})
      BY <2>1 DEF Healthy
    <3> QED BY <3>1, <2>1, PowerTextTrue
  <2>2. CASE c = "auto_shutdown_schedule"
    <3>1. Healthy(p)[c] = ShutdownText(p, "answers", "answers", "readable")
      BY <2>2 DEF Healthy
    <3>2. TaskAnswered("answers", "answers") = TRUE
      BY DEF TaskAnswered
    <3>3. Truthful(ShutdownText(p, "answers", "answers", "readable"),
                   "auto_shutdown_schedule", p, TaskAnswered("answers", "answers"))
      BY ShutdownTextTrue
    <3> QED BY <3>1, <3>2, <3>3, <2>2
  <2>3. CASE c = "recycle_bin"
    <3>1. Healthy(p)[c] = BinText(p, TRUE)
      BY <2>3 DEF Healthy
    <3> QED BY <3>1, <2>3, BinTextTrue
  <2>4. CASE c \notin {"power_settings", "auto_shutdown_schedule", "recycle_bin"}
    <3>1. Healthy(p)[c] = BrowserText(p, c) /\ c \in Browsers
      BY <2>4 DEF Healthy, Checks
    <3> QED BY <3>1, BrowserTextTrue
  <2> QED BY <2>1, <2>2, <2>3, <2>4
<1>2. Healthy(p) = [c \in Checks |-> Healthy(p)[c]]
  BY DEF Healthy
<1>3. \A c \in Checks : Healthy(p)[c] \in Texts
  BY <1>1 DEF Truthful
<1> QED BY <1>1, <1>2, <1>3

LEMMA ReadingsTrue ==
    ASSUME NEW p \in Pcs, NEW r \in Readings(p)
    PROVE  /\ r.texts \in [Checks -> Texts]
           /\ r.answered \in BOOLEAN
           /\ \A c \in Checks : Truthful(r.texts[c], c, p, r.answered)
<1> DEFINE h == Healthy(p)
<1>1. h \in [Checks -> Texts] /\ \A c \in Checks : Truthful(h[c], c, p, TRUE)
  BY HealthyTrue
<1> HIDE DEF h
<1>2. ASSUME NEW x \in Checks, NEW t, NEW told \in BOOLEAN, Truthful(t, x, p, told),
             told \/ x = "auto_shutdown_schedule", r = Reading([h EXCEPT ![x] = t], told)
      PROVE  /\ r.texts \in [Checks -> Texts]
             /\ r.answered \in BOOLEAN
             /\ \A c \in Checks : Truthful(r.texts[c], c, p, r.answered)
  <2>1. t \in Texts
    BY <1>2 DEF Truthful
  <2>2. r.texts = [h EXCEPT ![x] = t] /\ r.answered = told
    BY <1>2 DEF Reading
  <2>3. \A c \in Checks : r.texts[c] = IF c = x THEN t ELSE h[c]
    BY <1>1, <2>2
  <2>4. ASSUME NEW c \in Checks PROVE Truthful(r.texts[c], c, p, r.answered)
    <3>1. CASE c = x
      BY <1>2, <2>2, <2>3, <3>1
    <3>2. CASE c # x
      <4>1. Truthful(h[c], c, p, TRUE) /\ r.texts[c] = h[c]
        BY <1>1, <2>3, <3>2
      <4>2. h[c] = "no task" => ~told \/ ~Fine(c, p)
        BY <4>1 DEF Truthful, WarningTexts
      <4>3. c = "auto_shutdown_schedule" => told
        BY <1>2, <3>2
      <4> QED BY <2>2, <4>1, <4>2, <4>3 DEF Truthful
    <3> QED BY <3>1, <3>2
  <2> QED BY <1>1, <1>2, <2>1, <2>2, <2>4
<1>3. /\ "power_settings" \in Checks /\ "auto_shutdown_schedule" \in Checks
      /\ "recycle_bin" \in Checks
  BY DEF Checks
<1>4. \/ r = Reading(h, TRUE)
      \/ \E a \in SUBSET AcTimeouts :
            r = Reading([h EXCEPT !["power_settings"] = PowerText(p, FALSE, a)], TRUE)
      \/ \E s \in {"not found", "fails"}, w \in PowerShellAnswers :
            r = TaskReading(p, s, w)
      \/ \E k \in {"raises", "no source", "unreadable"} :
            r = Reading([h EXCEPT !["auto_shutdown_schedule"] =
                             ShutdownText(p, "answers", "answers", k)], TRUE)
      \/ r = Reading([h EXCEPT !["recycle_bin"] = BinText(p, FALSE)], TRUE)
  <2>1. \/ r = Reading(h, TRUE) \/ r \in FaultyTask(p) \/ r \in FaultyShortcut(p)
        \/ \E a \in SUBSET AcTimeouts :
              r = Reading([h EXCEPT !["power_settings"] = PowerText(p, FALSE, a)], TRUE)
        \/ r = Reading([h EXCEPT !["recycle_bin"] = BinText(p, FALSE)], TRUE)
    BY Zenon DEF Readings, h
  <2>2. r \in FaultyTask(p) =>
          \E s \in {"not found", "fails"}, w \in PowerShellAnswers : r = TaskReading(p, s, w)
    BY DEF FaultyTask
  <2>3. r \in FaultyShortcut(p) =>
          \E k \in {"raises", "no source", "unreadable"} :
            r = Reading([h EXCEPT !["auto_shutdown_schedule"] =
                             ShutdownText(p, "answers", "answers", k)], TRUE)
    BY Zenon DEF FaultyShortcut, h
  <2> QED BY <2>1, <2>2, <2>3
<1>5. CASE r = Reading(h, TRUE)
  BY <1>1, <1>5 DEF Reading
<1>6. CASE \E a \in SUBSET AcTimeouts :
               r = Reading([h EXCEPT !["power_settings"] = PowerText(p, FALSE, a)], TRUE)
  <2> PICK a \in SUBSET AcTimeouts :
          r = Reading([h EXCEPT !["power_settings"] = PowerText(p, FALSE, a)], TRUE)
    BY <1>6
  <2>1. Truthful(PowerText(p, FALSE, a), "power_settings", p, TRUE)
    BY PowerTextTrue
  <2> QED BY <1>2, <1>3, <2>1
<1>7. CASE \E s \in {"not found", "fails"}, w \in PowerShellAnswers :
               r = TaskReading(p, s, w)
  <2> PICK s \in {"not found", "fails"}, w \in PowerShellAnswers :
          r = TaskReading(p, s, w)
    BY <1>7
  <2>1. Truthful(ShutdownText(p, s, w, "readable"), "auto_shutdown_schedule", p,
                 TaskAnswered(s, w))
    BY ShutdownTextTrue DEF PowerShellAnswers
  <2>2. TaskAnswered(s, w) \in BOOLEAN
    BY DEF TaskAnswered
  <2>3. r = Reading([h EXCEPT !["auto_shutdown_schedule"] =
                         ShutdownText(p, s, w, "readable")], TaskAnswered(s, w))
    BY Zenon DEF TaskReading, h
  <2> QED BY <1>2, <1>3, <2>1, <2>2, <2>3
<1>8. CASE \E k \in {"raises", "no source", "unreadable"} :
               r = Reading([h EXCEPT !["auto_shutdown_schedule"] =
                                ShutdownText(p, "answers", "answers", k)], TRUE)
  <2> PICK k \in {"raises", "no source", "unreadable"} :
          r = Reading([h EXCEPT !["auto_shutdown_schedule"] =
                           ShutdownText(p, "answers", "answers", k)], TRUE)
    BY <1>8
  <2>1. Truthful(ShutdownText(p, "answers", "answers", k), "auto_shutdown_schedule", p,
                 TaskAnswered("answers", "answers"))
    BY ShutdownTextTrue
  <2>2. TaskAnswered("answers", "answers") = TRUE
    BY DEF TaskAnswered
  <2> QED BY <1>2, <1>3, <2>1, <2>2
<1>9. CASE r = Reading([h EXCEPT !["recycle_bin"] = BinText(p, FALSE)], TRUE)
  <2>1. Truthful(BinText(p, FALSE), "recycle_bin", p, TRUE)
    BY BinTextTrue
  <2> QED BY <1>2, <1>3, <1>9, <2>1
<1> QED BY <1>4, <1>5, <1>6, <1>7, <1>8, <1>9

-----------------------------------------------------------------------------
(* Types *)

\* What the types of the steps rest on: an operation's target fits its kind,
\* and the number of the step its plan; only maintenance shows a result.
JobOK ==
    /\ job.kind = "reset_browser" => job.target \in Browsers
    /\ phase = "steps" => /\ ~testMode
                          /\ result = [status |-> "none", copied |-> FALSE]
                          /\ step <= Lengths(job.kind)
    /\ phase = "result" => /\ job.kind \in Maintenance
                           /\ result.status # "none"

\* A step that goes on to the next.
Going == step' = step + 1 /\ step < Lengths(job.kind) /\ UNCHANGED <<phase, result>>

LEMMA StepIs ==
    ASSUME TypeOK, JobOK, NEW name, At(name)
    PROVE  /\ phase = "steps" /\ job \in Jobs /\ job.kind \in Kinds
           /\ step \in 1..Lengths(job.kind) /\ Lengths(job.kind) \in 1..6
           /\ StepOf(name, job.kind, step)
<1>1. job \in Jobs /\ job.kind \in Kinds /\ step \in 1..6
  BY DEF TypeOK, Jobs
<1>2. phase = "steps" /\ step <= Lengths(job.kind) /\ Plan[job.kind][step] = name
  BY DEF At, JobOK
<1>3. Lengths(job.kind) \in 1..6
  BY DEF Lengths
<1>4. step \in 1..Lengths(job.kind)
  BY <1>1, <1>2, <1>3
<1>5. StepOf(Plan[job.kind][step], job.kind, step)
  BY <1>1, <1>4, PlanFacts
<1> QED BY <1>1, <1>2, <1>3, <1>4, <1>5

LEMMA AdvanceIs ==
    ASSUME TypeOK, Advance
    PROVE  \/ Going
           \/ step >= Lengths(job.kind) /\ Finish("applied", job.kind \in Activations)
<1>1. job.kind \in Kinds /\ step \in 1..6
  BY DEF TypeOK, Jobs
<1>2. Len(Plan[job.kind]) = Lengths(job.kind) /\ Lengths(job.kind) \in 1..6
  BY <1>1, PlanFacts DEF Lengths
<1> QED BY <1>1, <1>2 DEF Advance, Going

\* A step that goes on or ends keeps the types.
LEMMA StepTypes ==
    ASSUME TypeOK, JobOK, phase = "steps", Unmoved,
           pc' \in Pcs, key' \in Keys \cup {NoKey}, clipboard' \in Clipboards,
           \/ Advance
           \/ \E s \in {"applied", "failed"}, c \in BOOLEAN : Finish(s, c)
    PROVE  TypeOK' /\ JobOK'
<1>1. \/ Going
      \/ \E s \in {"applied", "failed"}, c \in BOOLEAN : Finish(s, c)
  <2>1. (job.kind \in Activations) \in BOOLEAN
    OBVIOUS
  <2> QED BY <2>1, AdvanceIs
<1>2. job \in Jobs /\ job.kind \in Kinds /\ step \in 1..6 /\ Lengths(job.kind) \in 1..6
  BY DEF TypeOK, Jobs, Lengths
<1>3. job' = job /\ testMode' = testMode
  BY DEF Unmoved, environment
<1>4. CASE Going
  <2>1. step' \in 1..6 /\ phase' = phase /\ result' = result /\ step' <= Lengths(job.kind)
    BY <1>2, <1>4 DEF Going
  <2>2. TypeOK'
    BY <2>1 DEF TypeOK, Unmoved, environment, display
  <2>3. JobOK'
    BY <2>1, <1>3 DEF JobOK
  <2> QED BY <2>2, <2>3
<1>5. ASSUME NEW s \in {"applied", "failed"}, NEW c \in BOOLEAN, Finish(s, c)
      PROVE  TypeOK' /\ JobOK'
  <2>1. /\ step' = step /\ result' = [status |-> s, copied |-> c]
        /\ phase' = After(job)
    BY <1>5 DEF Finish
  <2>2. result' \in Results /\ result'.status # "none" /\ phase' \in {"idle", "result"}
        /\ (phase' = "result" => job.kind \in Maintenance)
    BY <2>1 DEF Results, After
  <2>3. TypeOK'
    BY <2>1, <2>2 DEF TypeOK, Unmoved, environment, display
  <2>4. JobOK'
    BY <2>1, <2>2, <1>3 DEF JobOK
  <2> QED BY <2>3, <2>4
<1> QED BY <1>1, <1>4, <1>5

LEMMA TargetIs ==
    ASSUME TypeOK, JobOK
    PROVE  job.kind = "reset_browser" =>
               /\ job.target \in Browsers
               /\ pc.data[job.target] \in {"absent", "small", "history"}
BY DEF TypeOK, JobOK, Pcs

LEMMA MaintenanceTypes ==
    ASSUME TypeOK, JobOK, MaintenanceStep
    PROVE  TypeOK' /\ JobOK'
<1>0. pc \in Pcs /\ key \in Keys \cup {NoKey} /\ clipboard \in Clipboards
  BY DEF TypeOK
<1> USE PcFacts
<1>1. CASE PowerCommand
  <2>1. PICK t \in Timeouts :
            /\ At(t)
            /\ \/ pc' = [pc EXCEPT !.never = @ \cup {t}] /\ Advance
               \/ UNCHANGED pc /\ Finish("failed", FALSE)
            /\ NoKeyUsed /\ Unmoved
    BY <1>1 DEF PowerCommand
  <2>2. pc' \in Pcs /\ phase = "steps"
    BY <1>0, <2>1 DEF At
  <2> QED BY <1>0, <2>1, <2>2, StepTypes DEF NoKeyUsed
<1>2. CASE Register
  <2>1. pc' \in Pcs /\ phase = "steps"
    BY <1>0, <1>2 DEF Register, At
  <2> QED BY <1>0, <1>2, <2>1, StepTypes DEF Register, NoKeyUsed
<1>3. CASE CopyShortcut
  <2>1. pc' \in Pcs /\ phase = "steps"
    BY <1>0, <1>3 DEF CopyShortcut, At
  <2> QED BY <1>0, <1>3, <2>1, StepTypes DEF CopyShortcut, NoKeyUsed
<1>4. CASE CompareShortcut
  BY <1>0, <1>4, StepTypes DEF CompareShortcut, NoKeyUsed, At
<1>5. CASE EmptyRecycleBin
  <2>1. pc' \in Pcs /\ phase = "steps"
    BY <1>0, <1>5 DEF EmptyRecycleBin, At
  <2> QED BY <1>0, <1>5, <2>1, StepTypes DEF EmptyRecycleBin, NoKeyUsed
<1>6. CASE KillBrowser
  BY <1>0, <1>6, StepTypes DEF KillBrowser, NoKeyUsed, At
<1>7. CASE BrowserReturns
  <2>1. job.kind = "reset_browser"
    <3>1. PICK name \in {"look", "delete"} : At(name)
      BY <1>7 DEF BrowserReturns
    <3> QED BY <3>1, StepIs DEF StepOf
  <2>2. pc' \in Pcs
    BY <1>0, <1>7, <2>1, TargetIs DEF BrowserReturns
  <2>3. TypeOK'
    BY <1>0, <1>7, <2>2 DEF TypeOK, BrowserReturns, NoKeyUsed, Unmoved, environment, display
  <2>4. JobOK'
    BY <1>7 DEF JobOK, BrowserReturns, NoKeyUsed, Unmoved, environment, display
  <2> QED BY <2>3, <2>4
<1>8. CASE LookForData
  BY <1>0, <1>8, StepTypes DEF LookForData, NoKeyUsed, At
<1>9. CASE DeleteData
  <2>1. At("delete") /\ phase = "steps" /\ job.kind = "reset_browser"
    BY <1>9, StepIs DEF DeleteData, StepOf
  <2>2. Smaller(pc.data[job.target]) \subseteq {"absent", "small", "history"}
    BY <2>1, TargetIs DEF Smaller
  <2>3. job.target \in Browsers
    BY <2>1, TargetIs
  <2>4. PICK d \in {"absent", "small", "history"} : pc' = [pc EXCEPT !.data[job.target] = d]
    BY <1>9, <2>2 DEF DeleteData
  <2>5. [pc EXCEPT !.data[job.target] = d] \in Pcs
    BY ONLY PcFacts, <1>0, <2>3
  <2>6. pc' \in Pcs
    BY ONLY <2>4, <2>5
  <2> QED BY <1>0, <1>9, <2>1, <2>6, StepTypes DEF DeleteData, NoKeyUsed
<1> QED BY <1>1, <1>2, <1>3, <1>4, <1>5, <1>6, <1>7, <1>8, <1>9 DEF MaintenanceStep

\* The key of a choice, or none.
LEMMA FirstKeyIs ==
    ASSUME NEW product \in {"windows", "office"}, NEW version,
           NEW configured \in SUBSET Keys
    PROVE  LET k == FirstKey(product, version, configured)
           IN  k = NoKey \/ (k \in Keys /\ k.product = product /\ k.version \in {version, "any"})
BY DEF FirstKey

LEMMA ActivationTypes ==
    ASSUME TypeOK, JobOK, ActivationStep
    PROVE  TypeOK' /\ JobOK'
<1>0. pc \in Pcs /\ key \in Keys \cup {NoKey} /\ clipboard \in Clipboards
  BY DEF TypeOK
<1>1. CASE ReadKey
  <2>1. PICK configured \in SUBSET {k \in Keys : k.product = Product(job.kind)} :
            key' = FirstKey(Product(job.kind), job.target, configured)
    BY <1>1 DEF ReadKey
  <2>2. Product(job.kind) \in {"windows", "office"} /\ configured \in SUBSET Keys
    BY DEF Product
  <2>3. key' \in Keys \cup {NoKey}
    BY <2>1, <2>2, FirstKeyIs
  <2>4. phase = "steps" /\ (Advance \/ Finish("failed", FALSE))
    BY <1>1 DEF ReadKey, At
  <2> QED BY <1>0, <1>1, <2>3, <2>4, StepTypes DEF ReadKey
<1>2. CASE SetClipboard
  <2>1. phase = "steps" /\ key \in Keys \cup {NoKey}
    BY <1>0, <1>2 DEF SetClipboard, At
  <2>2. NoKey \in Clipboards /\ Keys \subseteq Clipboards
        /\ [product |-> "none", version |-> "emptied"] \in Clipboards
    BY DEF Clipboards, NoKey
  <2>3. clipboard' \in Clipboards
    BY <1>0, <1>2, <2>2 DEF SetClipboard
  <2> QED BY <1>0, <1>2, <2>1, <2>3, StepTypes DEF SetClipboard
<1>3. CASE LaunchActivation
  BY <1>0, <1>3, StepTypes DEF LaunchActivation, NoKeyUsed, At
<1>4. CASE LaunchExcel
  BY <1>0, <1>4, StepTypes DEF LaunchExcel, NoKeyUsed, At
<1>5. CASE LaunchProgram
  BY <1>0, <1>5, StepTypes DEF LaunchProgram, NoKeyUsed, At
<1> QED BY <1>1, <1>2, <1>3, <1>4, <1>5 DEF ActivationStep, LaunchStep

-----------------------------------------------------------------------------
(* Types of what comes between operations *)

\* A selection that TypeOK and SelectionAgrees allow.
GoodSelection(s) ==
    /\ s \in Selections
    /\ s.windows = s.chosenWindows /\ s.office = s.chosenOffice
    /\ s.windows = "windows_10" => s.checked \cap Win11Settings = {}

LEMMA OfferedFits ==
    ASSUME NEW w \in WindowsVersions, NEW c \in SUBSET (CommonSettings \cup Win11Settings)
    PROVE  /\ Offered(w, c) \in SUBSET (CommonSettings \cup Win11Settings)
           /\ w = "windows_10" => Offered(w, c) \cap Win11Settings = {}
BY DEF Offered, WindowsVersions

LEMMA WithWindowsGood ==
    ASSUME NEW s, GoodSelection(s), NEW text \in {"unknown"} \cup WindowsVersions
    PROVE  GoodSelection(WithWindows(s, text))
<1> DEFINE d == DetectedWindows(text)
           r == [s EXCEPT !.windowsText = text, !.windows = d, !.chosenWindows = d,
                          !.checked = Offered(d, s.checked)]
<1>1. d \in WindowsVersions
  BY DEF DetectedWindows, WindowsVersions
<1>2. s.checked \in SUBSET (CommonSettings \cup Win11Settings)
  BY DEF GoodSelection, Selections
<1>3. /\ Offered(d, s.checked) \in SUBSET (CommonSettings \cup Win11Settings)
      /\ d = "windows_10" => Offered(d, s.checked) \cap Win11Settings = {}
  BY <1>1, <1>2, OfferedFits
<1> HIDE DEF d
<1>4. r \in Selections
  BY <1>1, <1>3 DEF GoodSelection, Selections
<1>5. r.windows = r.chosenWindows /\ r.office = r.chosenOffice /\ r.windows = d
      /\ r.checked = Offered(d, s.checked)
  BY DEF GoodSelection, Selections
<1>6. GoodSelection(r)
  BY <1>3, <1>4, <1>5 DEF GoodSelection
<1>7. WithWindows(s, text) \in {s, r}
  BY DEF WithWindows, d
<1> QED BY <1>6, <1>7

LEMMA WithOfficeGood ==
    ASSUME NEW s, GoodSelection(s), NEW text \in {"none", "2021", "2024", "other"}
    PROVE  GoodSelection(WithOffice(s, text))
<1> DEFINE d == DetectedOffice(text)
           r == [s EXCEPT !.officeText = text, !.office = d, !.chosenOffice = d]
<1>1. d \in OfficeVersions
  BY DEF DetectedOffice, OfficeVersions
<1> HIDE DEF d
<1>2. r \in Selections
  BY <1>1 DEF GoodSelection, Selections
<1>3. /\ r.windows = s.windows /\ r.chosenWindows = s.chosenWindows
      /\ r.office = r.chosenOffice /\ r.checked = s.checked
  BY DEF GoodSelection, Selections
<1>4. GoodSelection(r)
  BY <1>2, <1>3 DEF GoodSelection
<1>5. WithOffice(s, text) \in {s, r}
  BY DEF WithOffice, d
<1> QED BY <1>4, <1>5

\* Clicks and detections, Begin, Refresh and what others change.
LEMMA SelectTypes ==
    ASSUME TypeOK, JobOK, SelectionAgrees, Select
    PROVE  TypeOK' /\ JobOK' /\ SelectionAgrees'
<1>0. GoodSelection(sel) /\ sel.checked \in SUBSET (CommonSettings \cup Win11Settings)
  BY DEF TypeOK, SelectionAgrees, GoodSelection, Selections
<1>1. ASSUME NEW s, Selecting(s), GoodSelection(s)
      PROVE  TypeOK' /\ JobOK' /\ SelectionAgrees'
  <2>1. sel' = s /\ events' \in Nat
    BY <1>1 DEF Selecting, Another, TypeOK
  <2>2. sel' \in Selections /\ SelectionAgrees'
    BY <1>1, <2>1 DEF GoodSelection, SelectionAgrees
  <2>3. TypeOK'
    BY <1>1, <2>1, <2>2 DEF TypeOK, Selecting, environment, display
  <2>4. JobOK'
    BY <1>1 DEF JobOK, Selecting, environment, display
  <2> QED BY <2>2, <2>3, <2>4
<1>2. CASE DetectWindows
  BY <1>0, <1>1, <1>2, WithWindowsGood DEF DetectWindows
<1>3. CASE ClickWindows
  <2>1. PICK w \in WindowsVersions :
            Selecting([sel EXCEPT !.windows = w, !.chosenWindows = w,
                                  !.checked = Offered(w, @)])
    BY <1>3 DEF ClickWindows
  <2> DEFINE s == [sel EXCEPT !.windows = w, !.chosenWindows = w,
                              !.checked = Offered(w, sel.checked)]
  <2>2. /\ Offered(w, sel.checked) \in SUBSET (CommonSettings \cup Win11Settings)
        /\ w = "windows_10" => Offered(w, sel.checked) \cap Win11Settings = {}
    BY <1>0, OfferedFits
  <2>3. GoodSelection(s)
    BY <1>0, <2>2 DEF GoodSelection, Selections
  <2> QED BY <1>1, <2>1, <2>3
<1>4. CASE ClickOffice
  <2>1. PICK o \in OfficeVersions :
            Selecting([sel EXCEPT !.office = o, !.chosenOffice = o])
    BY <1>4 DEF ClickOffice
  <2>2. GoodSelection([sel EXCEPT !.office = o, !.chosenOffice = o])
    BY <1>0 DEF GoodSelection, Selections
  <2> QED BY <1>1, <2>1, <2>2
<1>5. ASSUME NEW c \in SUBSET (sel.checked \cup Enabled),
             Selecting([sel EXCEPT !.checked = c])
      PROVE  TypeOK' /\ JobOK' /\ SelectionAgrees'
  <2>1. c \in SUBSET (CommonSettings \cup Win11Settings)
    BY <1>0 DEF Enabled
  <2>2. sel.windows = "windows_10" => c \cap Win11Settings = {}
    BY <1>0, PcAssumption DEF Enabled, GoodSelection
  <2>3. GoodSelection([sel EXCEPT !.checked = c])
    BY <1>0, <2>1, <2>2 DEF GoodSelection, Selections
  <2> QED BY <1>1, <1>5, <2>3
<1>6. CASE ClickSetting
  <2>1. PICK s \in Enabled :
            Selecting([sel EXCEPT !.checked = IF s \in @ THEN @ \ {s} ELSE @ \cup {s}])
    BY <1>6 DEF ClickSetting
  <2> DEFINE c == IF s \in sel.checked THEN sel.checked \ {s} ELSE sel.checked \cup {s}
  <2>2. c \in SUBSET (sel.checked \cup Enabled)
    OBVIOUS
  <2>3. Selecting([sel EXCEPT !.checked = c])
    BY <2>1
  <2> QED BY <1>5, <2>2, <2>3
<1>7. CASE SelectAll
  <2>1. Selecting([sel EXCEPT !.checked = sel.checked \cup Enabled])
    BY <1>7 DEF SelectAll
  <2> QED BY <1>5, <2>1
<1>8. CASE DeselectAll
  <2>1. Selecting([sel EXCEPT !.checked = {}])
    BY <1>8 DEF DeselectAll
  <2> QED BY <1>5, <2>1
<1> QED BY <1>2, <1>3, <1>4, <1>6, <1>7, <1>8 DEF Select

LEMMA BeginTypes ==
    ASSUME TypeOK, JobOK, Begin
    PROVE  TypeOK' /\ JobOK'
<1>1. PICK j \in Requests :
          /\ phase = "idle"
          /\ Another
          /\ job' = j
          /\ before' = [pc |-> pc, clipboard |-> clipboard]
          /\ key' = NoKey
          /\ IF testMode
             THEN /\ result' = [status |-> "skipped", copied |-> FALSE]
                  /\ phase' = After(j)
             ELSE /\ result' = [status |-> "none", copied |-> FALSE]
                  /\ phase' = "steps"
          /\ step' = 1
          /\ UNCHANGED <<pc, environment, clipboard, display, sel>>
  BY DEF Begin
<1>2. sel.windows \in WindowsVersions /\ sel.office \in OfficeVersions
  BY DEF TypeOK, Selections
<1>3. /\ j \in Jobs
      /\ j.kind = "reset_browser" => j.target \in Browsers
  BY <1>2 DEF Requests, Jobs, Kinds, Maintenance, Activations, Targets
<1>4. result' \in Results /\ phase' \in {"idle", "steps", "result"} /\ events' \in Nat
  <2>1. events' \in Nat
    BY <1>1 DEF Another, TypeOK
  <2>2. After(j) \in {"idle", "result"}
    BY DEF After
  <2>3. /\ [status |-> "skipped", copied |-> FALSE] \in Results
        /\ [status |-> "none", copied |-> FALSE] \in Results
    BY DEF Results
  <2> QED BY <1>1, <2>1, <2>2, <2>3
<1>5. before' \in [pc : Pcs, clipboard : Clipboards]
  BY <1>1 DEF TypeOK
<1>6. TypeOK'
  BY <1>1, <1>3, <1>4, <1>5 DEF TypeOK, environment, display
<1>7. 1 <= Lengths(j.kind)
  BY DEF Lengths
<1>8. JobOK'
  BY <1>1, <1>3, <1>7 DEF JobOK, After, environment
<1> QED BY <1>6, <1>8

LEMMA RefreshTypes ==
    ASSUME TypeOK, JobOK, SelectionAgrees, Refresh
    PROVE  TypeOK' /\ JobOK' /\ SelectionAgrees'
<1>1. PICK r \in Readings(pc) :
          /\ rows' = r.texts
          /\ cards' = [power |-> rows'["power_settings"],
                       shutdown |-> IF rows'["auto_shutdown_schedule"] = "raised"
                                    THEN cards.shutdown
                                    ELSE rows'["auto_shutdown_schedule"]]
          /\ queried' = r.answered
  BY DEF Refresh
<1>2. pc \in Pcs /\ pc.office \in {"none", "2021", "2024", "other"}
      /\ cards \in [power : Texts, shutdown : Texts]
  BY DEF TypeOK, Pcs
<1>3. r.texts \in [Checks -> Texts] /\ r.answered \in BOOLEAN
  BY <1>2, ReadingsTrue
<1>4. cards' \in [power : Texts, shutdown : Texts]
  BY <1>1, <1>2, <1>3 DEF Checks
<1>5. GoodSelection(sel)
  BY DEF TypeOK, SelectionAgrees, GoodSelection
<1>6. GoodSelection(sel')
  BY <1>2, <1>5, WithOfficeGood DEF Refresh
<1>7. sel' \in Selections /\ SelectionAgrees'
  BY <1>6 DEF GoodSelection, SelectionAgrees
<1>8. events' \in Nat /\ phase' = "idle" /\ seen' = pc
  BY DEF Refresh, Another, TypeOK
<1>9. TypeOK'
  BY <1>1, <1>2, <1>3, <1>4, <1>7, <1>8 DEF TypeOK, Refresh, environment
<1>10. JobOK'
  BY <1>8 DEF JobOK, Refresh, environment
<1> QED BY <1>7, <1>9, <1>10

LEMMA ChangeTypes ==
    ASSUME TypeOK, JobOK, PcChanges
    PROVE  TypeOK' /\ JobOK'
<1>1. pc \in Pcs
  BY DEF TypeOK
<1>2. pc' \in Pcs
  BY <1>1, PcFacts, ChangedPcs DEF PcChanges
<1>3. TypeOK'
  BY <1>2 DEF TypeOK, PcChanges, Another, environment, display
<1>4. JobOK'
  BY DEF JobOK, PcChanges, environment
<1> QED BY <1>3, <1>4

LEMMA InitTypes == Init => TypeOK /\ JobOK /\ SelectionAgrees
<1> SUFFICES ASSUME Init PROVE TypeOK /\ JobOK /\ SelectionAgrees
  OBVIOUS
<1>1. pc \in Pcs /\ seen \in Pcs /\ clipboard \in Clipboards
      /\ before \in [pc : Pcs, clipboard : Clipboards]
  BY PcAssumption DEF Init, Clipboards, NoKey
<1>2. job \in Jobs /\ result \in Results /\ key \in Keys \cup {NoKey}
      /\ step \in 1..6 /\ events \in Nat
  BY DEF Init, Jobs, NoJob, Kinds, Targets, Results
<1>3. /\ rows \in [Checks -> Texts] /\ cards \in [power : Texts, shutdown : Texts]
  BY DEF Init, Texts, UnknownTexts
<1>4. sel \in Selections /\ SelectionAgrees
  BY DEF Init, Selections, SelectionAgrees, WindowsVersions, OfficeVersions
<1>5. TypeOK
  BY <1>1, <1>2, <1>3, <1>4 DEF TypeOK, Init
<1>6. JobOK
  BY DEF JobOK, Init, NoJob
<1> QED BY <1>4, <1>5, <1>6

\* The inductive invariant behind the types and the selection.
Sound == TypeOK /\ JobOK /\ SelectionAgrees

LEMMA SoundStep == Sound /\ [Next]_vars => Sound'
<1> SUFFICES ASSUME TypeOK, JobOK, SelectionAgrees, [Next]_vars PROVE Sound'
  BY DEF Sound
<1>1. CASE Begin
  <2>1. SelectionAgrees'
    BY <1>1 DEF Begin, SelectionAgrees
  <2> QED BY <1>1, <2>1, BeginTypes DEF Sound
<1>2. CASE MaintenanceStep
  <2>1. sel' = sel
    BY <1>2 DEF MaintenanceStep, PowerCommand, Register, CopyShortcut, CompareShortcut,
                EmptyRecycleBin, KillBrowser, BrowserReturns, LookForData, DeleteData, Unmoved
  <2>2. SelectionAgrees'
    BY <2>1 DEF SelectionAgrees
  <2> QED BY <1>2, <2>2, MaintenanceTypes DEF Sound
<1>3. CASE ActivationStep
  <2>1. sel' = sel
    BY <1>3 DEF ActivationStep, LaunchStep, ReadKey, SetClipboard, LaunchActivation,
                LaunchExcel, LaunchProgram, Unmoved
  <2>2. SelectionAgrees'
    BY <2>1 DEF SelectionAgrees
  <2> QED BY <1>3, <2>2, ActivationTypes DEF Sound
<1>4. CASE Refresh
  BY <1>4, RefreshTypes DEF Sound
<1>5. CASE Select
  BY <1>5, SelectTypes DEF Sound
<1>6. CASE PcChanges
  <2>1. SelectionAgrees'
    BY <1>6 DEF PcChanges, SelectionAgrees
  <2> QED BY <1>6, <2>1, ChangeTypes DEF Sound
<1>7. CASE UNCHANGED vars
  <2>1. TypeOK'
    BY <1>7 DEF TypeOK, vars, environment, display
  <2>2. JobOK' /\ SelectionAgrees'
    BY <1>7 DEF JobOK, SelectionAgrees, vars, environment, display
  <2> QED BY <2>1, <2>2 DEF Sound
<1> QED BY <1>1, <1>2, <1>3, <1>4, <1>5, <1>6, <1>7 DEF Next

\* Type correctness, for any browsers, settings and PCs: every operation,
\* reading and click stays within the states the module describes.
THEOREM TypeCorrect == Spec => []TypeOK
<1>1. Init => Sound
  BY InitTypes DEF Sound
<1>2. Sound => TypeOK
  BY DEF Sound
<1> QED BY <1>1, <1>2, SoundStep, PTL DEF Spec

\* The radio buttons and the versions an activation uses agree, and nothing
\* for Windows 11 only stays selected with Windows 10, in every order of
\* clicks, detections, refreshes and operations.
THEOREM SelectionStaysInAgreement == Spec => []SelectionAgrees
<1>1. Init => Sound
  BY InitTypes DEF Sound
<1>2. Sound => SelectionAgrees
  BY DEF Sound
<1> QED BY <1>1, <1>2, SoundStep, PTL DEF Spec

-----------------------------------------------------------------------------
(* Rows *)

\* RowsTellTruth needs to know where the cards come from: a card that does not
\* say what its row says is kept from before because the check raised.
CardsAreRows ==
    /\ cards.power = rows["power_settings"]
    /\ rows["auto_shutdown_schedule"] # "raised"
          => cards.shutdown = rows["auto_shutdown_schedule"]

RowsTrue == \A c \in Checks : Truthful(rows[c], c, seen, queried)

LEMMA RowsImply == TypeOK /\ RowsTrue /\ CardsAreRows => RowsTellTruth
<1> SUFFICES ASSUME TypeOK, RowsTrue, CardsAreRows PROVE RowsTellTruth
  OBVIOUS
<1>1. ASSUME NEW c \in Checks
      PROVE  /\ rows[c] \in OkTexts => Fine(c, seen)
             /\ rows[c] \in WarningTexts =>
                    \/ ~Fine(c, seen)
                    \/ rows[c] = "no source"
                    \/ (rows[c] = "no task" /\ ~queried)
  BY DEF RowsTrue, Truthful
<1>2. ASSUME ClassroomFine, rows["auto_shutdown_schedule"] # "raised"
      PROVE  \A c \in {"power_settings", "auto_shutdown_schedule"} : Fine(c, seen)
  <2>1. ASSUME NEW text, PolicyStatus(text) = "normal" PROVE text \in OkTexts
    BY <2>1 DEF PolicyStatus, OkTexts
  <2>2. \A c \in {"power_settings", "auto_shutdown_schedule"} :
            c \in Checks /\ rows[c] \in OkTexts
    BY <1>2, <2>1 DEF ClassroomFine, CardsAreRows, Checks
  <2> QED BY <1>1, <2>2
<1>3. /\ rows["auto_shutdown_schedule"] = "no task" /\ queried => seen.task = "absent"
      /\ rows["auto_shutdown_schedule"] = "wrong task" => seen.task = "wrong"
  BY DEF RowsTrue, Truthful, Checks
<1> QED BY <1>1, <1>2, <1>3 DEF RowsTellTruth

LEMMA RowsStep == Sound /\ RowsTrue /\ CardsAreRows /\ [Next]_vars
                      => RowsTrue' /\ CardsAreRows'
<1> SUFFICES ASSUME TypeOK, RowsTrue, CardsAreRows, [Next]_vars
             PROVE  RowsTrue' /\ CardsAreRows'
  BY DEF Sound
<1>1. CASE Refresh
  <2>1. PICK r \in Readings(pc) :
            /\ rows' = r.texts
            /\ cards' = [power |-> rows'["power_settings"],
                         shutdown |-> IF rows'["auto_shutdown_schedule"] = "raised"
                                      THEN cards.shutdown
                                      ELSE rows'["auto_shutdown_schedule"]]
            /\ queried' = r.answered
    BY <1>1 DEF Refresh
  <2>2. \A c \in Checks : Truthful(r.texts[c], c, pc, r.answered)
    BY ReadingsTrue DEF TypeOK
  <2>3. RowsTrue'
    BY <1>1, <2>1, <2>2 DEF RowsTrue, Refresh
  <2>4. CardsAreRows'
    BY <2>1 DEF CardsAreRows
  <2> QED BY <2>3, <2>4
<1>2. ASSUME UNCHANGED display PROVE RowsTrue' /\ CardsAreRows'
  BY <1>2 DEF RowsTrue, CardsAreRows, display
<1>3. CASE Begin
  BY <1>2, <1>3 DEF Begin
<1>4. CASE MaintenanceStep
  <2>1. UNCHANGED display
    BY <1>4 DEF MaintenanceStep, PowerCommand, Register, CopyShortcut, CompareShortcut,
                EmptyRecycleBin, KillBrowser, BrowserReturns, LookForData, DeleteData, Unmoved
  <2> QED BY <1>2, <2>1
<1>5. CASE ActivationStep
  <2>1. UNCHANGED display
    BY <1>5 DEF ActivationStep, LaunchStep, ReadKey, SetClipboard, LaunchActivation,
                LaunchExcel, LaunchProgram, Unmoved
  <2> QED BY <1>2, <2>1
<1>6. CASE Select
  <2>1. \A s : Selecting(s) => UNCHANGED display
    BY DEF Selecting
  <2>2. UNCHANGED display
    BY <1>6, <2>1 DEF Select, DetectWindows, ClickWindows, ClickOffice, ClickSetting,
                      SelectAll, DeselectAll
  <2> QED BY <1>2, <2>2
<1>7. CASE PcChanges
  BY <1>2, <1>7 DEF PcChanges
<1>8. CASE UNCHANGED vars
  BY <1>2, <1>8 DEF vars, display
<1> QED BY <1>1, <1>3, <1>4, <1>5, <1>6, <1>7, <1>8 DEF Next

\* No row and no card of the page is better than the PC the last refresh read,
\* whatever command of the readings failed, and none warns without a reason but
\* the row of the shutdown task when no query of it answered.
THEOREM RowsStayTrue == Spec => []RowsTellTruth
<1>1. Init => Sound /\ RowsTrue /\ CardsAreRows
  <2> SUFFICES ASSUME Init PROVE RowsTrue /\ CardsAreRows
    BY InitTypes DEF Sound
  <2>1. \A c \in Checks : rows[c] = "unread"
    BY DEF Init
  <2>2. RowsTrue
    BY <2>1 DEF RowsTrue, Truthful, Texts, OkTexts, UnknownTexts, WarningTexts
  <2>3. CardsAreRows
    BY DEF Init, CardsAreRows, Checks
  <2> QED BY <2>2, <2>3
<1>2. Sound /\ RowsTrue /\ CardsAreRows => RowsTellTruth
  BY RowsImply DEF Sound
<1> QED BY <1>1, <1>2, SoundStep, RowsStep, PTL DEF Spec

-----------------------------------------------------------------------------
(* The key *)

Emptied == [product |-> "none", version |-> "emptied"]

\* Step by step, where the key is that an activation speaks of.
KeySoFar ==
    job.kind \in Activations =>
        /\ phase = "steps" =>
              /\ step >= 2 => /\ key.product = Product(job.kind)
                              /\ key.version \in {job.target, "any"}
              /\ step <= 2 => clipboard = before.clipboard
              /\ step = 3 => clipboard = key
        /\ phase = "idle" =>
              IF result.copied
              THEN clipboard.product = Product(job.kind)
                   /\ clipboard.version \in {job.target, "any"}
              ELSE clipboard \in {before.clipboard, Emptied}

LEMMA KeyImplies == KeySoFar => KeyIsOfChoice
BY DEF KeySoFar, KeyIsOfChoice, Emptied

LEMMA ActivationEnds ==
    ASSUME job.kind \in Activations, NEW s, NEW c, Finish(s, c)
    PROVE  phase' = "idle" /\ result'.copied = c /\ step' = step
BY DEF Finish, After, Activations, Maintenance

LEMMA ReadKeyKeeps ==
    ASSUME TypeOK, JobOK, KeySoFar, ReadKey
    PROVE  KeySoFar'
<1>1. job.kind \in Activations /\ step = 1 /\ phase = "steps" /\ Lengths(job.kind) \in 1..6
  BY StepIs DEF ReadKey, StepOf
<1>2. PICK configured \in SUBSET {k \in Keys : k.product = Product(job.kind)} :
          key' = FirstKey(Product(job.kind), job.target, configured)
  BY DEF ReadKey
<1>3. Product(job.kind) \in {"windows", "office"} /\ configured \in SUBSET Keys
  BY DEF Product
<1>4. key' # NoKey => /\ key'.product = Product(job.kind)
                      /\ key'.version \in {job.target, "any"}
  BY <1>2, <1>3, FirstKeyIs
<1>5. job' = job /\ before' = before /\ clipboard' = clipboard
      /\ clipboard = before.clipboard
  BY <1>1 DEF ReadKey, Unmoved, KeySoFar
<1>6. CASE key' = NoKey
  <2>1. phase' = "idle" /\ result'.copied = FALSE
    BY <1>1, <1>6, ActivationEnds DEF ReadKey
  <2> QED BY <1>5, <2>1 DEF KeySoFar
<1>7. CASE key' # NoKey
  <2>1. Advance /\ Lengths(job.kind) = 3
    BY <1>1, <1>7 DEF ReadKey, Lengths, Activations
  <2>2. Going
    BY <1>1, <2>1, AdvanceIs
  <2>3. step' = 2 /\ phase' = "steps"
    BY <1>1, <2>2 DEF Going
  <2> QED BY <1>4, <1>5, <1>7, <2>3 DEF KeySoFar
<1> QED BY <1>6, <1>7

LEMMA SetClipboardKeeps ==
    ASSUME TypeOK, JobOK, KeySoFar, SetClipboard
    PROVE  KeySoFar'
<1>1. job.kind \in Activations /\ step = 2 /\ phase = "steps"
  BY StepIs DEF SetClipboard, StepOf
<1>2. /\ job' = job /\ before' = before /\ key' = key /\ clipboard = before.clipboard
      /\ key.product = Product(job.kind) /\ key.version \in {job.target, "any"}
  BY <1>1 DEF SetClipboard, Unmoved, KeySoFar
<1>3. CASE clipboard' = key /\ Advance
  <2>1. Lengths(job.kind) = 3
    BY <1>1 DEF Lengths, Activations
  <2>2. Going
    BY <1>1, <1>3, <2>1, AdvanceIs
  <2>3. step' = 3 /\ phase' = "steps"
    BY <1>1, <2>2 DEF Going
  <2> QED BY <1>2, <1>3, <2>3 DEF KeySoFar
<1>4. CASE clipboard' \in {clipboard, Emptied} /\ Finish("failed", FALSE)
  <2>1. phase' = "idle" /\ result'.copied = FALSE
    BY <1>1, <1>4, ActivationEnds
  <2> QED BY <1>2, <1>4, <2>1 DEF KeySoFar
<1> QED BY <1>3, <1>4 DEF SetClipboard, Emptied

LEMMA LaunchKeeps ==
    ASSUME TypeOK, JobOK, KeySoFar, LaunchStep
    PROVE  KeySoFar'
<1>1. At("launch") /\ job' = job /\ before' = before /\ key' = key /\ clipboard' = clipboard
  BY DEF LaunchStep, LaunchActivation, LaunchExcel, LaunchProgram, NoKeyUsed, Unmoved
<1>2. CASE job.kind \notin Activations
  BY <1>1, <1>2 DEF KeySoFar
<1>3. CASE job.kind \in Activations
  <2>1. step = 3 /\ phase = "steps" /\ job.kind # "launch_program" /\ Lengths(job.kind) = 3
    BY <1>1, <1>3, StepIs DEF StepOf, Activations, Lengths
  <2>2. /\ clipboard.product = Product(job.kind)
        /\ clipboard.version \in {job.target, "any"}
    BY <1>3, <2>1 DEF KeySoFar
  <2>3. Advance \/ Finish("failed", TRUE)
    BY <2>1 DEF LaunchStep, LaunchActivation, LaunchExcel, LaunchProgram
  <2>4. \E s, c : Finish(s, c) /\ c = TRUE
    <3>1. CASE Advance
      <4>1. Finish("applied", job.kind \in Activations)
        BY <2>1, <3>1, AdvanceIs DEF Going
      <4> QED BY <1>3, <4>1
    <3>2. CASE Finish("failed", TRUE)
      BY <3>2
    <3> QED BY <2>3, <3>1, <3>2
  <2>5. phase' = "idle" /\ result'.copied = TRUE
    BY <1>3, <2>4, ActivationEnds
  <2> QED BY <1>1, <2>2, <2>5 DEF KeySoFar
<1> QED BY <1>2, <1>3

LEMMA KeyStep == Sound /\ KeySoFar /\ [Next]_vars => KeySoFar'
<1> SUFFICES ASSUME TypeOK, JobOK, KeySoFar, [Next]_vars PROVE KeySoFar'
  BY DEF Sound
<1>1. CASE Begin
  <2>1. PICK j \in Requests :
            /\ job' = j
            /\ before' = [pc |-> pc, clipboard |-> clipboard]
            /\ IF testMode
               THEN /\ result' = [status |-> "skipped", copied |-> FALSE]
                    /\ phase' = After(j)
               ELSE /\ result' = [status |-> "none", copied |-> FALSE]
                    /\ phase' = "steps"
            /\ step' = 1
            /\ clipboard' = clipboard
    BY <1>1 DEF Begin
  <2>2. before'.clipboard = clipboard' /\ result'.copied = FALSE
    BY <2>1
  <2> QED BY <2>1, <2>2 DEF KeySoFar
<1>2. CASE MaintenanceStep
  <2>1. job.kind \in Maintenance
    <3>1. PICK name \in Timeouts \cup {"register", "copy", "compare", "empty", "kill",
                                       "look", "delete"} : At(name)
      BY <1>2 DEF MaintenanceStep, PowerCommand, Register, CopyShortcut, CompareShortcut,
                  EmptyRecycleBin, KillBrowser, BrowserReturns, LookForData, DeleteData
    <3> QED BY <3>1, StepIs DEF StepOf, Maintenance
  <2>2. job' = job
    BY <1>2 DEF MaintenanceStep, PowerCommand, Register, CopyShortcut, CompareShortcut,
                EmptyRecycleBin, KillBrowser, BrowserReturns, LookForData, DeleteData, Unmoved
  <2> QED BY <2>1, <2>2 DEF KeySoFar, Maintenance, Activations
<1>3. CASE ActivationStep
  BY <1>3, ReadKeyKeeps, SetClipboardKeeps, LaunchKeeps DEF ActivationStep
<1>4. CASE Refresh
  <2>1. /\ job.kind \in Activations => phase = "idle"
        /\ phase' = "idle" /\ UNCHANGED <<job, before, result, clipboard>>
    BY <1>4 DEF Refresh, JobOK, Maintenance, Activations
  <2> QED BY <2>1 DEF KeySoFar
<1>5. CASE Select
  <2>1. \A s : Selecting(s) => UNCHANGED <<phase, job, step, key, result, clipboard, before>>
    BY DEF Selecting
  <2>2. UNCHANGED <<phase, job, step, key, result, clipboard, before>>
    BY <1>5, <2>1 DEF Select, DetectWindows, ClickWindows, ClickOffice, ClickSetting,
                      SelectAll, DeselectAll
  <2> QED BY <2>2 DEF KeySoFar
<1>6. CASE PcChanges
  BY <1>6 DEF PcChanges, KeySoFar
<1>7. CASE UNCHANGED vars
  BY <1>7 DEF vars, KeySoFar
<1> QED BY <1>1, <1>2, <1>3, <1>4, <1>5, <1>6, <1>7 DEF Next

\* After an activation the clipboard holds a key of the chosen version, or the
\* one without a version, whenever the message says so, and otherwise none that
\* it has put there; for any keys configured and any step that fails.
THEOREM KeyStaysOfChoice == Spec => []KeyIsOfChoice
<1>1. Init => Sound /\ KeySoFar
  <2>1. Init => KeySoFar
    BY DEF Init, KeySoFar, NoJob, Activations
  <2> QED BY <2>1, InitTypes DEF Sound
<1> QED BY <1>1, SoundStep, KeyStep, KeyImplies, PTL DEF Spec

-----------------------------------------------------------------------------
(* What an operation has done so far *)

Running == phase # "idle" /\ result.status # "skipped"

PowerSoFar ==
    Running /\ job.kind = "set_power_never" =>
        \E n \in 0..6 :
            /\ pc = [before.pc EXCEPT !.never = @ \cup FirstTimeouts(n)]
            /\ phase = "steps" => n = step - 1
            /\ result.status = "applied" => n = 6

ShutdownSoFar ==
    Running /\ job.kind = "set_auto_shutdown_at_23" =>
        /\ pc = [before.pc EXCEPT !.task = pc.task, !.shortcut = pc.shortcut]
        /\ pc.task \in {before.pc.task, "right"}
        /\ pc.shortcut # before.pc.shortcut => pc.task = "right"
        /\ phase = "steps" /\ step >= 2 => pc.task = "right"
        /\ result.status = "applied" => pc.task = "right" /\ pc.shortcut = "same"

BinSoFar ==
    Running /\ job.kind = "empty_recycle_bin" =>
        /\ pc = [before.pc EXCEPT !.bin = pc.bin]
        /\ result.status = "applied" => pc.bin = "empty"

ResetSoFar ==
    Running /\ job.kind = "reset_browser" =>
        /\ \E d \in {"absent", "small", "history"} :
              pc = [before.pc EXCEPT !.data[job.target] = d]
        /\ result.status = "applied" => pc.data[job.target] = "absent" \/ ~appData

NothingSoFar ==
    phase # "idle" /\ (result.status = "skipped"
                       \/ job.kind \in Activations \cup {"launch_program"})
        => pc = before.pc

\* The inductive invariant behind AppliedIsInForce and FailureIsPrefix.
SoFar == PowerSoFar /\ ShutdownSoFar /\ BinSoFar /\ ResetSoFar /\ NothingSoFar

LEMMA SoFarApplied == Sound /\ SoFar => AppliedIsInForce
<1> SUFFICES ASSUME Sound, SoFar, phase = "result", result.status = "applied"
             PROVE  InForce(job, pc) \/ (job.kind = "reset_browser" /\ ~appData)
  BY DEF AppliedIsInForce
<1>1. job.kind \in Maintenance /\ Running /\ before.pc \in Pcs
  BY DEF Sound, JobOK, Running, TypeOK
<1>2. CASE job.kind = "set_power_never"
  <2>1. pc = [before.pc EXCEPT !.never = @ \cup FirstTimeouts(6)]
    BY <1>1, <1>2 DEF SoFar, PowerSoFar
  <2>2. before.pc.never \subseteq Timeouts
    BY <1>1 DEF Pcs
  <2>3. pc.never = before.pc.never \cup Timeouts
    BY <1>1, <2>1, PowercfgFacts DEF Pcs
  <2>4. pc.never = Timeouts
    BY <2>2, <2>3
  <2> QED BY <1>2, <2>4 DEF InForce
<1>3. CASE job.kind = "set_auto_shutdown_at_23"
  BY <1>1, <1>3 DEF SoFar, ShutdownSoFar, InForce
<1>4. CASE job.kind = "empty_recycle_bin"
  BY <1>1, <1>4 DEF SoFar, BinSoFar, InForce
<1>5. CASE job.kind = "reset_browser"
  BY <1>1, <1>5 DEF SoFar, ResetSoFar, InForce
<1> QED BY <1>1, <1>2, <1>3, <1>4, <1>5 DEF Maintenance

LEMMA SoFarPrefix == Sound /\ SoFar => FailureIsPrefix
<1> SUFFICES ASSUME Sound, SoFar, phase \in {"steps", "result"}
             PROVE  FailureIsPrefix
  BY DEF FailureIsPrefix
<1>1. CASE result.status = "skipped"
  BY <1>1 DEF SoFar, NothingSoFar, FailureIsPrefix
<1>2. CASE result.status # "skipped"
  <2>1. Running
    BY <1>2 DEF Running
  <2>2. job.kind = "set_power_never" =>
            \E n \in 0..6 : pc = [before.pc EXCEPT !.never = @ \cup FirstTimeouts(n)]
    BY <2>1 DEF SoFar, PowerSoFar
  <2>3. job.kind = "set_auto_shutdown_at_23" =>
            /\ pc = [before.pc EXCEPT !.task = pc.task, !.shortcut = pc.shortcut]
            /\ pc.task \in {before.pc.task, "right"}
            /\ pc.shortcut # before.pc.shortcut => pc.task = "right"
    BY <2>1 DEF SoFar, ShutdownSoFar
  <2>4. job.kind = "empty_recycle_bin" => pc = [before.pc EXCEPT !.bin = pc.bin]
    BY <2>1 DEF SoFar, BinSoFar
  <2>5. job.kind = "reset_browser" =>
            \E d \in {"absent", "small", "history"} :
                pc = [before.pc EXCEPT !.data[job.target] = d]
    BY <2>1 DEF SoFar, ResetSoFar
  <2>6. job.kind \in {"none", "launch_program"} \cup Activations => pc = before.pc
    <3>1. job.kind \in {"launch_program"} \cup Activations => pc = before.pc
      BY DEF SoFar, NothingSoFar
    <3>2. job.kind # "none"
      BY DEF Sound, TypeOK, Jobs, Kinds, Maintenance, Activations
    <3> QED BY <3>1, <3>2
  <2> QED BY <1>2, <2>2, <2>3, <2>4, <2>5, <2>6 DEF FailureIsPrefix
<1> QED BY <1>1, <1>2

\* A step of one operation leaves what is said of the others alone.
LEMMA OthersSoFar ==
    ASSUME job' = job
    PROVE  /\ job.kind # "set_power_never" => PowerSoFar'
           /\ job.kind # "set_auto_shutdown_at_23" => ShutdownSoFar'
           /\ job.kind # "empty_recycle_bin" => BinSoFar'
           /\ job.kind # "reset_browser" => ResetSoFar'
BY DEF PowerSoFar, ShutdownSoFar, BinSoFar, ResetSoFar

\* Of a maintenance operation under way NothingSoFar says nothing.
LEMMA NothingOfMaintenance ==
    ASSUME job.kind \in Maintenance, job' = job, result'.status # "skipped"
    PROVE  NothingSoFar'
BY DEF NothingSoFar, Maintenance, Activations

LEMMA StepResult ==
    ASSUME TypeOK, JobOK, phase = "steps",
           Advance \/ \E c : Finish("failed", c)
    PROVE  /\ result'.status \in {"none", "applied", "failed"}
           /\ Running /\ result.status = "none"
           /\ phase' = "steps" => Going
           /\ result'.status = "applied" => ~Going /\ step >= Lengths(job.kind)
<1>1. result.status = "none" /\ Running
  BY DEF JobOK, Running
<1>2. CASE Going
  BY <1>1, <1>2 DEF Going
<1>3. CASE step >= Lengths(job.kind) /\ Finish("applied", job.kind \in Activations)
  <2>1. result'.status = "applied" /\ phase' # "steps" /\ step' = step
    BY <1>3 DEF Finish, After
  <2>2. step \in 1..6
    BY DEF TypeOK
  <2> QED BY <1>1, <1>3, <2>1, <2>2 DEF Going
<1>4. CASE \E c : Finish("failed", c)
  <2>1. result'.status = "failed" /\ phase' # "steps"
    BY <1>4 DEF Finish, After
  <2> QED BY <1>1, <2>1
<1> QED BY <1>2, <1>3, <1>4, AdvanceIs

LEMMA PowerKeeps == ASSUME TypeOK, JobOK, SoFar, PowerCommand PROVE SoFar'
<1>1. PICK t \in Timeouts :
          /\ At(t)
          /\ \/ pc' = [pc EXCEPT !.never = @ \cup {t}] /\ Advance
             \/ UNCHANGED pc /\ Finish("failed", FALSE)
          /\ NoKeyUsed /\ Unmoved
  BY DEF PowerCommand
<1>2. /\ phase = "steps" /\ job.kind = "set_power_never" /\ t = Powercfg[step]
      /\ step \in 1..6 /\ Lengths(job.kind) = 6
  BY <1>1, StepIs DEF StepOf, Lengths
<1>3. job' = job /\ before' = before
  BY <1>1 DEF Unmoved
<1>4. /\ result'.status \in {"none", "applied", "failed"} /\ Running
      /\ phase' = "steps" => Going
      /\ result'.status = "applied" => ~Going /\ step >= 6
  BY <1>1, <1>2, StepResult
<1>5. pc = [before.pc EXCEPT !.never = @ \cup FirstTimeouts(step - 1)]
  BY <1>2, <1>4 DEF SoFar, PowerSoFar
<1>6. CASE pc' = [pc EXCEPT !.never = @ \cup {t}] /\ Advance
  <2>1. FirstTimeouts(step) = FirstTimeouts(step - 1) \cup {t}
    BY <1>2 DEF FirstTimeouts
  <2>2. pc' = [before.pc EXCEPT !.never = @ \cup FirstTimeouts(step)]
    <3>1. before.pc \in Pcs
      BY DEF TypeOK
    <3>2. before.pc.never \cup FirstTimeouts(step)
          = (before.pc.never \cup FirstTimeouts(step - 1)) \cup {t}
      BY <2>1
    <3> QED BY <1>5, <1>6, <3>1, <3>2 DEF Pcs
  <2>3. /\ phase' = "steps" => step = step' - 1
        /\ result'.status = "applied" => step = 6
    BY <1>2, <1>4 DEF Going
  <2>4. PowerSoFar'
    <3>1. step \in 0..6
      BY <1>2
    <3>2. \E n \in 0..6 :
              /\ pc' = [before'.pc EXCEPT !.never = @ \cup FirstTimeouts(n)]
              /\ phase' = "steps" => n = step' - 1
              /\ result'.status = "applied" => n = 6
      BY ONLY <1>3, <2>2, <2>3, <3>1
    <3> QED BY ONLY <3>2 DEF PowerSoFar, FirstTimeouts
  <2> QED BY <1>2, <1>3, <1>4, <2>4, OthersSoFar, NothingOfMaintenance DEF SoFar, Maintenance
<1>7. CASE UNCHANGED pc /\ Finish("failed", FALSE)
  <2>1. phase' # "steps" /\ result'.status = "failed"
    BY <1>7 DEF Finish, After
  <2>2. step - 1 \in 0..6
    BY <1>2
  <2>3. PowerSoFar'
    BY <1>3, <1>5, <1>7, <2>1, <2>2 DEF PowerSoFar
  <2> QED BY <1>2, <1>3, <1>4, <2>3, OthersSoFar, NothingOfMaintenance DEF SoFar, Maintenance
<1> QED BY <1>1, <1>6, <1>7

LEMMA ShutdownKeeps ==
    ASSUME TypeOK, JobOK, SoFar, Register \/ CopyShortcut \/ CompareShortcut
    PROVE  SoFar'
<1>1. PICK name \in {"register", "copy", "compare"} : At(name)
  BY DEF Register, CopyShortcut, CompareShortcut
<1>2. /\ phase = "steps" /\ job.kind = "set_auto_shutdown_at_23" /\ Lengths(job.kind) = 3
      /\ step \in 1..3
      /\ Register => step = 1
      /\ CopyShortcut => step = 2
      /\ CompareShortcut => step = 3
  BY <1>1, StepIs DEF StepOf, Lengths, Register, CopyShortcut, CompareShortcut
<1>3. /\ job' = job /\ before' = before
      /\ Advance \/ \E c : Finish("failed", c)
  BY DEF Register, CopyShortcut, CompareShortcut, Unmoved
<1>4. /\ result'.status \in {"none", "applied", "failed"} /\ Running
      /\ phase' = "steps" => Going
      /\ result'.status = "applied" => ~Going /\ step >= 3
  BY <1>2, <1>3, StepResult
<1>5. /\ pc = [before.pc EXCEPT !.task = pc.task, !.shortcut = pc.shortcut]
      /\ pc.task \in {before.pc.task, "right"}
      /\ pc.shortcut # before.pc.shortcut => pc.task = "right"
      /\ step >= 2 => pc.task = "right"
  BY <1>2, <1>4 DEF SoFar, ShutdownSoFar
<1>6. before.pc \in Pcs /\ pc \in Pcs
  BY DEF TypeOK
<1>7. ASSUME NEW w, NEW s,
             pc' = [before.pc EXCEPT !.task = w, !.shortcut = s],
             w \in {before.pc.task, "right"},
             s # before.pc.shortcut => w = "right",
             Going => w = "right",
             result'.status = "applied" => w = "right" /\ s = "same"
      PROVE  SoFar'
  <2>1. pc'.task = w /\ pc'.shortcut = s
    BY <1>6, <1>7 DEF Pcs
  <2>2. ShutdownSoFar'
    BY <1>3, <1>4, <1>7, <2>1 DEF ShutdownSoFar
  <2> QED BY <1>2, <1>3, <1>4, <2>2, OthersSoFar, NothingOfMaintenance DEF SoFar, Maintenance
<1>8. CASE Register
  <2>1. pc' = [pc EXCEPT !.task = "right"] \/ (pc' = pc /\ Finish("failed", FALSE))
    BY <1>8 DEF Register
  <2>2. CASE pc' = [pc EXCEPT !.task = "right"]
    <3>1. pc' = [before.pc EXCEPT !.task = "right", !.shortcut = pc.shortcut]
      BY <1>5, <1>6, <2>2 DEF Pcs
    <3>2. result'.status # "applied"
      BY <1>2, <1>4, <1>8
    <3> QED BY <1>7, <3>1, <3>2
  <2>3. CASE pc' = pc /\ Finish("failed", FALSE)
    <3>1. result'.status = "failed" /\ ~Going
      BY <1>2, <2>3 DEF Finish, Going
    <3> QED BY <1>5, <1>7, <2>3, <3>1
  <2> QED BY <2>1, <2>2, <2>3
<1>9. CASE CopyShortcut
  <2>1. pc.task = "right" /\ result'.status # "applied"
    BY <1>2, <1>4, <1>5, <1>9
  <2>2. \/ pc' = pc
        \/ \E s : pc' = [pc EXCEPT !.shortcut = s]
    BY <1>9 DEF CopyShortcut
  <2>3. CASE pc' = pc
    BY <1>5, <1>7, <2>1, <2>3
  <2>4. CASE \E s : pc' = [pc EXCEPT !.shortcut = s]
    <3>1. PICK s : pc' = [pc EXCEPT !.shortcut = s]
      BY <2>4
    <3>2. pc' = [before.pc EXCEPT !.task = pc.task, !.shortcut = s]
      BY <1>5, <1>6, <3>1 DEF Pcs
    <3> QED BY <1>7, <2>1, <3>2
  <2> QED BY <2>2, <2>3, <2>4
<1>10. CASE CompareShortcut
  <2>1. pc.task = "right"
    BY <1>2, <1>5, <1>10
  <2>2. pc' = pc /\ ((pc.shortcut = "same" /\ Advance) \/ Finish("failed", FALSE))
    BY ONLY <1>10 DEF CompareShortcut
  <2>3. result'.status = "applied" => pc.shortcut = "same"
    BY <2>2 DEF Finish
  <2> QED BY <1>5, <1>7, <2>1, <2>2, <2>3
<1> QED BY <1>8, <1>9, <1>10

LEMMA BinKeeps == ASSUME TypeOK, JobOK, SoFar, EmptyRecycleBin PROVE SoFar'
<1>1. /\ phase = "steps" /\ job.kind = "empty_recycle_bin"
      /\ job' = job /\ before' = before
      /\ Advance \/ \E c : Finish("failed", c)
  <2>1. At("empty")
    BY DEF EmptyRecycleBin
  <2>2. phase = "steps" /\ job.kind = "empty_recycle_bin"
    BY <2>1, StepIs DEF StepOf
  <2> QED BY <2>2 DEF EmptyRecycleBin, Unmoved
<1>2. /\ result'.status \in {"none", "applied", "failed"} /\ Running
  BY <1>1, StepResult
<1>3. pc = [before.pc EXCEPT !.bin = pc.bin]
  BY <1>1, <1>2 DEF SoFar, BinSoFar
<1>4. before.pc \in Pcs /\ pc \in Pcs
  BY DEF TypeOK
<1>5. PICK b : /\ pc' = [pc EXCEPT !.bin = b]
               /\ result'.status = "applied" => b = "empty"
  <2>1. CASE pc' = [pc EXCEPT !.bin = "empty"]
    BY <2>1
  <2>2. CASE pc' = pc /\ Finish("failed", FALSE)
    <3>1. pc' = [pc EXCEPT !.bin = pc.bin]
      BY <1>4, <2>2 DEF Pcs
    <3>2. result'.status = "failed"
      BY <2>2 DEF Finish
    <3> QED BY <3>1, <3>2
  <2>3. pc' = [pc EXCEPT !.bin = "empty"] \/ (pc' = pc /\ Finish("failed", FALSE))
    BY DEF EmptyRecycleBin
  <2> QED BY <2>1, <2>2, <2>3
<1>6. pc' = [before.pc EXCEPT !.bin = b] /\ pc'.bin = b
  BY <1>3, <1>4, <1>5 DEF Pcs
<1>7. BinSoFar'
  BY <1>1, <1>5, <1>6 DEF BinSoFar
<1> QED BY <1>1, <1>2, <1>7, OthersSoFar, NothingOfMaintenance DEF SoFar, Maintenance

\* Of two changes of a browser's data the second remains.
LEMMA DataTwice ==
    ASSUME NEW p \in Pcs, NEW b, NEW d, NEW e
    PROVE  [[p EXCEPT !.data[b] = e] EXCEPT !.data[b] = d] = [p EXCEPT !.data[b] = d]
<1>1. p.data \in [Browsers -> {"absent", "small", "history"}]
  BY DEF Pcs
<1>2. [[p.data EXCEPT ![b] = e] EXCEPT ![b] = d] = [p.data EXCEPT ![b] = d]
  BY <1>1
<1>3. [p EXCEPT !.data[b] = e].data = [p.data EXCEPT ![b] = e]
  BY DEF Pcs
<1> QED BY <1>2, <1>3 DEF Pcs

\* What a reset has done so far, whichever of its steps is next.
LEMMA ResetKeeps ==
    ASSUME TypeOK, JobOK, SoFar,
           KillBrowser \/ BrowserReturns \/ LookForData \/ DeleteData
    PROVE  SoFar'
<1>1. PICK name \in {"kill", "look", "delete"} : At(name)
  BY DEF KillBrowser, BrowserReturns, LookForData, DeleteData
<1>2. /\ phase = "steps" /\ job.kind = "reset_browser" /\ Lengths(job.kind) = 3
      /\ step \in 1..3
      /\ KillBrowser => step = 1
      /\ LookForData => step = 2
  BY <1>1, StepIs DEF StepOf, Lengths, KillBrowser, LookForData
<1>3. job' = job /\ before' = before /\ appData' = appData
  BY DEF KillBrowser, BrowserReturns, LookForData, DeleteData, Unmoved, environment
<1>4. result.status = "none" /\ Running
  BY <1>2 DEF JobOK, Running
<1>5. PICK e \in {"absent", "small", "history"} :
          pc = [before.pc EXCEPT !.data[job.target] = e]
  BY <1>2, <1>4 DEF SoFar, ResetSoFar
<1>6. before.pc \in Pcs /\ pc \in Pcs /\ job.target \in Browsers
  BY <1>2, TargetIs DEF TypeOK
<1>7. pc.data[job.target] = e
  BY ONLY <1>5, <1>6 DEF Pcs
<1>8. ASSUME NEW d \in {"absent", "small", "history"},
             pc' = [pc EXCEPT !.data[job.target] = d],
             result'.status \in {"none", "applied", "failed"},
             result'.status = "applied" => d = "absent" \/ ~appData
      PROVE  SoFar'
  <2>1. pc' = [before.pc EXCEPT !.data[job.target] = d]
    BY ONLY <1>5, <1>6, <1>8, DataTwice
  <2>2. pc'.data[job.target] = d
    BY ONLY <1>6, <1>8 DEF Pcs
  <2>3. pc' = [before'.pc EXCEPT !.data[job'.target] = d]
    BY <1>3, <2>1
  <2>4. result'.status = "applied" => pc'.data[job'.target] = "absent" \/ ~appData'
    BY <1>3, <1>8, <2>2
  <2>5. ResetSoFar'
    BY ONLY <2>3, <2>4 DEF ResetSoFar
  <2> QED BY <1>2, <1>3, <1>8, <2>5, OthersSoFar, NothingOfMaintenance DEF SoFar, Maintenance
<1>9. ASSUME pc' = pc, result'.status \in {"none", "applied", "failed"},
             result'.status = "applied" => e = "absent" \/ ~appData
      PROVE  SoFar'
  <2>1. pc' = [pc EXCEPT !.data[job.target] = e]
    BY ONLY <1>6, <1>7, <1>9 DEF Pcs
  <2> QED BY <1>8, <1>9, <2>1
<1>10. CASE KillBrowser
  <2>1. pc' = pc /\ Advance
    BY ONLY <1>10 DEF KillBrowser
  <2>2. result'.status \in {"none", "applied", "failed"} /\ result'.status # "applied"
    BY <1>2, <1>10, <2>1, StepResult
  <2> QED BY <1>9, <2>1, <2>2
<1>11. CASE BrowserReturns
  <2>1. pc' = [pc EXCEPT !.data[job.target] = "small"] /\ result' = result
    BY ONLY <1>11 DEF BrowserReturns
  <2> QED BY <1>4, <1>8, <2>1
<1>12. CASE LookForData
  <2>1. /\ pc' = pc
        /\ Advance \/ Finish("applied", FALSE)
        /\ (appData /\ pc.data[job.target] # "absent") => Advance
    BY ONLY <1>12 DEF LookForData
  <2>2. CASE Advance
    <3>1. result'.status \in {"none", "applied", "failed"} /\ result'.status # "applied"
      BY <1>2, <1>12, <2>2, StepResult
    <3> QED BY <1>9, <2>1, <3>1
  <2>3. CASE ~Advance
    <3>1. result'.status = "applied"
      BY <2>1, <2>3 DEF Finish
    <3> QED BY <1>7, <1>9, <2>1, <2>3, <3>1
  <2> QED BY <2>2, <2>3
<1>13. CASE DeleteData
  <2>1. \/ pc' = [pc EXCEPT !.data[job.target] = "absent"] /\ Advance
        \/ (\E d \in Smaller(pc.data[job.target]) :
                pc' = [pc EXCEPT !.data[job.target] = d]) /\ Finish("failed", FALSE)
    BY ONLY <1>13 DEF DeleteData
  <2>2. CASE pc' = [pc EXCEPT !.data[job.target] = "absent"] /\ Advance
    <3>1. result'.status \in {"none", "applied", "failed"}
      BY <1>2, <2>2, StepResult
    <3> QED BY <1>8, <2>2, <3>1
  <2>3. ASSUME NEW d \in Smaller(pc.data[job.target]),
               pc' = [pc EXCEPT !.data[job.target] = d], Finish("failed", FALSE)
        PROVE  SoFar'
    <3>1. d \in {"absent", "small", "history"}
      BY <1>7, <2>3 DEF Smaller
    <3>2. result'.status = "failed"
      BY <2>3 DEF Finish
    <3> QED BY <1>8, <2>3, <3>1, <3>2
  <2> QED BY <2>1, <2>2, <2>3
<1> QED BY <1>10, <1>11, <1>12, <1>13

\* An activation or a launch changes nothing on the PC.
LEMMA LaunchesKeep == ASSUME TypeOK, JobOK, SoFar, ActivationStep PROVE SoFar'
<1>1. job.kind \in Activations \cup {"launch_program"} /\ phase = "steps"
  <2>1. PICK name \in {"key", "clipboard", "launch"} : At(name)
    BY DEF ActivationStep, ReadKey, SetClipboard, LaunchStep, LaunchActivation,
           LaunchExcel, LaunchProgram
  <2> QED BY <2>1, StepIs DEF StepOf
<1>2. pc' = pc /\ job' = job /\ before' = before
  BY DEF ActivationStep, ReadKey, SetClipboard, LaunchStep, LaunchActivation,
         LaunchExcel, LaunchProgram, Unmoved
<1>3. pc = before.pc
  BY <1>1 DEF SoFar, NothingSoFar
<1>4. NothingSoFar'
  BY <1>2, <1>3 DEF NothingSoFar
<1>5. job.kind \notin Maintenance
  BY <1>1 DEF Maintenance, Activations
<1> QED BY <1>2, <1>4, <1>5, OthersSoFar DEF SoFar, Maintenance

\* An operation begins with the PC as it is, which is every invariant's case of
\* nothing done yet.
LEMMA BeginKeeps == ASSUME Sound, Begin PROVE SoFar'
<1>1. PICK j \in Requests :
          /\ job' = j
          /\ before' = [pc |-> pc, clipboard |-> clipboard]
          /\ IF testMode
             THEN /\ result' = [status |-> "skipped", copied |-> FALSE]
                  /\ phase' = After(j)
             ELSE /\ result' = [status |-> "none", copied |-> FALSE]
                  /\ phase' = "steps"
          /\ step' = 1
          /\ pc' = pc
  BY DEF Begin
<1>2. before'.pc = pc' /\ pc' \in Pcs
  BY <1>1 DEF Sound, TypeOK
<1>3. NothingSoFar'
  BY ONLY <1>2 DEF NothingSoFar
<1>4. CASE result'.status = "skipped"
  BY <1>3, <1>4 DEF SoFar, PowerSoFar, ShutdownSoFar, BinSoFar, ResetSoFar, Running
<1>5. CASE result'.status = "none" /\ phase' = "steps"
  <2>1. PowerSoFar'
    <3>1. FirstTimeouts(0) = {}
      BY DEF FirstTimeouts
    <3>2. pc' = [before'.pc EXCEPT !.never = @ \cup FirstTimeouts(0)]
      BY ONLY <1>2, <3>1 DEF Pcs
    <3>3. 0 \in 0..6 /\ 0 = step' - 1 /\ result'.status # "applied"
      BY <1>1, <1>5
    <3>4. \E n \in 0..6 :
              /\ pc' = [before'.pc EXCEPT !.never = @ \cup FirstTimeouts(n)]
              /\ phase' = "steps" => n = step' - 1
              /\ result'.status = "applied" => n = 6
      BY ONLY <3>2, <3>3
    <3> QED BY ONLY <3>4 DEF PowerSoFar, FirstTimeouts
  <2>2. ShutdownSoFar'
    <3>1. pc' = [before'.pc EXCEPT !.task = pc'.task, !.shortcut = pc'.shortcut]
      BY ONLY <1>2 DEF Pcs
    <3>2. step' = 1 /\ result'.status # "applied"
      BY <1>1, <1>5
    <3> QED BY ONLY <1>2, <3>1, <3>2 DEF ShutdownSoFar
  <2>3. BinSoFar'
    <3>1. pc' = [before'.pc EXCEPT !.bin = pc'.bin]
      BY ONLY <1>2 DEF Pcs
    <3> QED BY ONLY <1>5, <3>1 DEF BinSoFar
  <2>4. ResetSoFar'
    <3>1. j.kind = "reset_browser" => j.target \in Browsers
      BY DEF Requests
    <3>2. job'.kind = "reset_browser" =>
              /\ pc'.data[job'.target] \in {"absent", "small", "history"}
              /\ pc' = [before'.pc EXCEPT !.data[job'.target] = pc'.data[job'.target]]
      BY ONLY <1>1, <1>2, <3>1 DEF Pcs
    <3> QED BY ONLY <1>5, <3>2 DEF ResetSoFar
  <2> QED BY <1>3, <2>1, <2>2, <2>3, <2>4 DEF SoFar
<1>6. result'.status = "skipped" \/ (result'.status = "none" /\ phase' = "steps")
  BY <1>1
<1> QED BY <1>4, <1>5, <1>6

LEMMA SoFarStep == Sound /\ SoFar /\ [Next]_vars => SoFar'
<1> SUFFICES ASSUME Sound, SoFar, [Next]_vars PROVE SoFar'
  OBVIOUS
<1>0. TypeOK /\ JobOK
  BY DEF Sound
<1>1. CASE Begin
  BY <1>1, BeginKeeps
<1>2. CASE MaintenanceStep
  BY <1>0, <1>2, PowerKeeps, ShutdownKeeps, BinKeeps, ResetKeeps DEF MaintenanceStep
<1>3. CASE ActivationStep
  BY <1>0, <1>3, LaunchesKeep
<1>4. ASSUME phase' = "idle" PROVE SoFar'
  BY <1>4 DEF SoFar, PowerSoFar, ShutdownSoFar, BinSoFar, ResetSoFar, NothingSoFar, Running
<1>5. CASE Refresh
  BY <1>4, <1>5 DEF Refresh
<1>6. CASE Select
  <2>1. \A s : Selecting(s) => phase' = "idle"
    BY DEF Selecting
  <2>2. phase' = "idle"
    BY <1>6, <2>1 DEF Select, DetectWindows, ClickWindows, ClickOffice, ClickSetting,
                      SelectAll, DeselectAll
  <2> QED BY <1>4, <2>2
<1>7. CASE PcChanges
  <2>1. phase' = "idle"
    BY <1>7 DEF PcChanges
  <2> QED BY <1>4, <2>1
<1>8. CASE UNCHANGED vars
  <2>1. UNCHANGED <<phase, result, job, before, pc, step, appData>>
    BY <1>8 DEF vars
  <2> QED BY ONLY <2>1, SoFar DEF SoFar, PowerSoFar, ShutdownSoFar, BinSoFar, ResetSoFar,
                                NothingSoFar, Running
<1> QED BY <1>1, <1>2, <1>3, <1>5, <1>6, <1>7, <1>8 DEF Next

LEMMA SoFarInit == Init => SoFar
BY DEF Init, SoFar, PowerSoFar, ShutdownSoFar, BinSoFar, ResetSoFar, NothingSoFar, Running

\* Whatever fails without a word on the way, an operation that is reported as
\* applied has in force all it promises when its result is shown; for any
\* browsers and any PC to begin with.
THEOREM AppliedStaysInForce == Spec => []AppliedIsInForce
<1>1. Init => Sound /\ SoFar
  BY InitTypes, SoFarInit DEF Sound
<1> QED BY <1>1, SoundStep, SoFarStep, SoFarApplied, PTL DEF Spec

\* At any moment of an operation, and when it has failed, a beginning of it and
\* nothing else has been done to the PC.
THEOREM FailureStaysPrefix == Spec => []FailureIsPrefix
<1>1. Init => Sound /\ SoFar
  BY InitTypes, SoFarInit DEF Sound
<1> QED BY <1>1, SoundStep, SoFarStep, SoFarPrefix, PTL DEF Spec

=============================================================================
