--------------------------- MODULE StatusRefresh ---------------------------
(***************************************************************************)
(* The refresh of the Action Center page: a pool of two threads runs the   *)
(* check of the settings (CheckSettingsStatus) and the PC checks           *)
(* (RunPcChecks), each of which runs its checks in a pool of its own, while *)
(* the GUI thread waits and then shows both tables at once.                *)
(*                                                                         *)
(* The scopes are the two tasks of the outer pool.  In each, a thread of   *)
(* the inner pool takes the next check of the queue and runs it; the       *)
(* scope's thread collects finished checks in any order and puts each      *)
(* result where its check stands.  The PC may change while all this runs,  *)
(* and a check may raise.                                                  *)
(*                                                                         *)
(* Bounded: the PC changes at most MaxChanges times.                       *)
(***************************************************************************)
EXTENDS Naturals, Sequences, FiniteSets

CONSTANTS
    SettingLists,  \* what may be visible: with and without Windows 11's own
    PcChecks,      \* the PC checks in the order of their rows
    MayRaise,      \* the checks that do not turn every failure into a result
    MaxWorkers,    \* max_workers of an inner pool
    MaxChanges

Scopes == {"settings", "pc_checks"}

Lists(k) == IF k = "settings" THEN SettingLists ELSE {PcChecks}

ChecksOf(k) == UNION {{l[i] : i \in DOMAIN l} : l \in Lists(k)}

Checks == ChecksOf("settings") \cup ChecksOf("pc_checks")

\* PC checks whose result also feeds a card of the page.
Summarised == {"office_install", "power_settings", "auto_shutdown_schedule"}

\* What a check finds: all is well, or not (a warning, or a state it could
\* not read and reports so), or an exception.
States == {"ok", "warning", "error"}

\* The name that RunPcChecks gives the result of a check that raised: that
\* of its class, not the check_id of its results.
ClassName == "class_name"

Findings == [check : Checks \cup {ClassName}, status : States]

NotCollected == [check |-> "none", status |-> "none"]

\* OfficeInstallCheck catches whatever the registry raises.
ASSUME RefreshAssumption ==
    /\ \A k \in Scopes : \A l \in Lists(k) :
          l \in Seq(Checks) /\ \A i, j \in DOMAIN l : l[i] = l[j] => i = j
    /\ SettingLists # {}
    /\ {ClassName, "none"} \cap Checks = {}
    /\ MayRaise \subseteq Checks \ {"office_install"}
    /\ MaxWorkers \in Nat \ {0}
    /\ MaxChanges \in Nat

VARIABLES
    pc,        \* what each check would find on the PC now
    seen,      \* what it could have found since the refresh began
    changes,   \* how often the PC has changed
    phase,     \* is the GUI thread idle or waiting for a refresh?
    raised,    \* did the outer pool fail to start its second thread?
    scope,     \* where the two scopes are
    order,     \* the checks of each scope, in the order of their rows
    task,      \* the tasks of the inner pools
    found,     \* the results of the tasks' futures
    results,   \* the results collected so far, by row
    failed,    \* did execute() raise?
    rows,      \* result_rows of the two view models, by row
    summary,   \* the texts that PcCheckViewModel keeps for the cards
    rendered   \* does the page show what the view models hold?

pools == <<scope, order, task, found, results, failed>>
models == <<rows, summary>>
vars == <<pc, seen, changes, phase, raised, pools, models, rendered>>

ScopeTypeOK(k) ==
    /\ order[k] \in Lists(k)
    /\ task[k] \in [DOMAIN order[k] -> {"unsubmitted", "queued", "running", "finished"}]
    /\ found[k] \in [DOMAIN order[k] -> Findings \cup {NotCollected}]
    /\ results[k] \in [DOMAIN order[k] -> Findings \cup {NotCollected}]
    /\ \A i \in DOMAIN rows[k] : rows[k][i] \in Findings

TypeOK ==
    /\ pc \in [Checks -> States]
    /\ seen \in [Checks -> SUBSET States]
    /\ changes \in Nat
    /\ phase \in {"idle", "refreshing"}
    /\ raised \in BOOLEAN /\ rendered \in BOOLEAN
    /\ scope \in [Scopes -> {"new", "submitted", "running", "ended"}]
    /\ failed \in [Scopes -> BOOLEAN]
    /\ DOMAIN order = Scopes /\ DOMAIN rows = Scopes
    /\ DOMAIN task = Scopes /\ DOMAIN found = Scopes /\ DOMAIN results = Scopes
    /\ \A k \in Scopes : ScopeTypeOK(k)
    /\ summary \in [Summarised -> {"unread"} \cup States]

\* Tasks of a pool for the checks of l, none of them submitted.
AllRows(l, v) == [i \in DOMAIN l |-> v]

Init ==
    /\ pc \in [Checks -> {"ok"}]
    /\ seen = [c \in Checks |-> {}]
    /\ changes = 0
    /\ phase = "idle" /\ raised = FALSE /\ rendered = FALSE
    /\ scope = [k \in Scopes |-> "new"]
    /\ order \in {o \in [Scopes -> SettingLists \cup {PcChecks}] :
                     \A k \in Scopes : o[k] \in Lists(k)}
    /\ task = [k \in Scopes |-> AllRows(order[k], "unsubmitted")]
    /\ found = [k \in Scopes |-> AllRows(order[k], NotCollected)]
    /\ results = found
    /\ failed = [k \in Scopes |-> FALSE]
    /\ rows = [k \in Scopes |-> <<>>]
    /\ summary = [c \in Summarised |-> "unread"]

-----------------------------------------------------------------------------
(* The GUI thread and the outer pool *)

\* _refresh_status_data: both scopes are submitted, and the ids of the
\* settings visible now are passed on.  When the second thread cannot be
\* started, submit raises, but its task is in the queue by then.
StartRefresh ==
    /\ phase = "idle"
    /\ phase' = "refreshing"
    /\ raised' \in BOOLEAN
    /\ rendered' = FALSE
    /\ seen' = [c \in Checks |-> {pc[c]}]
    /\ scope' = [k \in Scopes |-> "submitted"]
    /\ \E l \in SettingLists : order' = [order EXCEPT !["settings"] = l]
    /\ task' = [k \in Scopes |-> AllRows(order'[k], "unsubmitted")]
    /\ found' = [k \in Scopes |-> AllRows(order'[k], NotCollected)]
    /\ results' = found'
    /\ failed' = [k \in Scopes |-> FALSE]
    /\ UNCHANGED <<pc, changes, models>>

\* The outer pool has ended and, if it did not raise, the page is rendered.
EndRefresh ==
    /\ phase = "refreshing"
    /\ \A k \in Scopes : scope[k] = "ended"
    /\ phase' = "idle"
    /\ rendered' = ~raised
    /\ UNCHANGED <<pc, seen, changes, raised, pools, models>>

\* Other handlers of the page render what the view models hold.  (Before the
\* first refresh that is nothing; after an apply, see SettingsApply.)
RenderAgain ==
    /\ phase = "idle" /\ \A k \in Scopes : scope[k] = "ended"
    /\ rendered' = TRUE
    /\ UNCHANGED <<pc, seen, changes, phase, raised, pools, models>>

-----------------------------------------------------------------------------
(* The inner pools *)

Waiting(k) == {i \in DOMAIN order[k] : task[k][i] = "queued"}
Running(k) == {i \in DOMAIN order[k] : task[k][i] = "running"}

\* execute(): a task for every check.  A submit that cannot start a thread
\* raises after it put its task in the queue; without any thread that task
\* never runs.
RunScope(k) ==
    /\ scope[k] = "submitted"
    /\ scope' = [scope EXCEPT ![k] = "running"]
    /\ \E n \in 0 .. Len(order[k]), fails \in BOOLEAN :
          /\ IF fails THEN n # 1 /\ Len(order[k]) > 0 ELSE n = Len(order[k])
          /\ failed' = [failed EXCEPT ![k] = fails]
          /\ task' = [task EXCEPT ![k] = [i \in DOMAIN order[k] |->
                         IF i <= n THEN "queued" ELSE "unsubmitted"]]
    /\ UNCHANGED <<pc, seen, changes, phase, raised, order, found, results,
                   models, rendered>>

\* A wrong variant: the checks share the two threads of the outer pool.
FreeWorkerOfOuterPool(k) ==
    Cardinality({s \in Scopes : scope[s] = "running"}) + Cardinality(Running(k)) < 2

FreeWorker(k) == Cardinality(Running(k)) < MaxWorkers

\* The queue of a pool is first in, first out.
TakeTask(k, i) ==
    /\ FreeWorker(k)
    /\ i \in Waiting(k) /\ \A j \in Waiting(k) : i <= j
    /\ task' = [task EXCEPT ![k][i] = "running"]
    /\ UNCHANGED <<pc, seen, changes, phase, raised, scope, order, found,
                   results, failed, models, rendered>>

\* What a check of k returns when it finds s.  CheckSettingsStatus catches an
\* exception where the setting is known; RunPcChecks names it by the class.
Finding(k, c, s) ==
    [check |-> IF k = "pc_checks" /\ s = "error" THEN ClassName ELSE c,
     status |-> s]

\* A wrong variant: a check that raised is run again.
FinishTaskOrRetry(k, i) ==
    LET c == order[k][i]
        again == pc[c] = "error"
    IN  /\ task[k][i] = "running"
        /\ task' = [task EXCEPT ![k][i] = IF again THEN "queued" ELSE "finished"]
        /\ found' = IF again THEN found ELSE [found EXCEPT ![k][i] = Finding(k, c, pc[c])]
        /\ UNCHANGED <<pc, seen, changes, phase, raised, scope, order, results,
                       failed, models, rendered>>

FinishTask(k, i) ==
    /\ task[k][i] = "running"
    /\ task' = [task EXCEPT ![k][i] = "finished"]
    /\ found' = [found EXCEPT ![k][i] = Finding(k, order[k][i], pc[order[k][i]])]
    /\ UNCHANGED <<pc, seen, changes, phase, raised, scope, order, results,
                   failed, models, rendered>>

Collectable(k, i) ==
    /\ scope[k] = "running" /\ ~failed[k]
    /\ task[k][i] = "finished"

\* A wrong variant: results are appended as they come.
CollectAsCompleted(k, i) ==
    /\ Collectable(k, i)
    /\ \A r \in DOMAIN order[k] : results[k][r] # found[k][i]
    /\ \E r \in DOMAIN order[k] :
          /\ results[k][r] = NotCollected
          /\ \A j \in 1 .. r - 1 : results[k][j] # NotCollected
          /\ results' = [results EXCEPT ![k][r] = found[k][i]]
    /\ UNCHANGED <<pc, seen, changes, phase, raised, scope, order, task, found,
                   failed, models, rendered>>

\* as_completed yields the finished checks, in no order.
Collect(k, i) ==
    /\ Collectable(k, i)
    /\ results[k][i] = NotCollected
    /\ results' = [results EXCEPT ![k][i] = found[k][i]]
    /\ UNCHANGED <<pc, seen, changes, phase, raised, scope, order, task, found,
                   failed, models, rendered>>

-----------------------------------------------------------------------------
(* The view models *)

\* The table of the PC checks has no row for Office.
RowsOf(k, r) ==
    [i \in {j \in DOMAIN r : k = "settings" \/ r[j].check # "office_install"} |-> r[i]]

\* _update_summary_statuses: by check_id, and what has none stays.
SummaryFrom(r) ==
    [c \in Summarised |->
        IF \E i \in DOMAIN r : r[i].check = c
        THEN r[CHOOSE i \in DOMAIN r : r[i].check = c].status
        ELSE summary[c]]

AllCollected(k) == \A i \in DOMAIN order[k] : results[k][i] # NotCollected

\* The futures and the list of results are execute()'s own.
Forget(k) ==
    /\ found' = [found EXCEPT ![k] = AllRows(order[k], NotCollected)]
    /\ results' = [results EXCEPT ![k] = AllRows(order[k], NotCollected)]

EndScope(k) ==
    /\ scope[k] = "running" /\ ~failed[k]
    /\ AllCollected(k)
    /\ scope' = [scope EXCEPT ![k] = "ended"]
    /\ rows' = [rows EXCEPT ![k] = RowsOf(k, results[k])]
    /\ summary' = IF k = "pc_checks" THEN SummaryFrom(results[k]) ELSE summary
    /\ Forget(k)
    /\ UNCHANGED <<pc, seen, changes, phase, raised, order, task, failed, rendered>>

\* A wrong variant: the pool is left without waiting for its threads.
WorkersLeave(k) == TRUE

\* Leaving the pool's with block waits for the threads it has; they empty the
\* queue first.
WorkersDone(k) == Running(k) = {} /\ Waiting(k) = {}

\* execute() raised: no rows, whatever the checks that ran have found.
EndFailedScope(k) ==
    /\ scope[k] = "running" /\ failed[k]
    /\ WorkersDone(k)
    /\ scope' = [scope EXCEPT ![k] = "ended"]
    /\ rows' = [rows EXCEPT ![k] = <<>>]
    /\ Forget(k)
    /\ UNCHANGED <<pc, seen, changes, phase, raised, order, task, failed,
                   summary, rendered>>

-----------------------------------------------------------------------------
(* The PC changes on its own: browsers, updates, other administrators *)

PcChanges(c) ==
    /\ changes < MaxChanges
    /\ changes' = changes + 1
    /\ \E s \in IF c \in MayRaise THEN States ELSE States \ {"error"} :
          /\ s # pc[c]
          /\ pc' = [pc EXCEPT ![c] = s]
          /\ seen' = IF phase = "idle" THEN seen ELSE [seen EXCEPT ![c] = @ \cup {s}]
    /\ UNCHANGED <<phase, raised, pools, models, rendered>>

-----------------------------------------------------------------------------
InnerPool(k) ==
    \/ RunScope(k)
    \/ \E i \in DOMAIN order[k] : TakeTask(k, i) \/ FinishTask(k, i) \/ Collect(k, i)
    \/ EndScope(k)
    \/ EndFailedScope(k)

Work == EndRefresh \/ \E k \in Scopes : InnerPool(k)

Next ==
    \/ StartRefresh \/ RenderAgain
    \/ Work
    \/ \E c \in Checks : PcChanges(c)

Spec == Init /\ [][Next]_vars

\* Threads run and checks return.  Nobody has to refresh.
FairSpec == Spec /\ WF_vars(Work)

-----------------------------------------------------------------------------
(* Properties *)

\* After a refresh every row of both tables is that of the check in its
\* place, and says what that check could find while this refresh ran: in
\* whatever order threads take, finish and hand over their checks, no result
\* is another's, of an earlier refresh or lost, and one that raised spoils no
\* other.  The table of a scope that raised is empty, and Office has no row.
Visible(k) ==
    {i \in DOMAIN order[k] : k = "settings" \/ order[k][i] # "office_install"}

Fresh(k, c, f) == \E s \in seen[c] : f = Finding(k, c, s)

FreshRows(k, r) ==
    IF failed[k] THEN DOMAIN r = {}
    ELSE /\ DOMAIN r = Visible(k)
         /\ \A i \in Visible(k) : Fresh(k, order[k][i], r[i])

ShownIsFresh == rendered => \A k \in Scopes : FreshRows(k, rows[k])

\* When the GUI thread goes on, no thread of a pool still runs a check or has
\* one left to run, not even after a pool that could not be started in full.
QuietWhenIdle ==
    phase = "idle" => \A k \in Scopes : Running(k) = {} /\ Waiting(k) = {}

\* Nobody waits for somebody who waits: as long as the GUI thread waits, a
\* scope can begin or end, a thread can take a check or is running one, or a
\* result is there to be collected, or both scopes have ended.
NeverStuck ==
    phase = "refreshing" =>
        \/ \A k \in Scopes : scope[k] = "ended"
        \/ \E k \in Scopes :
            \/ scope[k] = "submitted"
            \/ Running(k) # {}
            \/ FreeWorker(k) /\ Waiting(k) # {}
            \/ \E i \in DOMAIN order[k] : Collectable(k, i) /\ results[k][i] = NotCollected
            \/ scope[k] = "running" /\ ~failed[k] /\ AllCollected(k)
            \/ scope[k] = "running" /\ failed[k] /\ WorkersDone(k)

\* What a scope, and the refresh, has left to do at most: to start, to take, run
\* and collect every check, to end.
Uncollected(k) == {i \in DOMAIN order[k] : results[k][i] = NotCollected}

StepsOf(k) ==
    IF scope[k] = "submitted" THEN 3 * Len(order[k]) + 2
    ELSE IF scope[k] = "running"
    THEN 2 * Cardinality(Waiting(k)) + Cardinality(Running(k)) + Cardinality(Uncollected(k)) + 1
    ELSE 0

StepsLeft ==
    StepsOf("settings") + StepsOf("pc_checks") + (IF phase = "refreshing" THEN 1 ELSE 0)

\* Nothing is done twice: every step that threads and pools take while the GUI
\* thread waits brings the end of the refresh nearer.
RefreshCountsDown ==
    [][phase = "refreshing" => StepsLeft' < StepsLeft \/ UNCHANGED <<phase, pools>>]_vars

\* Why every refresh ends: somebody can always go on, and whoever does leaves
\* less to do.
RefreshProgresses == []NeverStuck /\ RefreshCountsDown

\* The GUI thread waits for pools that wait for pools: every refresh ends.
RefreshEnds == phase = "refreshing" ~> phase = "idle"

\* docs/PERFORMANCE_AND_REGRESSION.md:41 says that a failing check is isolated
\* as the unknown or error state of its own item: the card of an item whose
\* check raised in this refresh does not say that all is well.
FailureIsolated ==
    rendered /\ ~failed["pc_checks"] =>
        \A i \in DOMAIN PcChecks :
            /\ PcChecks[i] \in Summarised
            /\ i \in DOMAIN rows["pc_checks"]
            /\ rows["pc_checks"][i].status = "error"
            => summary[PcChecks[i]] # "ok"
=============================================================================
