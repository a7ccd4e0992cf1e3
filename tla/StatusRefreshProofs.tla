------------------------- MODULE StatusRefreshProofs -------------------------
(***************************************************************************)
(* What TLC checks of StatusRefresh for four checks, proved for any lists  *)
(* of checks and pools of any size: the rows shown are those of the checks *)
(* in their places, as found in this refresh, and no thread outlives it.   *)
(***************************************************************************)
EXTENDS StatusRefresh, FiniteSetTheorems, TLAPS

-----------------------------------------------------------------------------
(* The inductive invariant *)

\* A check that catches everything never raises, now or earlier.
RaisingInv ==
    \A c \in Checks : pc[c] = "error" \/ "error" \in seen[c] => c \in MayRaise

\* What a check would find now is among what it could have found.
SeenInv == phase = "refreshing" => \A c \in Checks : pc[c] \in seen[c]

\* Where the scopes are while the GUI thread works and while it waits.
PhaseInv ==
    /\ phase = "idle" => \A k \in Scopes : scope[k] \in {"new", "ended"}
    /\ rendered => phase = "idle" /\ \A k \in Scopes : scope[k] = "ended"

\* Only a scope under way has tasks to run; what finished is fresh, what was
\* collected is what finished in its place.
PoolInv(k) ==
    /\ scope[k] # "running" =>
          \A i \in DOMAIN order[k] : task[k][i] \in {"unsubmitted", "finished"}
    /\ scope[k] = "running" =>
          \A i \in DOMAIN order[k] :
             task[k][i] = "finished" => Fresh(k, order[k][i], found[k][i])
    /\ \A i \in DOMAIN order[k] :
          results[k][i] # NotCollected =>
             /\ scope[k] = "running"
             /\ task[k][i] = "finished"
             /\ results[k][i] = found[k][i]

\* The rows of a scope that ended are fresh.
RowsInv(k) == scope[k] = "ended" => FreshRows(k, rows[k])

IInv ==
    /\ TypeOK
    /\ RaisingInv
    /\ SeenInv
    /\ PhaseInv
    /\ \A k \in Scopes : PoolInv(k) /\ RowsInv(k)

-----------------------------------------------------------------------------
(* Lemmas *)

\* The checks of a list are checks, and the list is a sequence of them.
LEMMA ListType ==
    ASSUME NEW k \in Scopes, NEW l \in Lists(k)
    PROVE  /\ l \in Seq(Checks)
           /\ DOMAIN l = 1 .. Len(l) /\ Len(l) \in Nat
           /\ \A i \in DOMAIN l : l[i] \in Checks
BY RefreshAssumption

\* A finding is never mistaken for a place still empty.
LEMMA FindingType ==
    ASSUME NEW k \in Scopes, NEW c \in Checks, NEW s \in States
    PROVE  Finding(k, c, s) \in Findings /\ Finding(k, c, s) # NotCollected
<1>1. c # "none" /\ ClassName # "none"
  BY RefreshAssumption DEF ClassName
<1> QED BY <1>1 DEF Finding, Findings, NotCollected, States

\* Office's result is known by its name, because its check never raises.
LEMMA OfficeByName ==
    ASSUME NEW k \in Scopes, NEW c \in Checks, NEW s \in States,
           s = "error" => c \in MayRaise
    PROVE  (k = "settings" \/ Finding(k, c, s).check # "office_install")
              <=> (k = "settings" \/ c # "office_install")
BY RefreshAssumption DEF Finding, ClassName, Scopes

-----------------------------------------------------------------------------
(* The invariant is inductive: the GUI thread *)

LEMMA InitInv == Init => IInv
<1> SUFFICES ASSUME Init PROVE IInv
  OBVIOUS
<1>1. \A k \in Scopes : order[k] \in Lists(k)
  BY DEF Init
<1>2. ASSUME NEW k \in Scopes PROVE ScopeTypeOK(k)
  BY <1>1 DEF Init, ScopeTypeOK, AllRows
<1>3. TypeOK
  BY <1>2 DEF Init, TypeOK, States
<1>4. RaisingInv /\ SeenInv /\ PhaseInv
  BY DEF Init, RaisingInv, SeenInv, PhaseInv
<1>5. ASSUME NEW k \in Scopes PROVE PoolInv(k) /\ RowsInv(k)
  BY DEF Init, PoolInv, RowsInv, AllRows
<1> QED BY <1>3, <1>4, <1>5 DEF IInv

LEMMA KeepStart == IInv /\ StartRefresh => IInv'
<1> SUFFICES ASSUME IInv, StartRefresh PROVE IInv'
  OBVIOUS
<1> USE DEF IInv
<1>1. ASSUME NEW k \in Scopes PROVE order'[k] \in Lists(k)
  BY DEF StartRefresh, TypeOK, ScopeTypeOK, Lists, Scopes
<1>2. TypeOK'
  <2>1. ASSUME NEW k \in Scopes PROVE ScopeTypeOK(k)'
    BY <1>1 DEF StartRefresh, models, TypeOK, ScopeTypeOK, AllRows
  <2>2. DOMAIN order' = Scopes
    BY DEF StartRefresh, TypeOK
  <2>3. seen' \in [Checks -> SUBSET States]
    BY DEF StartRefresh, TypeOK
  <2> QED BY <2>1, <2>2, <2>3 DEF StartRefresh, models, TypeOK
<1>3. RaisingInv' /\ SeenInv' /\ PhaseInv'
  BY DEF StartRefresh, TypeOK, RaisingInv, SeenInv, PhaseInv
<1>4. ASSUME NEW k \in Scopes PROVE PoolInv(k)' /\ RowsInv(k)'
  BY DEF StartRefresh, PoolInv, RowsInv, AllRows
<1> QED BY <1>2, <1>3, <1>4

LEMMA KeepRender == IInv /\ (EndRefresh \/ RenderAgain) => IInv'
<1> SUFFICES ASSUME IInv, EndRefresh \/ RenderAgain PROVE IInv'
  OBVIOUS
<1> USE DEF IInv
<1>1. /\ UNCHANGED <<pc, seen, changes, scope, order, task, found, results, failed,
                     rows, summary, raised>>
      /\ phase' = "idle" /\ rendered' \in BOOLEAN
      /\ \A k \in Scopes : scope[k] = "ended"
  BY DEF EndRefresh, RenderAgain, pools, models, TypeOK
<1>2. TypeOK'
  BY <1>1 DEF TypeOK, ScopeTypeOK
<1>3. RaisingInv' /\ SeenInv' /\ PhaseInv'
  BY <1>1 DEF RaisingInv, SeenInv, PhaseInv
<1>4. ASSUME NEW k \in Scopes PROVE PoolInv(k)' /\ RowsInv(k)'
  BY <1>1 DEF PoolInv, RowsInv, FreshRows, Fresh, Visible
<1> QED BY <1>2, <1>3, <1>4

LEMMA KeepPcChanges == ASSUME NEW c \in Checks PROVE IInv /\ PcChanges(c) => IInv'
<1> SUFFICES ASSUME IInv, PcChanges(c) PROVE IInv'
  OBVIOUS
<1> USE DEF IInv
<1>1. PICK s \in States :
         /\ s = "error" => c \in MayRaise
         /\ pc' = [pc EXCEPT ![c] = s]
         /\ seen' = IF phase = "idle" THEN seen ELSE [seen EXCEPT ![c] = @ \cup {s}]
  BY DEF PcChanges, States
<1>2. UNCHANGED <<phase, raised, scope, order, task, found, results, failed, rows,
                  summary, rendered>> /\ changes' = changes + 1
  BY DEF PcChanges, pools, models
<1>3. \A d \in Checks : seen[d] \subseteq seen'[d]
  BY <1>1 DEF TypeOK
<1>4. TypeOK'
  BY <1>1, <1>2 DEF TypeOK, ScopeTypeOK
<1>5. RaisingInv' /\ SeenInv' /\ PhaseInv'
  BY <1>1, <1>2 DEF TypeOK, RaisingInv, SeenInv, PhaseInv
<1>6. ASSUME NEW k \in Scopes PROVE PoolInv(k)' /\ RowsInv(k)'
  <2>1. \A i \in DOMAIN order[k] : order[k][i] \in Checks
    BY ListType DEF TypeOK, ScopeTypeOK
  <2>2. \A i \in DOMAIN order[k] :
           /\ Fresh(k, order[k][i], found[k][i]) => Fresh(k, order[k][i], found[k][i])'
           /\ Fresh(k, order[k][i], rows[k][i]) => Fresh(k, order[k][i], rows[k][i])'
    BY <1>2, <1>3, <2>1 DEF Fresh
  <2>3. PoolInv(k)'
    BY <1>2, <2>2 DEF PoolInv
  <2>4. Visible(k)' = Visible(k) /\ Visible(k) \subseteq DOMAIN order[k]
    BY <1>2 DEF Visible
  <2>5. RowsInv(k)'
    BY <1>2, <2>2, <2>4 DEF RowsInv, FreshRows
  <2> QED BY <2>3, <2>5
<1> QED BY <1>4, <1>5, <1>6

-----------------------------------------------------------------------------
(* The invariant is inductive: the pools *)

\* What a step of a pool leaves alone.
PoolStep ==
    UNCHANGED <<pc, seen, changes, phase, raised, order, failed, rows, summary, rendered>>

LEMMA KeepRun == ASSUME NEW k \in Scopes PROVE IInv /\ RunScope(k) => IInv'
<1> SUFFICES ASSUME IInv, RunScope(k) PROVE IInv'
  OBVIOUS
<1> USE DEF IInv
<1>0. DOMAIN order[k] = 1 .. Len(order[k]) /\ Len(order[k]) \in Nat
  BY ListType DEF TypeOK, ScopeTypeOK
<1>1. PICK n \in 0 .. Len(order[k]), fails \in BOOLEAN :
         /\ failed' = [failed EXCEPT ![k] = fails]
         /\ task' = [task EXCEPT ![k] = [i \in DOMAIN order[k] |->
                        IF i <= n THEN "queued" ELSE "unsubmitted"]]
  BY DEF RunScope
<1>2. /\ scope[k] = "submitted" /\ scope' = [scope EXCEPT ![k] = "running"]
      /\ UNCHANGED <<pc, seen, changes, phase, raised, order, found, results,
                     rows, summary, rendered>>
  BY DEF RunScope, models
<1>3. TypeOK'
  <2>1. ASSUME NEW q \in Scopes PROVE ScopeTypeOK(q)'
    BY <1>1, <1>2 DEF TypeOK, ScopeTypeOK
  <2>2. DOMAIN task' = Scopes /\ failed' \in [Scopes -> BOOLEAN]
    BY <1>1 DEF TypeOK
  <2> QED BY <1>2, <2>1, <2>2 DEF TypeOK
<1>4. RaisingInv' /\ SeenInv'
  BY <1>2 DEF RaisingInv, SeenInv
<1>5. PhaseInv'
  BY <1>2 DEF TypeOK, PhaseInv
<1>6. ASSUME NEW q \in Scopes PROVE PoolInv(q)' /\ RowsInv(q)'
  <2>1. CASE q = k
    <3>1. scope'[k] = "running" /\ order'[k] = order[k] /\ results'[k] = results[k]
      BY <1>2 DEF TypeOK
    <3>2. \A i \in DOMAIN order[k] : task'[k][i] \in {"queued", "unsubmitted"}
      BY <1>1 DEF TypeOK
    <3>3. \A i \in DOMAIN order[k] : results[k][i] = NotCollected
      BY <1>2 DEF PoolInv
    <3> QED BY <2>1, <3>1, <3>2, <3>3 DEF PoolInv, RowsInv
  <2>2. CASE q # k
    <3>1. /\ scope'[q] = scope[q] /\ task'[q] = task[q] /\ failed'[q] = failed[q]
      BY <1>1, <1>2, <2>2 DEF TypeOK
    <3> QED BY <1>2, <3>1 DEF PoolInv, RowsInv, FreshRows, Fresh, Visible
  <2> QED BY <2>1, <2>2
<1> QED BY <1>3, <1>4, <1>5, <1>6

LEMMA KeepTake ==
    ASSUME NEW k \in Scopes, NEW i \in DOMAIN order[k]
    PROVE  IInv /\ TakeTask(k, i) => IInv'
<1> SUFFICES ASSUME IInv, TakeTask(k, i) PROVE IInv'
  OBVIOUS
<1> USE DEF IInv
<1>1. /\ task[k][i] = "queued" /\ task' = [task EXCEPT ![k][i] = "running"]
      /\ PoolStep /\ UNCHANGED <<scope, found, results>>
  BY DEF TakeTask, Waiting, PoolStep, models
<1> USE DEF PoolStep
<1>2. TypeOK'
  <2>1. ASSUME NEW q \in Scopes PROVE ScopeTypeOK(q)'
    BY <1>1 DEF TypeOK, ScopeTypeOK
  <2> QED BY <1>1, <2>1 DEF TypeOK
<1>3. RaisingInv' /\ SeenInv' /\ PhaseInv'
  BY <1>1 DEF RaisingInv, SeenInv, PhaseInv
<1>4. ASSUME NEW q \in Scopes PROVE PoolInv(q)' /\ RowsInv(q)'
  BY <1>1 DEF TypeOK, ScopeTypeOK, PoolInv, RowsInv, FreshRows, Fresh, Visible
<1> QED BY <1>2, <1>3, <1>4

LEMMA KeepFinish ==
    ASSUME NEW k \in Scopes, NEW i \in DOMAIN order[k]
    PROVE  IInv /\ FinishTask(k, i) => IInv'
<1> SUFFICES ASSUME IInv, FinishTask(k, i) PROVE IInv'
  OBVIOUS
<1> USE DEF IInv
<1> DEFINE c == order[k][i]
           f == Finding(k, c, pc[c])
<1>1. /\ task[k][i] = "running" /\ task' = [task EXCEPT ![k][i] = "finished"]
      /\ found' = [found EXCEPT ![k][i] = f]
      /\ PoolStep /\ UNCHANGED <<scope, results>>
  BY DEF FinishTask, PoolStep, models
<1>2. c \in Checks /\ pc[c] \in States
  BY ListType DEF TypeOK, ScopeTypeOK
<1>3. f \in Findings
  BY <1>2, FindingType
<1>4. scope[k] = "running" /\ phase = "refreshing"
  BY <1>1 DEF TypeOK, PoolInv, PhaseInv
<1>5. Fresh(k, c, f)
  BY <1>2, <1>4 DEF SeenInv, Fresh
<1> HIDE DEF f
<1> USE DEF PoolStep
<1>6. TypeOK'
  <2>1. ASSUME NEW q \in Scopes PROVE ScopeTypeOK(q)'
    BY <1>1, <1>3 DEF TypeOK, ScopeTypeOK
  <2> QED BY <1>1, <2>1 DEF TypeOK
<1>7. RaisingInv' /\ SeenInv' /\ PhaseInv'
  BY <1>1 DEF RaisingInv, SeenInv, PhaseInv
<1>8. ASSUME NEW q \in Scopes PROVE PoolInv(q)' /\ RowsInv(q)'
  <2>1. RowsInv(q)'
    BY <1>1 DEF RowsInv, FreshRows, Fresh, Visible
  <2>2. CASE q = k
    BY <1>1, <1>4, <1>5, <2>1, <2>2 DEF TypeOK, ScopeTypeOK, PoolInv, Fresh
  <2>3. CASE q # k
    BY <1>1, <2>1, <2>3 DEF TypeOK, PoolInv, Fresh
  <2> QED BY <2>1, <2>2, <2>3
<1> QED BY <1>6, <1>7, <1>8

LEMMA KeepCollect ==
    ASSUME NEW k \in Scopes, NEW i \in DOMAIN order[k]
    PROVE  IInv /\ Collect(k, i) => IInv'
<1> SUFFICES ASSUME IInv, Collect(k, i) PROVE IInv'
  OBVIOUS
<1> USE DEF IInv
<1>1. /\ scope[k] = "running" /\ task[k][i] = "finished"
      /\ results' = [results EXCEPT ![k][i] = found[k][i]]
      /\ PoolStep /\ UNCHANGED <<scope, task, found>>
  BY DEF Collect, Collectable, PoolStep, models
<1> USE DEF PoolStep
<1>2. TypeOK'
  <2>1. ASSUME NEW q \in Scopes PROVE ScopeTypeOK(q)'
    BY <1>1 DEF TypeOK, ScopeTypeOK
  <2> QED BY <1>1, <2>1 DEF TypeOK
<1>3. RaisingInv' /\ SeenInv' /\ PhaseInv'
  BY <1>1 DEF RaisingInv, SeenInv, PhaseInv
<1>4. ASSUME NEW q \in Scopes PROVE PoolInv(q)' /\ RowsInv(q)'
  BY <1>1 DEF TypeOK, ScopeTypeOK, PoolInv, RowsInv, FreshRows, Fresh, Visible
<1> QED BY <1>2, <1>3, <1>4

-----------------------------------------------------------------------------
(* The invariant is inductive: the ends of the scopes *)

\* The rows of the tables are the visible ones.
LEMMA RowsAreFresh ==
    ASSUME NEW k \in Scopes, IInv, scope[k] = "running", ~failed[k], AllCollected(k)
    PROVE  FreshRows(k, RowsOf(k, results[k]))
<1> USE DEF IInv
<1> DEFINE r == results[k]
           IsFresh(i) == \E s \in seen[order[k][i]] :
                            s \in States /\ (s = "error" => order[k][i] \in MayRaise)
                               /\ r[i] = Finding(k, order[k][i], s)
<1>1. DOMAIN r = DOMAIN order[k]
  BY DEF TypeOK, ScopeTypeOK
<1>2. \A i \in DOMAIN order[k] : order[k][i] \in Checks
  BY ListType DEF TypeOK, ScopeTypeOK
<1>3. \A i \in DOMAIN order[k] : Fresh(k, order[k][i], r[i])
  BY DEF AllCollected, PoolInv
<1>4. ASSUME NEW i \in DOMAIN order[k] PROVE IsFresh(i)
  BY <1>2, <1>3 DEF Fresh, TypeOK, RaisingInv
<1>5. ASSUME NEW i \in DOMAIN order[k]
      PROVE  (k = "settings" \/ r[i].check # "office_install")
                <=> (k = "settings" \/ order[k][i] # "office_install")
  BY <1>2, <1>4, OfficeByName
<1>6. {i \in DOMAIN r : k = "settings" \/ r[i].check # "office_install"} = Visible(k)
  BY <1>1, <1>5 DEF Visible
<1>7. /\ DOMAIN RowsOf(k, r) = Visible(k)
      /\ \A i \in Visible(k) : RowsOf(k, r)[i] = r[i]
  BY <1>6 DEF RowsOf
<1> QED BY <1>3, <1>7 DEF FreshRows, Visible

\* Rows that are fresh stay so while nothing they are compared with changes.
LEMMA FreshStays ==
    ASSUME NEW k \in Scopes, NEW r, FreshRows(k, r), rows'[k] = r,
           order' = order, seen' = seen, failed' = failed
    PROVE  FreshRows(k, rows[k])'
<1>1. Visible(k)' = Visible(k)
  BY DEF Visible
<1>2. CASE failed[k]
  BY <1>2 DEF FreshRows
<1>3. CASE ~failed[k]
  <2>1. \A i \in Visible(k) : Fresh(k, order[k][i], r[i])
    BY <1>3 DEF FreshRows
  <2>2. \A i \in Visible(k)' : Fresh(k, order[k][i], rows[k][i])'
    BY <1>1, <2>1 DEF Fresh
  <2>3. DOMAIN rows'[k] = Visible(k)'
    BY <1>1, <1>3 DEF FreshRows
  <2> QED BY <1>3, <2>2, <2>3 DEF FreshRows
<1> QED BY <1>2, <1>3

\* What EndScope and EndFailedScope have in common.
EndOf(k) ==
    /\ scope[k] = "running" /\ scope' = [scope EXCEPT ![k] = "ended"]
    /\ Forget(k)
    /\ \A i \in DOMAIN order[k] : task[k][i] \in {"unsubmitted", "finished"}
    /\ UNCHANGED <<pc, seen, changes, phase, raised, order, task, failed, rendered>>

LEMMA KeepEnd ==
    ASSUME NEW k \in Scopes, NEW v, IInv, EndOf(k),
           rows' = [rows EXCEPT ![k] = v], FreshRows(k, v),
           \A i \in DOMAIN v : v[i] \in Findings,
           summary' \in [Summarised -> {"unread"} \cup States]
    PROVE  IInv'
<1> USE DEF IInv
<1>0. EndOf(k)
  OBVIOUS
<1> USE DEF EndOf
<1>1. /\ found' = [found EXCEPT ![k] = [i \in DOMAIN order[k] |-> NotCollected]]
      /\ results' = [results EXCEPT ![k] = [i \in DOMAIN order[k] |-> NotCollected]]
  BY <1>0 DEF Forget, AllRows
<1>2. ASSUME NEW q \in Scopes PROVE ScopeTypeOK(q)'
  BY <1>0, <1>1 DEF TypeOK, ScopeTypeOK
<1>3. TypeOK'
  BY <1>0, <1>1, <1>2 DEF TypeOK
<1>4. phase = "refreshing" /\ ~rendered
  BY <1>0 DEF TypeOK, PhaseInv
<1>5. RaisingInv' /\ SeenInv' /\ PhaseInv'
  BY <1>0, <1>4 DEF RaisingInv, SeenInv, PhaseInv
<1>6. ASSUME NEW q \in Scopes PROVE PoolInv(q)'
  <2>1. CASE q = k
    BY <1>0, <1>1, <2>1 DEF TypeOK, PoolInv
  <2>2. CASE q # k
    BY <1>0, <1>1, <2>2 DEF TypeOK, PoolInv, Fresh
  <2> QED BY <2>1, <2>2
<1>7. ASSUME NEW q \in Scopes PROVE RowsInv(q)'
  <2>1. order' = order /\ seen' = seen /\ failed' = failed
    BY <1>0
  <2>2. CASE q = k
    <3>1. rows'[k] = v
      BY DEF TypeOK
    <3>2. FreshRows(k, rows[k])'
      BY <2>1, <3>1, FreshStays
    <3> QED BY <2>2, <3>2 DEF RowsInv
  <2>3. CASE q # k
    <3>1. rows'[q] = rows[q] /\ scope'[q] = scope[q]
      BY <1>0, <2>3 DEF TypeOK
    <3>2. SUFFICES ASSUME scope[q] = "ended" PROVE FreshRows(q, rows[q])'
      BY <3>1 DEF RowsInv
    <3>3. FreshRows(q, rows[q])
      BY <3>2 DEF RowsInv
    <3> QED BY <2>1, <3>1, <3>3, FreshStays
  <2> QED BY <2>2, <2>3
<1> QED BY <1>3, <1>5, <1>6, <1>7

LEMMA KeepEndScope == ASSUME NEW k \in Scopes PROVE IInv /\ EndScope(k) => IInv'
<1> SUFFICES ASSUME IInv, EndScope(k) PROVE IInv'
  OBVIOUS
<1> DEFINE r == results[k]
           v == RowsOf(k, r)
<1>1. \A i \in DOMAIN order[k] : task[k][i] = "finished" /\ r[i] \in Findings
  BY DEF EndScope, AllCollected, IInv, PoolInv, TypeOK, ScopeTypeOK
<1>2. EndOf(k)
  BY <1>1 DEF EndScope, EndOf
<1>3. rows' = [rows EXCEPT ![k] = v] /\ FreshRows(k, v)
  BY RowsAreFresh DEF EndScope
<1>4. DOMAIN r = DOMAIN order[k]
  BY DEF IInv, TypeOK, ScopeTypeOK
<1>5. \A i \in DOMAIN v : v[i] \in Findings
  BY <1>1, <1>4 DEF RowsOf
<1>6. summary' \in [Summarised -> {"unread"} \cup States]
  <2>1. summary \in [Summarised -> {"unread"} \cup States]
    BY DEF IInv, TypeOK
  <2>2. ASSUME NEW c \in Summarised PROVE SummaryFrom(r)[c] \in {"unread"} \cup States
    <3>1. CASE \E i \in DOMAIN r : r[i].check = c
      <4> DEFINE i == CHOOSE i \in DOMAIN r : r[i].check = c
      <4>1. i \in DOMAIN r
        BY <3>1
      <4>2. r[i].status \in States
        BY <1>1, <1>4, <4>1 DEF Findings
      <4> QED BY <3>1, <4>2 DEF SummaryFrom
    <3>2. CASE ~ \E i \in DOMAIN r : r[i].check = c
      BY <2>1, <3>2 DEF SummaryFrom
    <3> QED BY <3>1, <3>2
  <2>3. SummaryFrom(r) \in [Summarised -> {"unread"} \cup States]
    BY <2>2 DEF SummaryFrom
  <2> QED BY <2>1, <2>3 DEF EndScope
<1> HIDE DEF v
<1> QED BY <1>2, <1>3, <1>5, <1>6, KeepEnd

LEMMA KeepEndFailed == ASSUME NEW k \in Scopes PROVE IInv /\ EndFailedScope(k) => IInv'
<1> SUFFICES ASSUME IInv, EndFailedScope(k) PROVE IInv'
  OBVIOUS
<1>1. \A i \in DOMAIN order[k] : task[k][i] \in {"unsubmitted", "finished"}
  BY DEF EndFailedScope, WorkersDone, Running, Waiting, IInv, TypeOK, ScopeTypeOK
<1>2. EndOf(k)
  BY <1>1 DEF EndFailedScope, EndOf
<1>3. rows' = [rows EXCEPT ![k] = <<>>] /\ FreshRows(k, <<>>)
  BY DEF EndFailedScope, FreshRows
<1>4. \A i \in DOMAIN <<>> : <<>>[i] \in Findings
  OBVIOUS
<1>5. summary' \in [Summarised -> {"unread"} \cup States]
  BY DEF EndFailedScope, IInv, TypeOK
<1> QED BY <1>2, <1>3, <1>4, <1>5, KeepEnd

-----------------------------------------------------------------------------
(* Theorems *)

LEMMA KeepStutter == IInv /\ UNCHANGED vars => IInv'
BY DEF IInv, vars, pools, models, TypeOK, ScopeTypeOK, RaisingInv, SeenInv, PhaseInv,
       PoolInv, RowsInv, FreshRows, Fresh, Visible

THEOREM Invariance == Spec => []IInv
<1>1. ASSUME IInv, [Next]_vars PROVE IInv'
  BY <1>1, KeepStart, KeepRender, KeepPcChanges, KeepRun, KeepTake, KeepFinish,
     KeepCollect, KeepEndScope, KeepEndFailed, KeepStutter
     DEF Next, Work, InnerPool
<1> QED BY <1>1, InitInv, PTL DEF Spec

\* Every state has its type.
THEOREM TypeCorrect == Spec => []TypeOK
<1>1. IInv => TypeOK
  BY DEF IInv
<1> QED BY <1>1, Invariance, PTL

\* The page shows, in every place of both tables, what the check of that
\* place could find while the last refresh ran.
THEOREM ShownRowsFresh == Spec => []ShownIsFresh
<1>1. IInv => ShownIsFresh
  BY DEF IInv, ShownIsFresh, PhaseInv, RowsInv
<1> QED BY <1>1, Invariance, PTL

\* No thread of a pool outlives the refresh.
THEOREM NoThreadLeft == Spec => []QuietWhenIdle
<1>1. IInv => QuietWhenIdle
  BY DEF IInv, QuietWhenIdle, PhaseInv, PoolInv, Running, Waiting
<1> QED BY <1>1, Invariance, PTL
-----------------------------------------------------------------------------
(* Every refresh comes to its end: somebody can go on, and whoever does     *)
(* leaves less to do.                                                       *)

\* A scope of a refresh has begun, and unless its pool failed all its checks
\* are in the queue.
SubmitInv(k) ==
    /\ phase = "refreshing" => scope[k] # "new"
    /\ scope[k] = "running" /\ ~failed[k] =>
          \A i \in DOMAIN order[k] : task[k][i] # "unsubmitted"

LEMMA InitSubmit == Init => \A k \in Scopes : SubmitInv(k)
BY DEF Init, SubmitInv

LEMMA KeepSubmit ==
    ASSUME IInv, \A k \in Scopes : SubmitInv(k), [Next]_vars
    PROVE  \A k \in Scopes : SubmitInv(k)'
<1> SUFFICES ASSUME NEW q \in Scopes PROVE SubmitInv(q)'
  OBVIOUS
<1>0. SubmitInv(q) /\ TypeOK
  BY DEF IInv
<1>1. CASE StartRefresh
  BY <1>1 DEF StartRefresh, SubmitInv
<1>2. CASE EndRefresh \/ RenderAgain \/ UNCHANGED vars \/ \E c \in Checks : PcChanges(c)
  BY <1>0, <1>2 DEF EndRefresh, RenderAgain, PcChanges, vars, pools, SubmitInv
<1>3. ASSUME NEW k \in Scopes, RunScope(k) PROVE SubmitInv(q)'
  <2>1. DOMAIN order[k] = 1 .. Len(order[k]) /\ Len(order[k]) \in Nat
    BY <1>0, ListType DEF TypeOK, ScopeTypeOK
  <2>2. PICK n \in 0 .. Len(order[k]), fails \in BOOLEAN :
           /\ IF fails THEN n # 1 /\ Len(order[k]) > 0 ELSE n = Len(order[k])
           /\ failed' = [failed EXCEPT ![k] = fails]
           /\ task' = [task EXCEPT ![k] = [i \in DOMAIN order[k] |->
                          IF i <= n THEN "queued" ELSE "unsubmitted"]]
    BY <1>3 DEF RunScope
  <2>3. scope' = [scope EXCEPT ![k] = "running"] /\ UNCHANGED <<phase, order>>
    BY <1>3 DEF RunScope
  <2> QED BY <1>0, <2>1, <2>2, <2>3 DEF TypeOK, SubmitInv
<1>4. ASSUME NEW k \in Scopes, NEW i \in DOMAIN order[k],
             TakeTask(k, i) \/ FinishTask(k, i) \/ Collect(k, i)
      PROVE  SubmitInv(q)'
  <2>1. \/ task' = task
        \/ task' = [task EXCEPT ![k][i] = "running"]
        \/ task' = [task EXCEPT ![k][i] = "finished"]
    BY <1>4 DEF TakeTask, FinishTask, Collect
  <2>2. UNCHANGED <<phase, scope, order, failed>>
    BY <1>4 DEF TakeTask, FinishTask, Collect
  <2> QED BY <1>0, <2>1, <2>2 DEF TypeOK, ScopeTypeOK, SubmitInv
<1>5. ASSUME NEW k \in Scopes, EndScope(k) \/ EndFailedScope(k) PROVE SubmitInv(q)'
  <2>1. scope' = [scope EXCEPT ![k] = "ended"] /\ UNCHANGED <<phase, order, task, failed>>
    BY <1>5 DEF EndScope, EndFailedScope
  <2> QED BY <1>0, <2>1 DEF TypeOK, SubmitInv
<1> QED BY <1>1, <1>2, <1>3, <1>4, <1>5 DEF Next, Work, InnerPool

LEMMA NotStuck ==
    ASSUME IInv, \A k \in Scopes : SubmitInv(k)
    PROVE  NeverStuck
<1> SUFFICES ASSUME phase = "refreshing", NEW k \in Scopes, scope[k] # "ended",
                    scope[k] # "submitted", Running(k) = {},
                    ~ (FreeWorker(k) /\ Waiting(k) # {}),
                    \A i \in DOMAIN order[k] :
                       ~ (Collectable(k, i) /\ results[k][i] = NotCollected)
             PROVE  \/ scope[k] = "running" /\ ~failed[k] /\ AllCollected(k)
                    \/ scope[k] = "running" /\ failed[k] /\ WorkersDone(k)
  BY DEF NeverStuck
<1>1. scope[k] = "running"
  BY DEF IInv, TypeOK, SubmitInv
<1>2. FreeWorker(k)
  <2>1. Cardinality(Running(k)) = 0
    BY FS_EmptySet
  <2> QED BY <2>1, RefreshAssumption DEF FreeWorker
<1>3. Waiting(k) = {} /\ WorkersDone(k)
  BY <1>2 DEF WorkersDone
<1>4. ASSUME ~failed[k] PROVE AllCollected(k)
  <2>1. \A i \in DOMAIN order[k] : task[k][i] = "finished"
    BY <1>1, <1>3, <1>4 DEF IInv, TypeOK, ScopeTypeOK, SubmitInv, Running, Waiting
  <2> QED BY <1>1, <1>4, <2>1 DEF AllCollected, Collectable
<1> QED BY <1>1, <1>3, <1>4

\* There are as many places as checks in a list, so what is in them is counted.
LEMMA Counts ==
    ASSUME IInv, NEW k \in Scopes, NEW S, S \subseteq DOMAIN order[k]
    PROVE  /\ Len(order[k]) \in Nat
           /\ IsFiniteSet(S) /\ Cardinality(S) \in Nat /\ Cardinality(S) <= Len(order[k])
<1>1. DOMAIN order[k] = 1 .. Len(order[k]) /\ Len(order[k]) \in Nat
  BY ListType DEF IInv, TypeOK, ScopeTypeOK
<1>2. IsFiniteSet(1 .. Len(order[k])) /\ Cardinality(1 .. Len(order[k])) = Len(order[k])
  BY <1>1, FS_Interval
<1>3. IsFiniteSet(S) /\ Cardinality(S) <= Len(order[k])
  BY <1>1, <1>2, FS_Subset
<1>4. Cardinality(S) \in Nat
  BY <1>3, FS_CardinalityType
<1> QED BY <1>1, <1>3, <1>4

LEMMA StepsType ==
    ASSUME IInv, NEW k \in Scopes
    PROVE  /\ StepsOf(k) \in Nat
           /\ Len(order[k]) \in Nat
           /\ Cardinality(Waiting(k)) \in Nat /\ Cardinality(Running(k)) \in Nat
           /\ Cardinality(Uncollected(k)) \in Nat
<1>1. /\ Waiting(k) \subseteq DOMAIN order[k] /\ Running(k) \subseteq DOMAIN order[k]
      /\ Uncollected(k) \subseteq DOMAIN order[k]
  BY DEF Waiting, Running, Uncollected
<1>2. /\ Len(order[k]) \in Nat
      /\ Cardinality(Waiting(k)) \in Nat /\ Cardinality(Running(k)) \in Nat
      /\ Cardinality(Uncollected(k)) \in Nat
  BY <1>1, Counts
<1> QED BY <1>2 DEF StepsOf

\* The other scope has as much to do as before.
LEMMA OtherSteps ==
    ASSUME NEW k \in Scopes, scope'[k] = scope[k], order'[k] = order[k],
           task'[k] = task[k], results'[k] = results[k]
    PROVE  StepsOf(k)' = StepsOf(k)
<1>1. Waiting(k)' = Waiting(k) /\ Running(k)' = Running(k) /\ Uncollected(k)' = Uncollected(k)
  BY DEF Waiting, Running, Uncollected
<1> QED BY <1>1 DEF StepsOf

LEMMA RunCounts ==
    ASSUME IInv, NEW k \in Scopes, RunScope(k)
    PROVE  StepsOf(k)' < StepsOf(k)
<1>1. scope[k] = "submitted" /\ scope'[k] = "running" /\ order' = order
  BY DEF RunScope, IInv, TypeOK
<1>2. PICK n \in 0 .. Len(order[k]) :
         task' = [task EXCEPT ![k] = [i \in DOMAIN order[k] |->
                     IF i <= n THEN "queued" ELSE "unsubmitted"]]
  BY DEF RunScope
<1>3. Running(k)' = {}
  BY <1>1, <1>2 DEF Running, IInv, TypeOK
<1>4. Cardinality(Running(k)') = 0
  BY <1>3, FS_EmptySet
<1>5. Waiting(k)' \subseteq DOMAIN order[k] /\ Uncollected(k)' \subseteq DOMAIN order[k]
  BY <1>1 DEF Waiting, Uncollected
<1>6. /\ Cardinality(Waiting(k)') \in Nat /\ Cardinality(Waiting(k)') <= Len(order[k])
      /\ Cardinality(Uncollected(k)') \in Nat /\ Cardinality(Uncollected(k)') <= Len(order[k])
      /\ Len(order[k]) \in Nat
  BY <1>5, Counts
<1>7. StepsOf(k) = 3 * Len(order[k]) + 2
  BY <1>1 DEF StepsOf
<1>8. StepsOf(k)' = 2 * Cardinality(Waiting(k)') + Cardinality(Running(k)')
                    + Cardinality(Uncollected(k)') + 1
  BY <1>1 DEF StepsOf
<1> QED BY <1>4, <1>6, <1>7, <1>8

LEMMA TakeCounts ==
    ASSUME IInv, NEW k \in Scopes, NEW i \in DOMAIN order[k], TakeTask(k, i)
    PROVE  StepsOf(k)' < StepsOf(k)
<1>1. /\ task[k][i] = "queued" /\ task' = [task EXCEPT ![k][i] = "running"]
      /\ UNCHANGED <<scope, order, results>>
  BY DEF TakeTask, Waiting
<1>2. scope[k] = "running"
  BY <1>1 DEF IInv, PoolInv
<1>3. Waiting(k)' = Waiting(k) \ {i} /\ i \in Waiting(k)
  BY <1>1 DEF Waiting, IInv, TypeOK, ScopeTypeOK
<1>4. Running(k)' = Running(k) \cup {i} /\ i \notin Running(k)
  BY <1>1 DEF Running, IInv, TypeOK, ScopeTypeOK
<1>5. Uncollected(k)' = Uncollected(k)
  BY <1>1 DEF Uncollected
<1>6. IsFiniteSet(Waiting(k)) /\ IsFiniteSet(Running(k))
  <2>1. Waiting(k) \subseteq DOMAIN order[k] /\ Running(k) \subseteq DOMAIN order[k]
    BY DEF Waiting, Running
  <2> QED BY <2>1, Counts
<1>7. Cardinality(Waiting(k)') = Cardinality(Waiting(k)) - 1
  BY <1>3, <1>6, FS_RemoveElement
<1>8. Cardinality(Running(k)') = Cardinality(Running(k)) + 1
  BY <1>4, <1>6, FS_AddElement
<1>9. StepsOf(k) = 2 * Cardinality(Waiting(k)) + Cardinality(Running(k))
                   + Cardinality(Uncollected(k)) + 1
  BY <1>2 DEF StepsOf
<1>10. StepsOf(k)' = 2 * Cardinality(Waiting(k)') + Cardinality(Running(k)')
                     + Cardinality(Uncollected(k)') + 1
  BY <1>1, <1>2 DEF StepsOf
<1> QED BY <1>5, <1>7, <1>8, <1>9, <1>10, StepsType

LEMMA FinishCounts ==
    ASSUME IInv, NEW k \in Scopes, NEW i \in DOMAIN order[k], FinishTask(k, i)
    PROVE  StepsOf(k)' < StepsOf(k)
<1>1. /\ task[k][i] = "running" /\ task' = [task EXCEPT ![k][i] = "finished"]
      /\ UNCHANGED <<scope, order, results>>
  BY DEF FinishTask
<1>2. scope[k] = "running"
  BY <1>1 DEF IInv, PoolInv
<1>3. Waiting(k)' = Waiting(k) /\ Uncollected(k)' = Uncollected(k)
  BY <1>1 DEF Waiting, Uncollected, IInv, TypeOK, ScopeTypeOK
<1>4. Running(k)' = Running(k) \ {i} /\ i \in Running(k)
  BY <1>1 DEF Running, IInv, TypeOK, ScopeTypeOK
<1>5. IsFiniteSet(Running(k))
  <2>1. Running(k) \subseteq DOMAIN order[k]
    BY DEF Running
  <2> QED BY <2>1, Counts
<1>6. Cardinality(Running(k)') = Cardinality(Running(k)) - 1
  BY <1>4, <1>5, FS_RemoveElement
<1>7. StepsOf(k) = 2 * Cardinality(Waiting(k)) + Cardinality(Running(k))
                   + Cardinality(Uncollected(k)) + 1
  BY <1>2 DEF StepsOf
<1>8. StepsOf(k)' = 2 * Cardinality(Waiting(k)') + Cardinality(Running(k)')
                    + Cardinality(Uncollected(k)') + 1
  BY <1>1, <1>2 DEF StepsOf
<1> QED BY <1>3, <1>6, <1>7, <1>8, StepsType

LEMMA CollectCounts ==
    ASSUME IInv, NEW k \in Scopes, NEW i \in DOMAIN order[k], Collect(k, i)
    PROVE  StepsOf(k)' < StepsOf(k)
<1>1. /\ scope[k] = "running" /\ task[k][i] = "finished" /\ results[k][i] = NotCollected
      /\ results' = [results EXCEPT ![k][i] = found[k][i]]
      /\ UNCHANGED <<scope, order, task>>
  BY DEF Collect, Collectable
<1>2. found[k][i] # NotCollected
  <2>1. Fresh(k, order[k][i], found[k][i])
    BY <1>1 DEF IInv, PoolInv
  <2>2. order[k][i] \in Checks
    BY ListType DEF IInv, TypeOK, ScopeTypeOK
  <2>3. seen[order[k][i]] \subseteq States
    BY <2>2 DEF IInv, TypeOK
  <2> QED BY <2>1, <2>2, <2>3, FindingType DEF Fresh
<1>3. Waiting(k)' = Waiting(k) /\ Running(k)' = Running(k)
  BY <1>1 DEF Waiting, Running
<1>4. Uncollected(k)' = Uncollected(k) \ {i} /\ i \in Uncollected(k)
  BY <1>1, <1>2 DEF Uncollected, IInv, TypeOK, ScopeTypeOK
<1>5. IsFiniteSet(Uncollected(k))
  <2>1. Uncollected(k) \subseteq DOMAIN order[k]
    BY DEF Uncollected
  <2> QED BY <2>1, Counts
<1>6. Cardinality(Uncollected(k)') = Cardinality(Uncollected(k)) - 1
  BY <1>4, <1>5, FS_RemoveElement
<1>7. StepsOf(k) = 2 * Cardinality(Waiting(k)) + Cardinality(Running(k))
                   + Cardinality(Uncollected(k)) + 1
  BY <1>1 DEF StepsOf
<1>8. StepsOf(k)' = 2 * Cardinality(Waiting(k)') + Cardinality(Running(k)')
                    + Cardinality(Uncollected(k)') + 1
  BY <1>1 DEF StepsOf
<1> QED BY <1>3, <1>6, <1>7, <1>8, StepsType

LEMMA EndCounts ==
    ASSUME IInv, NEW k \in Scopes, EndScope(k) \/ EndFailedScope(k)
    PROVE  StepsOf(k)' < StepsOf(k)
<1>1. scope[k] = "running" /\ scope'[k] = "ended"
  BY DEF EndScope, EndFailedScope, IInv, TypeOK
<1>2. StepsOf(k) = 2 * Cardinality(Waiting(k)) + Cardinality(Running(k))
                   + Cardinality(Uncollected(k)) + 1
  BY <1>1 DEF StepsOf
<1>3. StepsOf(k)' = 0
  BY <1>1 DEF StepsOf
<1> QED BY <1>2, <1>3, StepsType

LEMMA CountsDown ==
    ASSUME IInv, [Next]_vars, phase = "refreshing",
           \A k \in Scopes : StepsOf(k)' \in Nat
    PROVE  StepsLeft' < StepsLeft \/ UNCHANGED <<phase, pools>>
<1>1. CASE UNCHANGED vars \/ \E c \in Checks : PcChanges(c)
  BY <1>1 DEF vars, PcChanges
<1>2. CASE StartRefresh \/ RenderAgain
  BY <1>2 DEF StartRefresh, RenderAgain
<1>3. CASE EndRefresh
  <2>1. \A k \in Scopes : StepsOf(k)' = StepsOf(k)
    BY <1>3, OtherSteps DEF EndRefresh, pools
  <2>2. StepsOf("settings") \in Nat /\ StepsOf("pc_checks") \in Nat
    BY StepsType DEF Scopes
  <2>3. phase' = "idle"
    BY <1>3 DEF EndRefresh
  <2> QED BY <2>1, <2>2, <2>3 DEF StepsLeft, Scopes
<1>4. ASSUME NEW k \in Scopes, InnerPool(k) PROVE StepsLeft' < StepsLeft
  <2>1. StepsOf(k)' < StepsOf(k)
    BY <1>4, RunCounts, TakeCounts, FinishCounts, CollectCounts, EndCounts DEF InnerPool
  <2>2. ASSUME NEW q \in Scopes, q # k PROVE StepsOf(q)' = StepsOf(q)
    <3>1. /\ scope'[q] = scope[q] /\ order'[q] = order[q]
          /\ task'[q] = task[q] /\ results'[q] = results[q]
      BY <1>4, <2>2 DEF InnerPool, RunScope, TakeTask, FinishTask, Collect, EndScope,
                        EndFailedScope, Forget, IInv, TypeOK
    <3> QED BY <3>1, OtherSteps
  <2>3. phase' = phase
    BY <1>4 DEF InnerPool, RunScope, TakeTask, FinishTask, Collect, EndScope, EndFailedScope
  <2>4. \A q \in Scopes : StepsOf(q) \in Nat /\ StepsOf(q)' \in Nat
    BY StepsType
  <2> QED BY <2>1, <2>2, <2>3, <2>4 DEF StepsLeft, Scopes
<1> QED BY <1>1, <1>2, <1>3, <1>4 DEF Next, Work

LEMMA SubmitInvariance == Spec => []\A k \in Scopes : SubmitInv(k)
<1>1. ASSUME IInv, \A k \in Scopes : SubmitInv(k), [Next]_vars
      PROVE  (\A k \in Scopes : SubmitInv(k))'
  BY <1>1, KeepSubmit
<1> QED BY <1>1, InitSubmit, Invariance, PTL DEF Spec

\* Two pools inside the tasks of a third cannot wait for each other for ever,
\* for lists of any length and pools of any size, failed ones included.
THEOREM SomebodyCanGoOn == Spec => []NeverStuck
<1>1. IInv /\ (\A k \in Scopes : SubmitInv(k)) => NeverStuck
  BY NotStuck
<1> QED BY <1>1, Invariance, SubmitInvariance, PTL

\* A refresh has a bounded number of steps, each brings its end nearer, and
\* nothing else that happens takes it away from it.
THEOREM RefreshIsFinite == Spec => RefreshCountsDown
<1> DEFINE AreSteps == \A k \in Scopes : StepsOf(k) \in Nat
<1>1. IInv => AreSteps
  BY StepsType
<1>2. ASSUME IInv, AreSteps', [Next]_vars
      PROVE  [phase = "refreshing" => StepsLeft' < StepsLeft \/ UNCHANGED <<phase, pools>>]_vars
  BY <1>2, CountsDown
<1> QED BY <1>1, <1>2, Invariance, PTL DEF Spec, RefreshCountsDown

\* Whatever checks raise and threads fail to start, the refresh goes on to its
\* end as long as threads run: all of RefreshEnds that is not fairness.
THEOREM RefreshAlwaysProgresses == Spec => RefreshProgresses
BY SomebodyCanGoOn, RefreshIsFinite DEF RefreshProgresses
=============================================================================
