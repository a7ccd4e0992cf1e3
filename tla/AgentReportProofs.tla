------------------------- MODULE AgentReportProofs -------------------------
(***************************************************************************)
(* What TLC checks of AgentReport for two reports of three posts, proved   *)
(* for any number of either: what is shown as sent is stored, a report is  *)
(* given up only with a cause, and the client implements ReportDelivery.   *)
(***************************************************************************)
EXTENDS AgentReport, FiniteSetTheorems, TLAPS

-----------------------------------------------------------------------------
(* The inductive invariant *)

\* A report is under way only with a configuration, and says so.
UnderWay ==
    /\ phase # "idle" => report > 0 /\ message = "sending"
    /\ config = "missing" => phase = "idle" /\ message \in {"waiting", "no_config"}

\* The attempts of the current report.
AttemptOK ==
    /\ phase = "collect" => attempt = 0
    /\ phase = "send" => attempt < MaxRetry /\ pcInfo = "named"

\* The PC's own data is collected first and once.
TodoOK == \A i \in DOMAIN todo : todo[i] = "pc_info" => i = 1 /\ pcInfo = "unknown"

\* Late copies and stored ones are of reports asked for.
LateOK == \A post \in late : post.report \in 1 .. report

\* The id shown is that of an entry of a report that ended.
ShownOK ==
    lastId # 0 =>
        /\ lastId \in DOMAIN stored
        /\ stored[lastId] <= report
        /\ phase # "idle" => stored[lastId] < report

IInv ==
    /\ TypeOK
    /\ UnderWay
    /\ AttemptOK
    /\ TodoOK
    /\ LateOK
    /\ ShownOK
    /\ SuccessMeansStored

-----------------------------------------------------------------------------
(* Lemmas *)

\* The token status is always one the panel has a word for.
LEMMA StatusType ==
    ASSUME TypeOK
    PROVE  WorkerTokenStatus \in
               {"no_config", "unset", "absent", "detected", "read_failed"}
BY DEF TypeOK, WorkerTokenStatus

\* Taking the head off the list of what is left to collect.
LEMMA TailOfTodo ==
    ASSUME todo \in Seq(Optional \cup {"pc_info"}), todo # <<>>
    PROVE  /\ Tail(todo) \in Seq(Optional \cup {"pc_info"})
           /\ \A i \in DOMAIN Tail(todo) :
                 i + 1 \in DOMAIN todo /\ Tail(todo)[i] = todo[i + 1] /\ i >= 1
           /\ Head(todo) = todo[1] /\ 1 \in DOMAIN todo
OBVIOUS

\* An entry added to the server's log leaves the others in their places.
LEMMA AppendStored ==
    ASSUME NEW r \in Nat, stored \in Seq(Nat)
    PROVE  LET longer == Append(stored, r) IN
           /\ longer \in Seq(Nat)
           /\ Len(longer) \in DOMAIN longer /\ Len(longer) > 0
           /\ Len(longer) \in Nat
           /\ longer[Len(longer)] = r
           /\ \A i \in DOMAIN stored : i \in DOMAIN longer /\ longer[i] = stored[i]
OBVIOUS

-----------------------------------------------------------------------------
(* The invariant is inductive *)

LEMMA InitInv == Init => IInv
<1> SUFFICES ASSUME Init PROVE IInv
  OBVIOUS
<1>1. WorkerTokenStatus \in {"no_config", "unset", "absent", "detected", "read_failed"}
  BY DEF Init, WorkerTokenStatus
<1>2. todo \in Seq(Optional \cup {"pc_info"}) /\ stored \in Seq(Nat) /\ DOMAIN todo = {}
  BY DEF Init
<1> QED BY <1>1, <1>2, ReportAssumption
        DEF Init, IInv, TypeOK, UnderWay, AttemptOK, TodoOK, LateOK, ShownOK,
            SuccessMeansStored

LEMMA KeepCollect ==
    IInv /\ (RefuseWithoutConfig \/ SendReport \/ Render \/ TokenFileChanges) => IInv'
<1> SUFFICES ASSUME IInv
             PROVE  (RefuseWithoutConfig \/ SendReport \/ Render \/ TokenFileChanges) => IInv'
  OBVIOUS
<1>0. WorkerTokenStatus \in {"no_config", "unset", "absent", "detected", "read_failed"}
  BY StatusType DEF IInv
<1>1. CASE RefuseWithoutConfig
  BY <1>0, <1>1 DEF RefuseWithoutConfig, env, server, IInv, TypeOK, UnderWay,
     AttemptOK, TodoOK, LateOK, ShownOK, SuccessMeansStored
<1>2. CASE SendReport
  <2>1. /\ <<"pc_info", "adapters", "checks", "programs">> \in Seq(Optional \cup {"pc_info"})
        /\ \A i \in DOMAIN <<"pc_info", "adapters", "checks", "programs">> :
              <<"pc_info", "adapters", "checks", "programs">>[i] = "pc_info" => i = 1
    BY DEF Optional
  <2>2. TypeOK'
    BY <1>0, <1>2, <2>1, ReportAssumption DEF SendReport, env, server, IInv, TypeOK
  <2>3. TodoOK' /\ UnderWay' /\ AttemptOK'
    BY <1>2, <2>1 DEF SendReport, env, server, IInv, TypeOK, UnderWay, AttemptOK, TodoOK
  <2>4. LateOK'
    BY <1>2 DEF SendReport, server, IInv, TypeOK, LateOK
  <2>5. ShownOK' /\ SuccessMeansStored'
    <3>1. lastId # 0 => stored[lastId] \in Nat
      BY DEF IInv, TypeOK, ShownOK
    <3> QED BY <1>2, <3>1 DEF SendReport, server, IInv, TypeOK, ShownOK, SuccessMeansStored
  <2> QED BY <2>2, <2>3, <2>4, <2>5 DEF IInv
<1>3. CASE TokenFileChanges
  BY <1>3 DEF TokenFileChanges, server, IInv, TypeOK, UnderWay,
     AttemptOK, TodoOK, LateOK, ShownOK, SuccessMeansStored
<1>4. CASE Render
  BY <1>0, <1>4 DEF Render, env, server, IInv, TypeOK, UnderWay,
     AttemptOK, TodoOK, LateOK, ShownOK, SuccessMeansStored
<1> QED BY <1>1, <1>2, <1>3, <1>4

LEMMA KeepCollecting == IInv /\ Collecting => IInv'
<1> SUFFICES ASSUME IInv PROVE Collecting => IInv'
  OBVIOUS
<1>0. WorkerTokenStatus \in {"no_config", "unset", "absent", "detected", "read_failed"}
  BY StatusType DEF IInv
<1>1. CASE CollectPcInfo
  <2>1. TypeOK' /\ TodoOK'
    BY <1>1, TailOfTodo
       DEF CollectPcInfo, env, server, IInv, TypeOK, TodoOK
  <2> QED BY <1>1, <2>1 DEF CollectPcInfo, env, server, IInv, UnderWay, AttemptOK,
          LateOK, ShownOK, SuccessMeansStored
<1>2. CASE PcInfoRaises
  <2>1. todo' \in Seq(Optional \cup {"pc_info"}) /\ DOMAIN todo' = {}
    BY <1>2 DEF PcInfoRaises
  <2> QED BY <1>0, <1>2, <2>1 DEF PcInfoRaises, End, env, server, IInv, TypeOK, UnderWay,
          AttemptOK, TodoOK, LateOK, ShownOK, SuccessMeansStored
<1>3. CASE CollectOptional
  <2>1. TypeOK' /\ TodoOK'
    BY <1>3, TailOfTodo
       DEF CollectOptional, env, server, IInv, TypeOK, TodoOK
  <2> QED BY <1>3, <2>1 DEF CollectOptional, env, server, IInv, UnderWay, AttemptOK,
          LateOK, ShownOK, SuccessMeansStored
<1>4. CASE BuildReport
  BY <1>0, <1>4, ReportAssumption DEF BuildReport, End, env, server, IInv, TypeOK,
     UnderWay, AttemptOK, TodoOK, LateOK, ShownOK, SuccessMeansStored
<1> QED BY <1>1, <1>2, <1>3, <1>4 DEF Collecting

\* A failed attempt, whatever became of its request.
LEMMA AttemptFailsEffect ==
    ASSUME IInv, AttemptFails
    PROVE  /\ attempt' \in 1 .. MaxRetry
           /\ phase' \in {"idle", "send"}
           /\ phase' = "send" => attempt' < MaxRetry /\ message' = "sending"
           /\ phase' = "idle" => attempt' = MaxRetry /\ message' = "failed"
           /\ tokenStatus' \in {"no_config", "unset", "absent", "detected", "read_failed"}
<1>1. /\ attempt \in Nat /\ attempt < MaxRetry /\ message = "sending"
      /\ phase = "send"
      /\ tokenStatus \in {"no_config", "unset", "absent", "detected", "read_failed"}
  BY DEF AttemptFails, IInv, TypeOK, AttemptOK, UnderWay
<1>2. WorkerTokenStatus \in {"no_config", "unset", "absent", "detected", "read_failed"}
  BY StatusType DEF IInv
<1> QED BY <1>1, <1>2, ReportAssumption DEF AttemptFails, End

LEMMA KeepPosting == IInv /\ Posting => IInv'
<1> SUFFICES ASSUME IInv PROVE Posting => IInv'
  OBVIOUS
<1>0. WorkerTokenStatus \in {"no_config", "unset", "absent", "detected", "read_failed"}
  BY StatusType DEF IInv
<1>1. report \in Nat /\ stored \in Seq(Nat)
  BY DEF IInv, TypeOK
<1>2. /\ Append(stored, report) \in Seq(Nat)
      /\ Len(Append(stored, report)) \in DOMAIN Append(stored, report)
      /\ Len(Append(stored, report)) \in Nat
      /\ Append(stored, report)[Len(Append(stored, report))] = report
      /\ \A i \in DOMAIN stored : i \in DOMAIN Append(stored, report)
                                  /\ Append(stored, report)[i] = stored[i]
  BY <1>1, AppendStored
<1>3. CASE PostAnswered
  <2>1. TypeOK' /\ LateOK' /\ TodoOK'
    BY <1>0, <1>2, <1>3, ReportAssumption
       DEF PostAnswered, End, env, IInv, TypeOK, AttemptOK, LateOK, TodoOK
  <2>2. UnderWay' /\ AttemptOK'
    BY <1>3 DEF PostAnswered, End, env, IInv, UnderWay, AttemptOK
  <2>3. ShownOK' /\ SuccessMeansStored'
    BY <1>1, <1>2, <1>3 DEF PostAnswered, End, ShownOK, SuccessMeansStored
  <2> QED BY <2>1, <2>2, <2>3 DEF IInv
<1>4. ASSUME AttemptFails, UNCHANGED <<env, todo, pcInfo, report, lastId>>,
             stored' \in {stored, Append(stored, report)},
             late' \subseteq late \cup {[report |-> report, attempt |-> attempt']}
      PROVE  IInv'
  <2>1. TypeOK'
    <3>1. [report |-> report, attempt |-> attempt'] \in Posts
      BY <1>1, <1>4, AttemptFailsEffect DEF Posts
    <3>2. late' \subseteq Posts /\ stored' \in Seq(Nat)
      BY <1>1, <1>2, <1>4, <3>1 DEF IInv, TypeOK
    <3>3. attempt' \in 0 .. MaxRetry
      BY <1>4, AttemptFailsEffect, ReportAssumption
    <3> QED BY <1>4, <3>2, <3>3, AttemptFailsEffect DEF env, IInv, TypeOK
  <2>2. UnderWay' /\ AttemptOK' /\ TodoOK'
    BY <1>4, AttemptFailsEffect
       DEF AttemptFails, env, IInv, UnderWay, AttemptOK, TodoOK
  <2>3. LateOK'
    <3>1. report \in 1 .. report
      BY <1>1, <1>4 DEF AttemptFails, IInv, UnderWay
    <3> QED BY <1>4, <3>1 DEF IInv, LateOK
  <2>4. ShownOK'
    <3>1. phase # "idle"
      BY <1>4 DEF AttemptFails
    <3> QED BY <1>1, <1>2, <1>4, <3>1 DEF IInv, ShownOK
  <2>5. SuccessMeansStored'
    BY <1>4, AttemptFailsEffect DEF SuccessMeansStored
  <2> QED BY <2>1, <2>2, <2>3, <2>4, <2>5 DEF IInv
<1>5. CASE PostRefused
  BY <1>4, <1>5 DEF PostRefused, server
<1>6. CASE PostUnanswered
  BY <1>4, <1>6 DEF PostUnanswered
<1>7. CASE PostTimesOut
  BY <1>4, <1>7 DEF PostTimesOut
<1> QED BY <1>3, <1>5, <1>6, <1>7 DEF Posting

LEMMA KeepLate == IInv /\ LateArrives => IInv'
<1> SUFFICES ASSUME IInv, LateArrives PROVE IInv'
  OBVIOUS
<1>1. PICK post \in late : LateArrives!(post)
  BY DEF LateArrives
<1>2. post.report \in Nat /\ stored \in Seq(Nat)
  BY <1>1 DEF IInv, TypeOK, Posts
<1>3. /\ stored' \in Seq(Nat)
      /\ \A i \in DOMAIN stored : i \in DOMAIN stored' /\ stored'[i] = stored[i]
  BY <1>1, <1>2, AppendStored
<1>4. TypeOK' /\ LateOK'
  BY <1>1, <1>3 DEF env, IInv, TypeOK, LateOK
<1>5. ShownOK' /\ SuccessMeansStored'
  BY <1>1, <1>3 DEF IInv, ShownOK, SuccessMeansStored
<1> QED BY <1>1, <1>4, <1>5 DEF env, IInv, UnderWay, AttemptOK, TodoOK

LEMMA StepInv == IInv /\ [Next]_vars => IInv'
<1>1. IInv /\ UNCHANGED vars => IInv'
  BY DEF vars, IInv, TypeOK, UnderWay, AttemptOK, TodoOK, LateOK, ShownOK,
     SuccessMeansStored
<1> QED BY <1>1, KeepCollect, KeepCollecting, KeepPosting, KeepLate
        DEF Next, Collecting, Posting

LEMMA Inductive == Spec => []IInv
BY InitInv, StepInv, PTL DEF Spec

-----------------------------------------------------------------------------
(* Theorems *)

\* The state keeps its type, for any number of reports and attempts.
THEOREM TypeCorrect == Spec => []TypeOK
BY Inductive, PTL DEF IInv

\* A report shown as sent is on the server under the id shown.
THEOREM SuccessStored == Spec => []SuccessMeansStored
BY Inductive, PTL DEF IInv

\* send_report gives a report up only without the PC's own data or after all
\* attempts.
THEOREM GivesUp == Spec => GivesUpOnlyWithCause
<1> DEFINE Cause == phase # "idle" /\ message' = "failed"
                        => pcInfo # "named" \/ attempt' = MaxRetry
<1>1. IInv /\ [Next]_vars => [Cause]_vars
  <2> SUFFICES ASSUME IInv, Next, phase # "idle", message' = "failed"
               PROVE  pcInfo # "named" \/ attempt' = MaxRetry
    OBVIOUS
  <2>1. message = "sending"
    BY DEF IInv, UnderWay
  <2>2. CASE PcInfoRaises
    <3>1. todo[1] = "pc_info" /\ 1 \in DOMAIN todo
      BY <2>2, TailOfTodo DEF PcInfoRaises, IInv, TypeOK
    <3> QED BY <3>1 DEF IInv, TodoOK
  <2>3. CASE AttemptFails
    BY <2>3, AttemptFailsEffect DEF IInv
  <2>4. CASE BuildReport
    BY <2>1, <2>4 DEF BuildReport
  <2>5. ~(RefuseWithoutConfig \/ SendReport \/ CollectPcInfo \/ CollectOptional
            \/ PostAnswered \/ LateArrives \/ TokenFileChanges \/ Render)
    BY <2>1 DEF RefuseWithoutConfig, SendReport, Render, CollectPcInfo, CollectOptional,
       PostAnswered, End, LateArrives, TokenFileChanges
  <2> QED BY <2>2, <2>3, <2>4, <2>5
          DEF Next, PostRefused, PostUnanswered, PostTimesOut
<1> QED BY <1>1, Inductive, PTL DEF Spec, GivesUpOnlyWithCause

\* The id shown moves from an older report to the current one.
THEOREM ShownForward == Spec => ShownGoesForward
<1> DEFINE Forward == lastId' # lastId =>
                        /\ stored'[lastId'] = report
                        /\ lastId # 0 => stored[lastId] < stored'[lastId']
<1>1. IInv /\ [Next]_vars => [Forward]_vars
  <2> SUFFICES ASSUME IInv, Next, lastId' # lastId PROVE Forward
    OBVIOUS
  <2>1. PostAnswered
    BY DEF Next, RefuseWithoutConfig, SendReport, Render, CollectPcInfo, PcInfoRaises,
       CollectOptional, BuildReport, PostAnswered, PostRefused, PostUnanswered,
       PostTimesOut, LateArrives, TokenFileChanges
  <2>2. report \in Nat /\ stored \in Seq(Nat)
    BY DEF IInv, TypeOK
  <2>3. stored'[lastId'] = report
    BY <2>1, <2>2, AppendStored DEF PostAnswered
  <2>4. lastId # 0 => stored[lastId] < report
    BY <2>1 DEF PostAnswered, IInv, ShownOK
  <2> QED BY <2>3, <2>4
<1> QED BY <1>1, Inductive, PTL DEF Spec, ShownGoesForward

\* AgentReport implements ReportDelivery: at least once for what it confirms.
THEOREM ImplementsDelivery == Spec => DeliveryImplemented
<1>1. Init => Delivery!Init
  BY DEF Init, Delivery!Init
<1>2. IInv /\ [Next]_vars => [Delivery!Next]_(Delivery!vars)
  <2> SUFFICES ASSUME IInv, [Next]_vars PROVE [Delivery!Next]_(Delivery!vars)
    OBVIOUS
  <2>1. report \in Nat /\ (phase # "idle" => message = "sending" /\ report \in 1 .. report)
    BY DEF IInv, TypeOK, UnderWay
  <2>2. CASE UNCHANGED vars
    BY <2>2 DEF vars, Delivery!vars
  <2>3. CASE RefuseWithoutConfig
    BY <2>3 DEF RefuseWithoutConfig, server, IInv, UnderWay, Delivery!vars
  <2>4. CASE SendReport
    BY <2>4 DEF SendReport, server, Delivery!Next, Delivery!Submit
  <2>5. CASE Render \/ CollectPcInfo \/ CollectOptional \/ TokenFileChanges
    BY <2>5 DEF Render, CollectPcInfo, CollectOptional, TokenFileChanges, server, Delivery!vars
  <2>6. CASE PcInfoRaises \/ BuildReport
    BY <2>6 DEF PcInfoRaises, BuildReport, End, server, Delivery!vars,
       Delivery!Next, Delivery!GiveUp
  <2>7. CASE PostAnswered
    BY <2>7 DEF PostAnswered, End, Delivery!Next, Delivery!Confirm
  <2>8. CASE PostRefused \/ PostTimesOut
    BY <2>8, AttemptFailsEffect DEF PostRefused, PostTimesOut, AttemptFails, server,
       Delivery!vars, Delivery!Next, Delivery!GiveUp
  <2>9. CASE PostUnanswered
    <3>1. /\ phase = "send" /\ phase' \in {"idle", "send"}
          /\ phase' = "idle" => message' = "failed"
          /\ stored' = Append(stored, report) /\ report' = report
      BY <2>9, AttemptFailsEffect DEF PostUnanswered, AttemptFails
    <3> QED BY <2>1, <3>1 DEF Delivery!Next, Delivery!Arrive
  <2>10. CASE LateArrives
    <3>1. PICK post \in late : LateArrives!(post)
      BY <2>10 DEF LateArrives
    <3>2. post.report \in 1 .. report
      BY <3>1 DEF IInv, LateOK
    <3> QED BY <3>1, <3>2 DEF Delivery!Next, Delivery!Arrive
  <2> QED BY <2>2, <2>3, <2>4, <2>5, <2>6, <2>7, <2>8, <2>9, <2>10 DEF Next
<1> QED BY <1>1, <1>2, Inductive, PTL DEF Spec, DeliveryImplemented, Delivery!Spec

-----------------------------------------------------------------------------
(* Counting copies *)

Entries(log, r) == {i \in DOMAIN log : log[i] = r}
Waiting(posts, r) == {post \in posts : post.report = r}

\* Every copy is of a report asked for, and the copies can be counted.
CountingOK ==
    /\ IsFiniteSet(late)
    /\ \A i \in DOMAIN stored : stored[i] \in 1 .. report
    /\ CopiesBounded

\* The copies of a report in a log are finitely many.
LEMMA EntriesCount ==
    ASSUME NEW log \in Seq(Nat), NEW r
    PROVE  IsFiniteSet(Entries(log, r)) /\ Cardinality(Entries(log, r)) \in Nat
<1>1. DOMAIN log = 1 .. Len(log) /\ Len(log) \in Nat
  OBVIOUS
<1>2. IsFiniteSet(1 .. Len(log))
  BY <1>1, FS_Interval
<1>3. Entries(log, r) \in SUBSET (1 .. Len(log))
  BY <1>1 DEF Entries
<1>4. IsFiniteSet(Entries(log, r))
  BY <1>2, <1>3, FS_Subset
<1> QED BY <1>4, FS_CardinalityType

\* One more entry is one more copy of its report only.
LEMMA EntriesAppend ==
    ASSUME NEW log \in Seq(Nat), NEW x \in Nat, NEW r
    PROVE  Cardinality(Entries(Append(log, x), r)) =
               Cardinality(Entries(log, r)) + (IF x = r THEN 1 ELSE 0)
<1>1. /\ Len(log) \in Nat
      /\ DOMAIN log = 1 .. Len(log)
      /\ DOMAIN Append(log, x) = 1 .. Len(log) + 1
      /\ Append(log, x)[Len(log) + 1] = x
      /\ \A i \in 1 .. Len(log) : Append(log, x)[i] = log[i]
  OBVIOUS
<1>2. Len(log) + 1 \notin Entries(log, r)
  BY <1>1 DEF Entries
<1>3. CASE x = r
  <2>1. Entries(Append(log, x), r) = Entries(log, r) \cup {Len(log) + 1}
    BY <1>1, <1>3 DEF Entries
  <2> QED BY <1>2, <1>3, <2>1, EntriesCount, FS_AddElement
<1>4. CASE x # r
  <2>1. Entries(Append(log, x), r) = Entries(log, r)
    BY <1>1, <1>4 DEF Entries
  <2> QED BY <1>4, <2>1, EntriesCount
<1> QED BY <1>3, <1>4

LEMMA WaitingCount ==
    ASSUME NEW posts, IsFiniteSet(posts), NEW r
    PROVE  IsFiniteSet(Waiting(posts, r)) /\ Cardinality(Waiting(posts, r)) \in Nat
<1>1. Waiting(posts, r) \in SUBSET posts
  BY DEF Waiting
<1>2. IsFiniteSet(Waiting(posts, r))
  BY <1>1, FS_Subset
<1> QED BY <1>2, FS_CardinalityType

LEMMA WaitingAdd ==
    ASSUME NEW posts, IsFiniteSet(posts), NEW post, NEW r
    PROVE  Cardinality(Waiting(posts \cup {post}, r)) <=
               Cardinality(Waiting(posts, r)) + (IF post.report = r THEN 1 ELSE 0)
<1>1. CASE post.report = r
  <2>1. Waiting(posts \cup {post}, r) = Waiting(posts, r) \cup {post}
    BY <1>1 DEF Waiting
  <2>2. /\ Cardinality(Waiting(posts, r)) \in Nat
        /\ IsFiniteSet(Waiting(posts, r))
    BY WaitingCount
  <2>3. Cardinality(Waiting(posts, r) \cup {post})
            = IF post \in Waiting(posts, r) THEN Cardinality(Waiting(posts, r))
              ELSE Cardinality(Waiting(posts, r)) + 1
    BY <2>2, FS_AddElement
  <2>4. Cardinality(Waiting(posts \cup {post}, r)) = Cardinality(Waiting(posts, r) \cup {post})
    BY <2>1, Zenon
  <2>5. Cardinality(Waiting(posts, r)) \in Nat
    BY <2>2
  <2> QED BY <1>1, <2>3, <2>4, <2>5
<1>2. CASE post.report # r
  <2>1. Waiting(posts \cup {post}, r) = Waiting(posts, r)
    BY <1>2 DEF Waiting
  <2> QED BY <1>2, <2>1, WaitingCount
<1> QED BY <1>1, <1>2

LEMMA WaitingRemove ==
    ASSUME NEW posts, IsFiniteSet(posts), NEW post \in posts, NEW r
    PROVE  Cardinality(Waiting(posts \ {post}, r)) =
               Cardinality(Waiting(posts, r)) - (IF post.report = r THEN 1 ELSE 0)
<1>1. CASE post.report = r
  <2>1. Waiting(posts \ {post}, r) = Waiting(posts, r) \ {post}
        /\ post \in Waiting(posts, r)
    BY <1>1 DEF Waiting
  <2> QED BY <1>1, <2>1, WaitingCount, FS_RemoveElement
<1>2. CASE post.report # r
  <2>1. Waiting(posts \ {post}, r) = Waiting(posts, r)
    BY <1>2 DEF Waiting
  <2> QED BY <1>2, <2>1, WaitingCount
<1> QED BY <1>1, <1>2

Count(log, posts, r) == Cardinality(Entries(log, r)) + Cardinality(Waiting(posts, r))

LEMMA CopiesAre ==
    /\ CopiesBounded <=>
         \A r \in 1 .. report :
             Count(stored, late, r) <= IF r = report THEN attempt ELSE MaxRetry
    /\ CopiesBounded' <=>
         \A r \in 1 .. report' :
             Count(stored', late', r) <= IF r = report' THEN attempt' ELSE MaxRetry
BY DEF CopiesBounded, Copies, Count, Entries, Waiting

LEMMA CountType ==
    ASSUME NEW log \in Seq(Nat), NEW posts, IsFiniteSet(posts), NEW r
    PROVE  Count(log, posts, r) \in Nat
<1>1. Cardinality(Entries(log, r)) \in Nat /\ Cardinality(Waiting(posts, r)) \in Nat
  BY EntriesCount, WaitingCount
<1> QED BY <1>1 DEF Count

LEMMA CountAppend ==
    ASSUME NEW log \in Seq(Nat), NEW x \in Nat, NEW posts, IsFiniteSet(posts), NEW r
    PROVE  Count(Append(log, x), posts, r) =
               Count(log, posts, r) + (IF x = r THEN 1 ELSE 0)
<1>1. Cardinality(Entries(log, r)) \in Nat /\ Cardinality(Waiting(posts, r)) \in Nat
  BY EntriesCount, WaitingCount
<1>2. Cardinality(Entries(Append(log, x), r)) =
          Cardinality(Entries(log, r)) + (IF x = r THEN 1 ELSE 0)
  BY EntriesAppend
<1> QED BY <1>1, <1>2 DEF Count

LEMMA CountAdd ==
    ASSUME NEW log \in Seq(Nat), NEW posts, IsFiniteSet(posts), NEW post, NEW r
    PROVE  /\ IsFiniteSet(posts \cup {post})
           /\ Count(log, posts \cup {post}, r) <=
                  Count(log, posts, r) + (IF post.report = r THEN 1 ELSE 0)
<1>1. IsFiniteSet(posts \cup {post})
  BY FS_AddElement
<1>2. /\ Cardinality(Entries(log, r)) \in Nat
      /\ Cardinality(Waiting(posts, r)) \in Nat
      /\ Cardinality(Waiting(posts \cup {post}, r)) \in Nat
  BY <1>1, EntriesCount, WaitingCount
<1>3. Cardinality(Waiting(posts \cup {post}, r)) <=
          Cardinality(Waiting(posts, r)) + (IF post.report = r THEN 1 ELSE 0)
  BY WaitingAdd
<1> QED BY <1>1, <1>2, <1>3 DEF Count

LEMMA CountRemove ==
    ASSUME NEW log \in Seq(Nat), NEW posts, IsFiniteSet(posts), NEW post \in posts, NEW r
    PROVE  /\ IsFiniteSet(posts \ {post})
           /\ Count(log, posts \ {post}, r) =
                  Count(log, posts, r) - (IF post.report = r THEN 1 ELSE 0)
<1>1. IsFiniteSet(posts \ {post})
  BY FS_RemoveElement
<1>2. /\ Cardinality(Entries(log, r)) \in Nat
      /\ Cardinality(Waiting(posts, r)) \in Nat
      /\ Cardinality(Waiting(posts \ {post}, r)) \in Nat
  BY <1>1, EntriesCount, WaitingCount
<1>3. Cardinality(Waiting(posts \ {post}, r)) =
          Cardinality(Waiting(posts, r)) - (IF post.report = r THEN 1 ELSE 0)
  BY WaitingRemove
<1> QED BY <1>1, <1>2, <1>3 DEF Count

\* A post adds at most one copy, of the current report.
LEMMA CountPosting ==
    ASSUME IInv, CountingOK, Posting
    PROVE  CountingOK'
<1>1. /\ report' = report /\ attempt' = attempt + 1
      /\ report \in 1 .. report /\ report \in Nat /\ attempt \in 0 .. MaxRetry
      /\ attempt < MaxRetry
      /\ stored \in Seq(Nat) /\ IsFiniteSet(late)
  BY DEF IInv, TypeOK, UnderWay, AttemptOK, CountingOK, Posting, PostAnswered,
     PostRefused, PostUnanswered, PostTimesOut, AttemptFails
<1>2. \/ stored' = Append(stored, report) /\ late' = late
      \/ stored' = stored /\ late' = late
      \/ stored' = stored /\ \E post : post.report = report /\ late' = late \cup {post}
  <2>1. [report |-> report, attempt |-> attempt'].report = report
    OBVIOUS
  <2> QED BY <2>1 DEF Posting, PostAnswered, PostRefused, PostUnanswered, PostTimesOut, server
<1>3. /\ IsFiniteSet(late')
      /\ \A r : Count(stored', late', r) <=
                  Count(stored, late, r) + (IF r = report THEN 1 ELSE 0)
  <2>1. CASE stored' = Append(stored, report) /\ late' = late
    BY <1>1, <2>1, CountAppend, CountType
  <2>2. CASE stored' = stored /\ late' = late
    BY <1>1, <2>2, CountType
  <2>3. CASE stored' = stored /\ \E post : post.report = report /\ late' = late \cup {post}
    <3>1. PICK post : post.report = report /\ late' = late \cup {post}
      BY <2>3
    <3>2. \A r : Count(stored, late', r) <=
                  Count(stored, late, r) + (IF post.report = r THEN 1 ELSE 0)
      BY <1>1, <3>1, CountAdd
    <3>3. IsFiniteSet(late')
      BY <1>1, <3>1, FS_AddElement
    <3> QED BY <2>3, <3>1, <3>2, <3>3
  <2> QED BY <1>2, <2>1, <2>2, <2>3
<1>4. stored' \in Seq(Nat) /\ \A i \in DOMAIN stored' : stored'[i] \in 1 .. report'
  <2>1. CASE stored' = Append(stored, report)
    BY <1>1, <2>1 DEF CountingOK
  <2> QED BY <1>1, <1>2, <2>1 DEF CountingOK
<1>5. CopiesBounded'
  <2> SUFFICES ASSUME NEW r \in 1 .. report
               PROVE  Count(stored', late', r) <=
                          IF r = report THEN attempt + 1 ELSE MaxRetry
    BY <1>1, CopiesAre
  <2>1. Count(stored, late, r) <= IF r = report THEN attempt ELSE MaxRetry
    BY CopiesAre DEF CountingOK
  <2>2. Count(stored, late, r) \in Nat /\ Count(stored', late', r) \in Nat
    BY <1>1, <1>3, <1>4, CountType
  <2>3. Count(stored', late', r) <=
            Count(stored, late, r) + (IF r = report THEN 1 ELSE 0)
    BY <1>3
  <2> QED BY <1>1, <2>1, <2>2, <2>3, ReportAssumption
<1> QED BY <1>3, <1>4, <1>5 DEF CountingOK

\* A late copy that arrives was counted while it was under way.
LEMMA CountLate ==
    ASSUME IInv, CountingOK, LateArrives
    PROVE  CountingOK'
<1>1. PICK post \in late : LateArrives!(post)
  BY DEF LateArrives
<1>2. /\ post.report \in 1 .. report /\ post.report \in Nat
      /\ stored \in Seq(Nat) /\ IsFiniteSet(late) /\ report \in Nat
      /\ report' = report /\ attempt' = attempt
      /\ stored' = Append(stored, post.report) /\ late' = late \ {post}
  BY <1>1 DEF IInv, TypeOK, Posts, LateOK, CountingOK
<1>3. IsFiniteSet(late')
  BY <1>2, CountRemove
<1>4. \A i \in DOMAIN stored' : stored'[i] \in 1 .. report'
  BY <1>2 DEF CountingOK
<1>5. ASSUME NEW r PROVE Count(stored', late', r) = Count(stored, late, r)
  <2>1. Count(stored', late', r) = Count(stored, late', r) + (IF post.report = r THEN 1 ELSE 0)
    BY <1>2, <1>3, CountAppend
  <2>2. Count(stored, late', r) = Count(stored, late, r) - (IF post.report = r THEN 1 ELSE 0)
    BY <1>2, CountRemove
  <2>3. Count(stored, late, r) \in Nat
    BY <1>2, CountType
  <2> QED BY <2>1, <2>2, <2>3
<1>6. CopiesBounded'
  BY <1>2, <1>5, CopiesAre DEF CountingOK
<1> QED BY <1>3, <1>4, <1>6 DEF CountingOK

\* A new report has no copies yet.
LEMMA CountSend ==
    ASSUME IInv, CountingOK, SendReport
    PROVE  CountingOK'
<1>1. /\ stored' = stored /\ late' = late /\ report' = report + 1 /\ attempt' = 0
      /\ report \in Nat /\ attempt \in 0 .. MaxRetry /\ stored \in Seq(Nat)
  BY DEF SendReport, server, IInv, TypeOK
<1>2. Count(stored, late, report + 1) = 0
  <2>1. Entries(stored, report + 1) = {} /\ Waiting(late, report + 1) = {}
    BY <1>1 DEF Entries, Waiting, CountingOK, IInv, LateOK
  <2> QED BY <2>1, FS_EmptySet DEF Count
<1>3. ASSUME NEW r \in 1 .. report
      PROVE  Count(stored, late, r) <= MaxRetry
  <2>1. Count(stored, late, r) <= IF r = report THEN attempt ELSE MaxRetry
    BY CopiesAre DEF CountingOK
  <2>2. Count(stored, late, r) \in Nat
    BY <1>1, CountType DEF CountingOK
  <2> QED BY <1>1, <2>1, <2>2, ReportAssumption
<1>5. CopiesBounded'
  <2> SUFFICES ASSUME NEW r \in 1 .. report + 1
               PROVE  Count(stored, late, r) <= IF r = report + 1 THEN 0 ELSE MaxRetry
    BY <1>1, CopiesAre
  <2>1. CASE r = report + 1
    BY <1>2, <2>1
  <2>2. CASE r # report + 1
    BY <1>1, <1>3, <2>2
  <2> QED BY <2>1, <2>2
<1>6. \A i \in DOMAIN stored' : stored'[i] \in 1 .. report'
  BY <1>1 DEF CountingOK
<1> QED BY <1>1, <1>5, <1>6 DEF CountingOK

\* The server never holds more copies of a report than posts were made.
THEOREM CopiesAtMostPosts == Spec => []CopiesBounded
<1>1. Init => CountingOK
  <2> SUFFICES ASSUME Init PROVE CountingOK
    OBVIOUS
  <2>1. stored = <<>> /\ late = {} /\ report = 0 /\ DOMAIN stored = {}
    BY DEF Init
  <2> QED BY <2>1, FS_EmptySet DEF CountingOK, CopiesBounded
<1>2. IInv /\ CountingOK /\ [Next]_vars => CountingOK'
  <2> SUFFICES ASSUME IInv, CountingOK, [Next]_vars PROVE CountingOK'
    OBVIOUS
  <2>1. CASE UNCHANGED <<stored, late, report, attempt>>
    BY <2>1 DEF CountingOK, CopiesBounded, Copies
  <2>2. \/ UNCHANGED <<stored, late, report, attempt>>
        \/ SendReport \/ Posting \/ LateArrives
    BY DEF Next, vars, server, RefuseWithoutConfig, Render, CollectPcInfo, PcInfoRaises,
       CollectOptional, BuildReport, TokenFileChanges, Posting
  <2> QED BY <2>1, <2>2, CountSend, CountPosting, CountLate
<1>3. CountingOK => CopiesBounded
  BY DEF CountingOK
<1> QED BY <1>1, <1>2, <1>3, Inductive, PTL DEF Spec
=============================================================================
