---------------------------- MODULE AgentReport ----------------------------
(***************************************************************************)
(* Sending the report of this PC to the server (AgentReportPanel,          *)
(* AgentReportViewModel, BuildAgentReport, HttpAgentReportClient): collect,*)
(* post, and post the same report again when no good answer came.          *)
(*                                                                         *)
(* The server is outside the repository: it stores every copy it accepts   *)
(* and answers with the id of the new entry.  A request the client stopped *)
(* waiting for may still reach it later, between any two steps.            *)
(*                                                                         *)
(* The panel blocks the GUI thread, so is_busy is never found set.         *)
(* Bounded: at most MaxReports reports.                                    *)
(***************************************************************************)
EXTENDS Naturals, Sequences, FiniteSets

CONSTANTS MaxRetry, MaxReports

\* load_agent_config raises a smaller maxRetryCount to 1.
ASSUME ReportAssumption ==
    /\ MaxRetry \in Nat \ {0}
    /\ MaxReports \in Nat

VARIABLES
    config,       \* "missing", "no_token_path" or "token_path"
    tokenFile,    \* the worker token file: "missing", "present", "unreadable"
    tokenStatus,  \* worker_token_status
    phase,        \* "idle", "collect" or "send"
    todo,         \* what is left to collect
    pcInfo,       \* "unknown", "named", or "unnamed": no name or MAC address
    report,       \* number of the last report asked for
    attempt,      \* posts of that report
    message,      \* status_message
    lastId,       \* last_report_id, 0 for "-"
    stored,       \* the server's log: the report of each entry
    late          \* posts given up that may still arrive

vars == <<config, tokenFile, tokenStatus, phase, todo, pcInfo, report, attempt,
          message, lastId, stored, late>>

env == <<config, tokenFile>>
server == <<stored, late>>

Optional == {"adapters", "checks", "programs"}
Posts == [report : Nat, attempt : 1 .. MaxRetry]

TypeOK ==
    /\ config \in {"missing", "no_token_path", "token_path"}
    /\ tokenFile \in {"missing", "present", "unreadable"}
    /\ tokenStatus \in {"no_config", "unset", "absent", "detected", "read_failed"}
    /\ phase \in {"idle", "collect", "send"}
    /\ todo \in Seq(Optional \cup {"pc_info"})
    /\ pcInfo \in {"unknown", "named", "unnamed"}
    /\ report \in Nat
    /\ attempt \in 0 .. MaxRetry
    /\ message \in {"waiting", "no_config", "sending", "sent", "failed"}
    /\ lastId \in Nat
    /\ stored \in Seq(Nat)
    /\ late \subseteq Posts

\* refresh_worker_token_status
WorkerTokenStatus ==
    IF config = "missing" THEN "no_config"
    ELSE IF config = "no_token_path" THEN "unset"
    ELSE IF tokenFile = "unreadable" THEN "read_failed"
    ELSE IF tokenFile = "present" THEN "detected" ELSE "absent"

\* The panel reads the token file once when it is built.
Init ==
    /\ config \in {"missing", "no_token_path", "token_path"}
    /\ tokenFile \in {"missing", "present", "unreadable"}
    /\ tokenStatus = WorkerTokenStatus
    /\ phase = "idle"
    /\ todo = <<>>
    /\ pcInfo = "unknown"
    /\ report = 0
    /\ attempt = 0
    /\ message = "waiting"
    /\ lastId = 0
    /\ stored = <<>>
    /\ late = {}

-----------------------------------------------------------------------------
(* Collecting *)

RefuseWithoutConfig ==
    /\ phase = "idle"
    /\ config = "missing"
    /\ message' = "no_config"
    /\ tokenStatus' = WorkerTokenStatus
    /\ UNCHANGED <<env, server, phase, todo, pcInfo, report, attempt, lastId>>

SendReport ==
    /\ phase = "idle"
    /\ config # "missing"
    /\ report < MaxReports
    /\ phase' = "collect"
    /\ todo' = <<"pc_info", "adapters", "checks", "programs">>
    /\ pcInfo' = "unknown"
    /\ report' = report + 1
    /\ attempt' = 0
    /\ message' = "sending"
    /\ tokenStatus' = WorkerTokenStatus
    /\ UNCHANGED <<env, server, lastId>>

\* The panel is rendered at the end of the startup.
Render ==
    /\ phase = "idle"
    /\ tokenStatus' = WorkerTokenStatus
    /\ UNCHANGED <<env, server, phase, todo, pcInfo, report, attempt, message, lastId>>

\* The end of send_report; the panel shows the token status again.
End(outcome) ==
    /\ phase' = "idle"
    /\ message' = outcome
    /\ tokenStatus' = WorkerTokenStatus

CollectPcInfo ==
    /\ phase = "collect"
    /\ todo # <<>> /\ Head(todo) = "pc_info"
    /\ todo' = Tail(todo)
    /\ pcInfo' \in {"named", "unnamed"}
    /\ UNCHANGED <<env, server, tokenStatus, phase, report, attempt, message, lastId>>

\* Without the PC's own data there is no report.
PcInfoRaises ==
    /\ phase = "collect"
    /\ todo # <<>> /\ Head(todo) = "pc_info"
    /\ todo' = <<>>
    /\ End("failed")
    /\ UNCHANGED <<env, server, pcInfo, report, attempt, lastId>>

\* A wrong variant: what an optional listing raises is not caught.
CollectOptionalRaises ==
    /\ phase = "collect"
    /\ todo # <<>> /\ Head(todo) \in Optional
    /\ todo' = <<>>
    /\ End("failed")
    /\ UNCHANGED <<env, server, pcInfo, report, attempt, lastId>>

\* An optional listing that raises or is not a list counts as an empty one.
CollectOptional ==
    /\ phase = "collect"
    /\ todo # <<>> /\ Head(todo) \in Optional
    /\ todo' = Tail(todo)
    /\ UNCHANGED <<env, server, tokenStatus, phase, pcInfo, report, attempt,
                   message, lastId>>

\* A name and a MAC address are required.
BuildReport ==
    /\ phase = "collect"
    /\ todo = <<>>
    /\ IF pcInfo = "named"
       THEN phase' = "send" /\ UNCHANGED <<message, tokenStatus>>
       ELSE End("failed")
    /\ UNCHANGED <<env, server, todo, pcInfo, report, attempt, lastId>>

-----------------------------------------------------------------------------
(* Posting: _send_with_retry around HttpAgentReportClient.send_report *)

\* The headers are built for every post, with the token read from its file.
HeadersBuilt == config = "token_path" => tokenFile # "unreadable"

\* A wrong variant: range(0, max_retry_count + 1)
AttemptFailsOnceMore ==
    /\ phase = "send"
    /\ attempt' = attempt + 1
    /\ IF attempt' = MaxRetry + 1 THEN End("failed")
       ELSE UNCHANGED <<phase, message, tokenStatus>>

\* A wrong variant: the loop only ends with a good answer.
AttemptFailsForever ==
    /\ phase = "send"
    /\ attempt' = IF attempt + 1 = MaxRetry THEN attempt ELSE attempt + 1
    /\ UNCHANGED <<phase, message, tokenStatus>>

\* After the last attempt its error is raised.
AttemptFails ==
    /\ phase = "send"
    /\ attempt' = attempt + 1
    /\ IF attempt' = MaxRetry THEN End("failed")
       ELSE UNCHANGED <<phase, message, tokenStatus>>

PostAnswered ==
    /\ phase = "send"
    /\ HeadersBuilt
    /\ attempt' = attempt + 1
    /\ stored' = Append(stored, report)
    /\ lastId' = Len(stored')
    /\ End("sent")
    /\ UNCHANGED <<env, late, todo, pcInfo, report>>

\* A wrong variant: an answer that is not ok counts as one.
PostRefusedUnseen ==
    /\ phase = "send"
    /\ attempt' = attempt + 1
    /\ End("sent")
    /\ UNCHANGED <<env, server, todo, pcInfo, report, lastId>>

\* No connection, an answer that is not ok, or no headers.
PostRefused ==
    /\ AttemptFails
    /\ UNCHANGED <<env, server, todo, pcInfo, report, lastId>>

\* A wrong variant: the session posts again by itself when the answer is lost.
PostUnansweredTwice ==
    /\ HeadersBuilt
    /\ AttemptFails
    /\ stored' = stored \o <<report, report>>
    /\ UNCHANGED <<env, late, todo, pcInfo, report, lastId>>

\* The report is stored; its answer is lost or not what it should be.
PostUnanswered ==
    /\ HeadersBuilt
    /\ AttemptFails
    /\ stored' = Append(stored, report)
    /\ UNCHANGED <<env, late, todo, pcInfo, report, lastId>>

PostTimesOut ==
    /\ HeadersBuilt
    /\ AttemptFails
    /\ late' = late \cup {[report |-> report, attempt |-> attempt']}
    /\ UNCHANGED <<env, stored, todo, pcInfo, report, lastId>>

-----------------------------------------------------------------------------
(* Outside the client *)

\* A wrong variant: a late answer is shown.
LateArrivesShown ==
    \E post \in late :
        /\ stored' = Append(stored, post.report)
        /\ late' = late \ {post}
        /\ lastId' = Len(stored')
        /\ UNCHANGED <<env, tokenStatus, phase, todo, pcInfo, report, attempt, message>>

LateArrives ==
    \E post \in late :
        /\ stored' = Append(stored, post.report)
        /\ late' = late \ {post}
        /\ UNCHANGED <<env, tokenStatus, phase, todo, pcInfo, report, attempt,
                       message, lastId>>

TokenFileChanges ==
    /\ config = "token_path"
    /\ tokenFile' \in {"missing", "present", "unreadable"} \ {tokenFile}
    /\ UNCHANGED <<config, server, tokenStatus, phase, todo, pcInfo, report,
                   attempt, message, lastId>>

-----------------------------------------------------------------------------
Collecting == CollectPcInfo \/ PcInfoRaises \/ CollectOptional \/ BuildReport

Posting == PostAnswered \/ PostRefused \/ PostUnanswered \/ PostTimesOut

Next ==
    \/ RefuseWithoutConfig \/ SendReport \/ Render
    \/ CollectPcInfo \/ PcInfoRaises \/ CollectOptional \/ BuildReport
    \/ PostAnswered \/ PostRefused \/ PostUnanswered \/ PostTimesOut
    \/ LateArrives \/ TokenFileChanges

Spec == Init /\ [][Next]_vars

\* What is read returns, and a post ends at the latest with its timeout.
FairSpec == Spec /\ WF_vars(Collecting \/ Posting)

-----------------------------------------------------------------------------
(* Properties *)

\* A report shown as sent is on the server, under the id that is shown, and it
\* is the report that was asked for last.
SuccessMeansStored ==
    message = "sent" => lastId \in DOMAIN stored /\ stored[lastId] = report

Copies(r) ==
    Cardinality({i \in DOMAIN stored : stored[i] = r})
        + Cardinality({post \in late : post.report = r})

\* The server never holds more copies of a report than the posts made of it,
\* those still under way included; there are at most MaxRetry.
CopiesBounded ==
    \A r \in 1 .. report : Copies(r) <= IF r = report THEN attempt ELSE MaxRetry

\* A report is given up only when the PC's own data is missing or after all
\* the attempts: no optional listing and no single lost post stops it.
GivesUpOnlyWithCause ==
    [][phase # "idle" /\ message' = "failed" => pcInfo # "named" \/ attempt' = MaxRetry]_vars

\* The report id shown changes only to an entry of the current report, and
\* from an older report to a newer one: late copies never show.
ShownGoesForward ==
    [][lastId' # lastId =>
          /\ stored'[lastId'] = report
          /\ lastId # 0 => stored[lastId] < stored'[lastId']]_vars

\* Every report asked for ends, sent or given up; the GUI thread is free again.
SendEnds == phase # "idle" ~> phase = "idle"

Delivery == INSTANCE ReportDelivery WITH
    current <- report,
    outcome <- IF phase # "idle" THEN "open"
               ELSE IF message = "sent" THEN "confirmed"
               ELSE IF message = "failed" THEN "gave_up" ELSE "none",
    received <- stored

\* The client implements delivery at least once for what it confirms.
DeliveryImplemented == Delivery!Spec
=============================================================================
