--------------------------- MODULE ExclusiveJobs ---------------------------
(***************************************************************************)
(* What the busy coordinator and the auto-send promise, whatever handlers, *)
(* message boxes, timers and posted events they are built from: at most    *)
(* one job at a time, idle between two jobs, and an automatic report that  *)
(* is scheduled once, by the end of the startup, and sent once, from idle. *)
(* Jobs that begin and end without anything in between are not seen.       *)
(***************************************************************************)
CONSTANTS Job,      \* the jobs
          NoJob,    \* the owner while the tool is idle
          SendJob   \* the job that sends the report

VARIABLES owner,    \* the job that runs, or NoJob
          autoSend  \* "none", "due" or "sent"

vars == <<owner, autoSend>>

Init == owner = NoJob /\ autoSend = "none"

Begin(j) == owner = NoJob /\ owner' = j /\ UNCHANGED autoSend

End == owner # NoJob /\ owner' = NoJob /\ UNCHANGED autoSend

\* The end of the startup, or the startup itself when nothing keeps it open.
ScheduleSend == autoSend = "none" /\ autoSend' = "due" /\ owner' = NoJob

StartSend ==
    /\ owner = NoJob
    /\ autoSend = "due"
    /\ autoSend' = "sent"
    /\ owner' \in {NoJob, SendJob}

Next == (\E j \in Job : Begin(j)) \/ End \/ ScheduleSend \/ StartSend

Spec == Init /\ [][Next]_vars
=============================================================================
