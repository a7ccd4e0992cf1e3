--------------------------- MODULE ReportDelivery ---------------------------
(***************************************************************************)
(* What sending reports promises, whatever is collected, tried and lost on *)
(* the way: reports are submitted one after the other; each may reach the  *)
(* server any number of times, late copies after newer reports; a report   *)
(* is confirmed only with a copy that reached the server, and otherwise    *)
(* given up, even if a copy did.                                           *)
(***************************************************************************)
EXTENDS Naturals, Sequences

VARIABLES current,  \* number of the last report submitted
          outcome,  \* of that report: "open", "confirmed", "gave_up"
          received  \* the server's log, the place is the id of an entry

vars == <<current, outcome, received>>

Init == current = 0 /\ outcome = "none" /\ received = <<>>

Submit ==
    /\ outcome # "open"
    /\ current' = current + 1
    /\ outcome' = "open"
    /\ UNCHANGED received

Arrive(outcomes) ==
    /\ \E r \in 1 .. current : received' = Append(received, r)
    /\ outcome' \in outcomes
    /\ UNCHANGED current

Confirm ==
    /\ outcome = "open"
    /\ outcome' = "confirmed"
    /\ received' = Append(received, current)
    /\ UNCHANGED current

GiveUp ==
    /\ outcome = "open"
    /\ outcome' = "gave_up"
    /\ UNCHANGED <<current, received>>

\* A copy that arrives may be the one whose answer is lost last.
Next ==
    \/ Submit \/ Confirm \/ GiveUp
    \/ Arrive({outcome})
    \/ outcome = "open" /\ Arrive({"gave_up"})

Spec == Init /\ [][Next]_vars
=============================================================================
