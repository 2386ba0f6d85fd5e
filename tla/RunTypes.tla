------------------------------ MODULE RunTypes ------------------------------
(***************************************************************************)
(* Vocabulary shared by the models of the control plane: the statuses of a *)
(* Run and of an Attempt, and the lifecycle events both storage            *)
(* implementations append to the log of a Run.                             *)
(***************************************************************************)
EXTENDS Naturals, Sequences

RunStatuses ==
  {"queued", "running", "cancelling", "cancelled", "succeeded", "failed"}

AttemptStatuses ==
  {"queued", "leased", "running", "succeeded", "failed", "lost", "cancelled"}

terminalRunStatus(status) == status \in {"succeeded", "failed", "cancelled"}

(* The events that move a Run, and the status each of them announces.  A    *)
(* retry is announced by attempt.queued alone: there is no run.queued.     *)
RunStatusOf ==
  [type \in {"run.created", "attempt.queued", "run.started",
             "run.cancel_requested", "run.cancelled",
             "run.succeeded", "run.failed"} |->
     CASE type \in {"run.created", "attempt.queued"} -> "queued"
       [] type = "run.started"          -> "running"
       [] type = "run.cancel_requested" -> "cancelling"
       [] type = "run.cancelled"        -> "cancelled"
       [] type = "run.succeeded"        -> "succeeded"
       [] type = "run.failed"           -> "failed"]

TerminalEvents == {"run.cancelled", "run.succeeded", "run.failed"}

EventTypes ==
  DOMAIN RunStatusOf \union
  {"attempt.leased", "attempt.lease_expired", "attempt.started",
   "attempt.succeeded", "attempt.failed", "attempt.lost",
   "attempt.cancelled"}

Event(type, attempt) == [type |-> type, attempt |-> attempt]
=============================================================================
