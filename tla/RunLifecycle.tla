----------------------------- MODULE RunLifecycle -----------------------------
(***************************************************************************)
(* What the control plane promises a client that submits Runs and watches  *)
(* them through GetRun (docs/design.md, section 5): the statuses a Run may *)
(* go through, how often it may be attempted and which outcome it can end  *)
(* with.  Nodes, leases, clocks and the event log do not appear.           *)
(***************************************************************************)
EXTENDS Naturals

CONSTANTS
  Runs,          \* the Runs a client may submit
  Results,       \* results of an execution
  Causes,        \* failures a Node reports
  LeaseExpired,  \* the failure recorded when no Node is left to report one
  NoValue,       \* no outcome yet
  MaxAttempts    \* retry policy

VARIABLE job     \* per Run: status, attempts so far, outcome

Absent == [status |-> "absent", tries |-> 0, outcome |-> NoValue]

(* A Run is accepted with its first Attempt queued. *)
Accepted(s, t) ==
  /\ s = Absent
  /\ t = [status |-> "queued", tries |-> 1, outcome |-> NoValue]

(* An Attempt starts executing. *)
Begun(s, t) ==
  /\ s.status = "queued"
  /\ t = [s EXCEPT !.status = "running"]

(* The executing Attempt was lost and the retry policy allows another. *)
Retried(s, t) ==
  /\ s.status = "running"
  /\ s.tries < MaxAttempts
  /\ t = [s EXCEPT !.status = "queued", !.tries = s.tries + 1]

(* The executing Attempt was lost and was the last one allowed. *)
GivenUp(s, t) ==
  /\ s.status = "running"
  /\ s.tries = MaxAttempts
  /\ t = [s EXCEPT !.status = "failed", !.outcome = LeaseExpired]

(* A Node reports the end of an execution, or that it cannot begin one. *)
Reported(s, t) ==
  \/ /\ s.status = "running"
     /\ \E result \in Results :
          t = [s EXCEPT !.status = "succeeded", !.outcome = result]
  \/ /\ s.status \in {"queued", "running"}
     /\ \E cause \in Causes :
          t = [s EXCEPT !.status = "failed", !.outcome = cause]

(* A cancellation is requested; it may take effect at once. *)
Cancelled(s, t) ==
  \/ /\ s.status \in {"queued", "running"}
     /\ t = [s EXCEPT !.status = "cancelling"]
  \/ /\ s.status \in {"queued", "running", "cancelling"}
     /\ t = [s EXCEPT !.status = "cancelled"]

Init == job = [r \in Runs |-> Absent]

(* One step of the control plane may move several Runs. *)
Next ==
  \A r \in Runs :
    \/ job'[r] = job[r]
    \/ Accepted(job[r], job'[r])
    \/ Begun(job[r], job'[r])
    \/ Retried(job[r], job'[r])
    \/ GivenUp(job[r], job'[r])
    \/ Reported(job[r], job'[r])
    \/ Cancelled(job[r], job'[r])

Spec == Init /\ [][Next]_job
=============================================================================
