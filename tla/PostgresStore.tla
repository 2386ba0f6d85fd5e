---------------------------- MODULE PostgresStore ----------------------------
(***************************************************************************)
(* The production control plane store (controlplane/postgres/store.go).    *)
(*                                                                         *)
(* Every method of Store is one database transaction that locks the row of *)
(* the Run and of its current Attempt, so it is one step here; Claim,      *)
(* which decides on the load of a Node in one statement and takes a Run in *)
(* a later one, is two.  The state of a Run is a record and every          *)
(* transaction is an operator from the record before to the record after.  *)
(*                                                                         *)
(* Nodes are not trusted to be current: any assignment ever granted may be *)
(* presented by any call, any number of times and arbitrarily late, which  *)
(* covers lost, duplicated, delayed and reordered requests and responses.  *)
(***************************************************************************)
EXTENDS RunRecords

CONSTANT Calls     \* slots for concurrent Claim transactions

VARIABLES
  capacity,  \* relay_nodes.capacity, 0 for a Node that never registered
  claims     \* the open Claim transactions

vars == <<runs, capacity, claims>>

-----------------------------------------------------------------------------
(* An open Claim: its Node and the candidates it has seen.                 *)

Claim == [node : Nodes \union {NoValue}, seen : SUBSET (Runs \X Nat)]

NoClaim == [node |-> NoValue, seen |-> {}]

-----------------------------------------------------------------------------
(* The transactions, as functions of the row they lock.                    *)

(* Mutant: the Run status constant is written to the Attempt row. *)
FinalizeWithRunStatus(x) ==
  IF x.status = "cancelled" THEN x
  ELSE [x EXCEPT !.status   = "cancelled",
                 !.attempts = SetAttempt(x, "cancelling"),
                 !.log = appendEvents(x, "attempt.cancelled", "run.cancelled")]

finalizeCancellationTx(x) ==
  IF x.status = "cancelled" THEN x
  ELSE [x EXCEPT !.status   = "cancelled",
                 !.attempts = SetAttempt(x, "cancelled"),
                 !.log = appendEvents(x, "attempt.cancelled", "run.cancelled")]

(* Mutant: a queued Attempt is left for a Node to acknowledge. *)
RequestCancelKeepsQueued(x) ==
  IF terminalRunStatus(x.status) \/ x.cancelRequested THEN x
  ELSE [x EXCEPT !.status          = "cancelling",
                 !.cancelRequested = TRUE,
                 !.log = appendEvent(x, "run.cancel_requested")]

(* Mutant: only repeated requests are ignored, not those after the end. *)
RequestCancelAfterEnd(x) ==
  IF x.cancelRequested THEN x
  ELSE [x EXCEPT !.status          = "cancelling",
                 !.cancelRequested = TRUE,
                 !.log = appendEvent(x, "run.cancel_requested")]

requestCancelTx(x) ==
  LET requested == [x EXCEPT !.status          = "cancelling",
                             !.cancelRequested = TRUE,
                             !.log = appendEvent(x, "run.cancel_requested")]
  IN  IF terminalRunStatus(x.status) \/ x.cancelRequested THEN x
      ELSE IF AttemptStatus(x) = "queued"
           THEN finalizeCancellationTx(requested)
           ELSE requested

(* Mutant: the expiry check is not lifted for finished Runs. *)
TransitionAlwaysExpires(x, k) ==
  /\ x.grants[k] = Number(x)
  /\ x.token = k
  /\ x.ttl > 0

(* What transition demands of the assignment carrying token k.             *)
transition(x, k) ==
  /\ x.grants[k] = Number(x)
  /\ x.token = k
  /\ terminalRunStatus(x.status) \/ x.ttl > 0

StartReply(x, k) ==
  IF ~transition(x, k) THEN "invalid_lease"
  ELSE IF x.status = "cancelling" THEN "run_cancelled"
  ELSE IF AttemptStatus(x) # "leased" THEN "invalid_transition"
  ELSE "ok"

Started(x) ==
  [x EXCEPT !.status   = "running",
            !.attempts = SetAttempt(x, "running"),
            !.log      = appendEvents(x, "attempt.started", "run.started")]

CompleteReply(x, k, result) ==
  IF ~transition(x, k) THEN "invalid_lease"
  ELSE IF x.status = "succeeded" /\ AttemptStatus(x) = "succeeded"
       THEN IF x.outcome = result THEN "ok" ELSE "invalid_transition"
  ELSE IF x.status = "cancelling" THEN "run_cancelled"
  ELSE IF AttemptStatus(x) # "running" THEN "invalid_transition"
  ELSE "ok"

Completed(x, result) ==
  IF x.status = "succeeded" THEN x
  ELSE [x EXCEPT !.status   = "succeeded",
                 !.outcome  = result,
                 !.attempts = SetAttempt(x, "succeeded"),
                 !.log = appendEvents(x, "attempt.succeeded", "run.succeeded")]

FailReply(x, k, cause) ==
  IF ~transition(x, k) THEN "invalid_lease"
  ELSE IF x.status = "failed" /\ AttemptStatus(x) = "failed"
       THEN IF x.outcome = cause THEN "ok" ELSE "invalid_transition"
  ELSE IF x.status = "cancelling" THEN "run_cancelled"
  ELSE IF AttemptStatus(x) \notin {"running", "leased"}
       THEN "invalid_transition"
  ELSE "ok"

Failed(x, cause) ==
  IF x.status = "failed" THEN x
  ELSE [x EXCEPT !.status   = "failed",
                 !.outcome  = cause,
                 !.attempts = SetAttempt(x, "failed"),
                 !.log      = appendEvents(x, "attempt.failed", "run.failed")]

AcknowledgeReply(x, k) ==
  IF ~transition(x, k) THEN "invalid_lease"
  ELSE IF x.status \in {"cancelled", "cancelling"} THEN "ok"
  ELSE "invalid_transition"

(* Renew makes the checks of transition itself, with no exemption.  Its    *)
(* answer carries x.cancelRequested.                                       *)
Renewable(x, k) == x.grants[k] = Number(x) /\ x.token = k /\ x.ttl > 0

RenewReply(x, k) ==
  IF ~Renewable(x, k) THEN "invalid_lease"
  ELSE IF AttemptStatus(x) \notin {"leased", "running"}
       THEN "invalid_transition"
  ELSE "ok"

-----------------------------------------------------------------------------
(* Claim, a transaction of several statements.                             *)

(* Mutant: expired leases are not candidates. *)
ClaimableQueuedOnly(x) ==
  /\ x.status = "queued"
  /\ x.deadline # "passed"
  /\ AttemptStatus(x) = "queued" /\ x.available

(* The WHERE clause shared by the candidate query and its locked recheck.  *)
Claimable(x) ==
  /\ x.status = "queued"
  /\ x.deadline # "passed"
  /\ \/ AttemptStatus(x) = "queued" /\ x.available
     \/ AttemptStatus(x) = "leased" /\ x.ttl = 0

(* The candidates, each with the number of leases it had when it was seen. *)
Candidates ==
  {<<r, Len(runs[r].grants)>> : r \in {q \in Runs : Claimable(runs[q])}}

(* Mutant: the candidate is taken without rechecking its lease. *)
ClaimableOnce(claim, r) ==
  /\ \E k \in 0 .. Len(runs[r].grants) : <<r, k>> \in claim.seen
  /\ runs[r].status = "queued"

(* The recheck under the row lock.  now() is the start of the transaction, *)
(* so a deadline that passed since does not count, and a row whose lease   *)
(* changed since is not claimable.                                         *)
StillClaimable(claim, r) ==
  LET x == runs[r] IN
  /\ <<r, Len(x.grants)>> \in claim.seen
  /\ x.status = "queued"
  /\ AttemptStatus(x) \in {"queued", "leased"}

Leased(x, n) ==
  [x EXCEPT !.attempts = SetAttempt(x, "leased"),
            !.node     = n,
            !.token    = Len(x.grants) + 1,
            !.ttl      = LeaseTTL,
            !.grants   = Append(x.grants, Number(x)),
            !.log      = IF AttemptStatus(x) = "leased"
                         THEN appendEvents(x, "attempt.lease_expired",
                                              "attempt.leased")
                         ELSE appendEvent(x, "attempt.leased")]

(* nodeSelect.active: the unexpired leased or running Attempts of Node n.  *)
Held(n) ==
  {r \in Runs : /\ runs[r].status # "absent"
                /\ runs[r].node = n
                /\ AttemptStatus(runs[r]) \in {"leased", "running"}
                /\ runs[r].ttl > 0}

Active(n) == Cardinality(Held(n))

-----------------------------------------------------------------------------
(* Reconcile.                                                              *)

(* Mutant: only running Runs time out. *)
OverdueRunning(x) ==
  /\ x.deadline = "passed"
  /\ ~x.cancelRequested
  /\ x.status = "running"

Overdue(x) ==
  /\ x.deadline = "passed"
  /\ ~x.cancelRequested
  /\ x.status \in {"queued", "running"}

(* Mutant: a cancelling Run is only recovered once it was started. *)
ExpiredRunning(x) ==
  /\ x.status \in {"running", "cancelling"}
  /\ AttemptStatus(x) = "running"
  /\ x.ttl = 0

(* Mutant: only cancelling Runs are recovered. *)
ExpiredCancelling(x) ==
  /\ x.status = "cancelling"
  /\ AttemptStatus(x) \in {"running", "leased"}
  /\ x.ttl = 0

Expired(x) ==
  /\ \/ x.status = "running" /\ AttemptStatus(x) = "running"
     \/ x.status = "cancelling" /\ AttemptStatus(x) \in {"running", "leased"}
  /\ x.ttl = 0

(* Mutant: the new Attempt inherits the lease of the lost one. *)
RequeuedWithLease(x) ==
  [x EXCEPT !.status    = "queued",
            !.attempts  = Append(SetAttempt(x, "lost"), "queued"),
            !.available = FALSE,
            !.log = Append(appendEvent(x, "attempt.lost"),
                           Event("attempt.queued", Number(x) + 1))]

(* Mutant: the retry is not announced. *)
RequeuedSilently(x) ==
  [x EXCEPT !.status    = "queued",
            !.attempts  = Append(SetAttempt(x, "lost"), "queued"),
            !.available = FALSE,
            !.node      = NoValue,
            !.token     = 0,
            !.ttl       = 0,
            !.log       = appendEvent(x, "attempt.lost")]

(* The Attempt is lost and another one is queued, with no lease yet.        *)
Requeued(x) ==
  [x EXCEPT !.status    = "queued",
            !.attempts  = Append(SetAttempt(x, "lost"), "queued"),
            !.available = FALSE,
            !.node      = NoValue,
            !.token     = 0,
            !.ttl       = 0,
            !.log = Append(appendEvent(x, "attempt.lost"),
                           Event("attempt.queued", Number(x) + 1))]

(* The Attempt is lost and was the last one the retry policy allows.       *)
GivenUp(x) ==
  [x EXCEPT !.status   = "failed",
            !.outcome  = LeaseExpired,
            !.attempts = SetAttempt(x, "lost"),
            !.log      = appendEvents(x, "attempt.lost", "run.failed")]

(* Mutant: one retry too many. *)
LostOneMore(x) == IF Number(x) > MaxAttempts THEN GivenUp(x) ELSE Requeued(x)

Lost(x) == IF Number(x) >= MaxAttempts THEN GivenUp(x) ELSE Requeued(x)

Recovered(x) ==
  IF x.status = "cancelling" THEN finalizeCancellationTx(x) ELSE Lost(x)

-----------------------------------------------------------------------------
(* Actions.                                                                *)

Init ==
  /\ runs = [r \in Runs |-> AbsentRun]
  /\ capacity = [n \in Nodes |-> 0]
  /\ claims = [c \in Calls |-> NoClaim]

Update(r, x) ==
  /\ runs' = [runs EXCEPT ![r] = x]
  /\ UNCHANGED <<capacity, claims>>

RegisterNode(n, c) ==
  /\ capacity' = [capacity EXCEPT ![n] = c]
  /\ UNCHANGED <<runs, claims>>

(* A second Submit in the same idempotency scope inserts nothing.          *)
Submit(r, deadline) ==
  /\ runs[r].status = "absent"
  /\ Update(r, Submitted(deadline))

(* The first statement of Claim: it counts the load of the Node on the     *)
(* statement's snapshot and then waits for the lock of the Node's row.      *)
ClaimBegin(c, n) ==
  /\ claims[c] = NoClaim
  /\ capacity[n] > 0
  /\ Active(n) < capacity[n]
  /\ claims' = [claims EXCEPT ![c] = [node |-> n, seen |-> Candidates]]
  /\ UNCHANGED <<runs, capacity>>

(* The rest of Claim when it takes Run r.                                  *)
ClaimCommit(c, r) ==
  /\ claims[c] # NoClaim
  /\ StillClaimable(claims[c], r)
  /\ <<claims[c].node, r>> \in Compatible
  /\ runs' = [runs EXCEPT ![r] = Leased(runs[r], claims[c].node)]
  /\ claims' = [claims EXCEPT ![c] = NoClaim]
  /\ UNCHANGED capacity

(* The rest of Claim when every candidate was skipped, or a rollback.       *)
ClaimNothing(c) ==
  /\ claims[c] # NoClaim
  /\ claims' = [claims EXCEPT ![c] = NoClaim]
  /\ UNCHANGED <<runs, capacity>>

Renew(r, k) ==
  /\ RenewReply(runs[r], k) = "ok"
  /\ Update(r, [runs[r] EXCEPT !.ttl = LeaseTTL])

Start(r, k) ==
  /\ StartReply(runs[r], k) = "ok"
  /\ Update(r, Started(runs[r]))

Complete(r, k, result) ==
  /\ CompleteReply(runs[r], k, result) = "ok"
  /\ Update(r, Completed(runs[r], result))

Fail(r, k, cause) ==
  /\ FailReply(runs[r], k, cause) = "ok"
  /\ Update(r, Failed(runs[r], cause))

AcknowledgeCancellation(r, k) ==
  /\ AcknowledgeReply(runs[r], k) = "ok"
  /\ Update(r, finalizeCancellationTx(runs[r]))

CancelRun(r) ==
  /\ runs[r].status # "absent"
  /\ Update(r, requestCancelTx(runs[r]))

(* One transaction over the overdue Runs D and then the expired ones E, in *)
(* that order, so that a Run whose deadline and lease both passed is       *)
(* cancelled outright.  SKIP LOCKED may leave any Run out.                 *)
Reconcile(D, E) ==
  LET cancelled == [r \in Runs |-> IF r \in D THEN requestCancelTx(runs[r])
                                              ELSE runs[r]]
  IN  /\ \A r \in D : Overdue(runs[r])
      /\ \A r \in E : Expired(cancelled[r])
      /\ Cardinality(D) + Cardinality(E) <= ReconcileLimit
      /\ runs' = [r \in Runs |-> IF r \in E THEN Recovered(cancelled[r])
                                            ELSE cancelled[r]]
      /\ UNCHANGED <<capacity, claims>>

(* Time.                                                                   *)
LeaseTicks(r) ==
  LET x == runs[r] IN
  /\ x.ttl > 0
  /\ x.ttl = 1 /\ x.status = "queued" => Len(x.grants) < MaxGrants
  /\ Update(r, [x EXCEPT !.ttl = x.ttl - 1])

DeadlinePasses(r) ==
  /\ runs[r].deadline = "ahead"
  /\ ~terminalRunStatus(runs[r].status)
  /\ Update(r, [runs[r] EXCEPT !.deadline = "passed"])

BackoffElapses(r) ==
  /\ runs[r].status = "queued"
  /\ ~runs[r].available
  /\ Update(r, [runs[r] EXCEPT !.available = TRUE])

NodeCall(r, k) ==
  \/ Renew(r, k)
  \/ Start(r, k)
  \/ AcknowledgeCancellation(r, k)
  \/ \E result \in Results : Complete(r, k, result)
  \/ \E cause \in Causes : Fail(r, k, cause)

ClaimStep(c) ==
  \/ \E n \in Nodes : ClaimBegin(c, n)
  \/ \E r \in Runs : ClaimCommit(c, r)
  \/ ClaimNothing(c)

RunStep(r) ==
  \/ \E deadline \in {"none", "ahead"} : Submit(r, deadline)
  \/ CancelRun(r)
  \/ \E k \in DOMAIN runs[r].grants : NodeCall(r, k)
  \/ LeaseTicks(r)
  \/ DeadlinePasses(r)
  \/ BackoffElapses(r)

Next ==
  \/ \E n \in Nodes, c \in Capacities : RegisterNode(n, c)
  \/ \E c \in Calls : ClaimStep(c)
  \/ \E r \in Runs : RunStep(r)
  \/ \E D, E \in SUBSET Runs : Reconcile(D, E)

Spec == Init /\ [][Next]_vars

-----------------------------------------------------------------------------
(* Fairness.  Clocks advance.  The server reconciles every two seconds,    *)
(* oldest rows first, so a Run that stays overdue or expired is handled.   *)
(* Nodes keep polling Claim, and a row that is free again and again is not *)
(* locked by somebody else at each of these polls.  A Node told of a       *)
(* cancellation by Renew never renews again (keepLease returns), so it     *)
(* renews the lease of a cancelling Run only finitely often.  Nothing is   *)
(* assumed of executions: a Node may run forever, or die at any point.     *)

ReconcileRun(r) == \E D, E \in SUBSET Runs : r \in D \union E /\ Reconcile(D, E)

RenewCancelling(r) ==
  /\ runs[r].status = "cancelling"
  /\ \E k \in DOMAIN runs[r].grants : Renew(r, k)

Fairness ==
  /\ \A r \in Runs : /\ WF_vars(LeaseTicks(r))
                     /\ WF_vars(BackoffElapses(r))
                     /\ WF_vars(ReconcileRun(r))
                     /\ SF_vars(\E c \in Calls : ClaimCommit(c, r))
                     /\ <>[][~RenewCancelling(r)]_vars
  /\ \A c \in Calls, n \in Nodes : SF_vars(ClaimBegin(c, n))
  /\ \A c \in Calls : WF_vars(ClaimNothing(c))

FairSpec == Spec /\ Fairness

-----------------------------------------------------------------------------
(* Properties.                                                             *)

(* Type invariant: the rows keep the shape their columns declare.          *)
TypeOK ==
  /\ runs \in [Runs -> Run]
  /\ capacity \in [Nodes -> Nat]
  /\ claims \in [Calls -> Claim]

(* A Node whose final report was committed but whose response was lost can *)
(* repeat the report, even after its lease expired, and is told it         *)
(* succeeded; a different report is refused.                               *)
RepeatedReportAccepted ==
  \A r \in Runs :
    LET x == runs[r] IN
    /\ x.status = "succeeded" =>
         \A v \in Results :
           CompleteReply(x, x.token, v) = "ok" <=> x.outcome = v
    /\ x.status = "failed" /\ AttemptStatus(x) = "failed" =>
         \A v \in Causes : FailReply(x, x.token, v) = "ok" <=> x.outcome = v
    /\ x.status = "cancelled" /\ x.token > 0 =>
         AcknowledgeReply(x, x.token) = "ok"

(* A Node never holds more leases than the capacity it registered.         *)
CapacityRespected ==
  \A n \in Nodes : capacity[n] > 0 => Active(n) <= capacity[n]
=============================================================================
