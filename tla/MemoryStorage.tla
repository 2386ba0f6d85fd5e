---------------------------- MODULE MemoryStorage ----------------------------
(***************************************************************************)
(* The in-process store used by tests and demos (controlplane/memory.go).  *)
(* Every method runs under one mutex, so it is one step.  Unlike the       *)
(* database it keeps a counter of the Attempts each Node works on, gives   *)
(* expired leases back from within other calls, and iterates over Go maps, *)
(* whose order is arbitrary.                                               *)
(*                                                                         *)
(* A method is an operator from the record of the Run to its effect: the   *)
(* record it leaves, the Node it releases and the answer it gives.         *)
(***************************************************************************)
EXTENDS RunRecords

VARIABLES
  capacity,  \* capacity of a registered Node, 0 for one that is not
  active     \* Node.Active

vars == <<runs, capacity, active>>

-----------------------------------------------------------------------------
Effect(x, n, reply) == [run |-> x, released |-> n, reply |-> reply]

Keep(x, reply) == Effect(x, NoValue, reply)

(* releaseNode, once for every Run whose effect names the Node.            *)
releaseNode(effects) ==
  [n \in Nodes |->
     LET k == Cardinality({r \in Runs : effects[r].released = n})
     IN  IF active[n] > k THEN active[n] - k ELSE 0]

Apply(effects) ==
  /\ runs' = [r \in Runs |-> effects[r].run]
  /\ active' = releaseNode(effects)
  /\ UNCHANGED capacity

Only(r, effect) ==
  [q \in Runs |-> IF q = r THEN effect ELSE Keep(runs[q], "ok")]

(* Mutant: the Node of a cancelled Run is not released. *)
FinalizeWithoutRelease(x) ==
  IF x.status = "cancelled" THEN Keep(x, "ok")
  ELSE Keep([x EXCEPT
               !.status   = "cancelled",
               !.attempts = SetAttempt(x, "cancelled"),
               !.log = appendEvents(x, "attempt.cancelled", "run.cancelled")],
            "ok")

finalizeCancellation(x) ==
  IF x.status = "cancelled" THEN Keep(x, "ok")
  ELSE Effect([x EXCEPT
                 !.status   = "cancelled",
                 !.attempts = SetAttempt(x, "cancelled"),
                 !.log = appendEvents(x, "attempt.cancelled", "run.cancelled")],
              x.node, "ok")

cancelRunLocked(x) ==
  LET requested == [x EXCEPT !.cancelRequested = TRUE,
                             !.log = appendEvent(x, "run.cancel_requested")]
  IN  IF terminalRunStatus(x.status) \/ x.cancelRequested THEN Keep(x, "ok")
      ELSE IF AttemptStatus(x) = "queued" THEN finalizeCancellation(requested)
      ELSE Keep([requested EXCEPT !.status = "cancelling"], "ok")

Unstarted(x) == AttemptStatus(x) = "leased" /\ x.ttl = 0

requeueExpired(x) ==
  IF ~Unstarted(x) THEN Keep(x, "invalid_lease")
  ELSE Effect([x EXCEPT !.attempts = SetAttempt(x, "queued"),
                        !.node     = NoValue,
                        !.token    = 0,
                        !.ttl      = 0,
                        !.log      = appendEvent(x, "attempt.lease_expired")],
              x.node, "invalid_lease")

-----------------------------------------------------------------------------
(* Calls of a Node that presents token k.                                  *)

Holds(x, k) == x.grants[k] = Number(x) /\ x.token = k

(* authorize, whose refusal of an expired lease gives the lease back, and  *)
(* what the call does once it is authorized.                               *)
authorize(x, k, effect) ==
  IF ~Holds(x, k) THEN Keep(x, "invalid_lease")
  ELSE IF x.ttl = 0 THEN requeueExpired(x)
  ELSE effect

renew(x, k) ==
  authorize(x, k,
    IF AttemptStatus(x) \in {"leased", "running"}
    THEN Keep([x EXCEPT !.ttl = LeaseTTL], "ok")
    ELSE Keep(x, "invalid_transition"))

acknowledge(x, k) ==
  authorize(x, k,
    IF x.status = "cancelled" THEN Keep(x, "ok")
    ELSE IF x.status # "cancelling" THEN Keep(x, "invalid_transition")
    ELSE finalizeCancellation(x))

Cancels(x) ==
  [finalizeCancellation(x) EXCEPT !.reply = "run_cancelled"]

start(x, k) ==
  authorize(x, k,
    IF AttemptStatus(x) # "leased" THEN Keep(x, "invalid_transition")
    ELSE IF x.status = "cancelling" THEN Cancels(x)
    ELSE Keep([x EXCEPT
                 !.status   = "running",
                 !.attempts = SetAttempt(x, "running"),
                 !.log = appendEvents(x, "attempt.started", "run.started")],
              "ok"))

complete(x, k, result) ==
  IF ~Holds(x, k) THEN Keep(x, "invalid_lease")
  ELSE IF x.status = "succeeded" /\ AttemptStatus(x) = "succeeded"
       THEN Keep(x, IF x.outcome = result THEN "ok" ELSE "invalid_transition")
  ELSE IF x.ttl = 0 THEN Keep(x, "invalid_lease")
  ELSE IF AttemptStatus(x) # "running" THEN Keep(x, "invalid_transition")
  ELSE IF x.status = "cancelling" THEN Keep(x, "run_cancelled")
  ELSE Effect([x EXCEPT
                 !.status   = "succeeded",
                 !.outcome  = result,
                 !.attempts = SetAttempt(x, "succeeded"),
                 !.log = appendEvents(x, "attempt.succeeded", "run.succeeded")],
              x.node, "ok")

fail(x, k, cause) ==
  IF ~Holds(x, k) THEN Keep(x, "invalid_lease")
  ELSE IF x.status = "failed" /\ AttemptStatus(x) = "failed"
       THEN Keep(x, IF x.outcome = cause THEN "ok" ELSE "invalid_transition")
  ELSE IF x.ttl = 0 THEN Keep(x, "invalid_lease")
  ELSE IF AttemptStatus(x) \notin {"running", "leased"}
       THEN Keep(x, "invalid_transition")
  ELSE IF x.status = "cancelling" THEN Cancels(x)
  ELSE Effect([x EXCEPT
                 !.status   = "failed",
                 !.outcome  = cause,
                 !.attempts = SetAttempt(x, "failed"),
                 !.log = appendEvents(x, "attempt.failed", "run.failed")],
              x.node, "ok")

(* The other calls (AppendEvent, AddArtifact, capability calls and         *)
(* interactions) leave these records alone unless authorize gives the      *)
(* lease back.                                                             *)
record(x, k) == authorize(x, k, Keep(x, "ok"))

-----------------------------------------------------------------------------
(* Claim and Reconcile.                                                    *)

(* What Claim does to each Run before it looks for one.                    *)
swept(x) ==
  LET due == IF x.deadline = "passed" /\ ~x.cancelRequested
             THEN cancelRunLocked(x) ELSE Keep(x, "ok")
      y   == due.run
  IN  IF x.status = "absent" THEN Keep(x, "ok")
      ELSE IF /\ y.status = "cancelling"
              /\ AttemptStatus(y) \in {"leased", "running"}
              /\ y.ttl = 0
           THEN finalizeCancellation(y)
      ELSE IF Unstarted(y) THEN requeueExpired(y)
      ELSE due

claimable(x) ==
  x.status = "queued" /\ AttemptStatus(x) = "queued" /\ x.available

leased(x, n) ==
  [x EXCEPT !.attempts = SetAttempt(x, "leased"),
            !.node     = n,
            !.token    = Len(x.grants) + 1,
            !.ttl      = LeaseTTL,
            !.grants   = Append(x.grants, Number(x)),
            !.log      = appendEvent(x, "attempt.leased")]

Overdue(x) ==
  /\ x.deadline = "passed"
  /\ ~terminalRunStatus(x.status)
  /\ ~x.cancelRequested

(* Mutant: only cancelling Runs are recovered. *)
ExpiredCancelling(x) ==
  x.status = "cancelling" /\ AttemptStatus(x) = "running" /\ x.ttl = 0

Expired(x) ==
  /\ x.status \in {"running", "cancelling"}
  /\ \/ AttemptStatus(x) = "running"
     \/ x.status = "cancelling" /\ AttemptStatus(x) = "leased"
  /\ x.ttl = 0

givenUp(x) ==
  [x EXCEPT !.status   = "failed",
            !.outcome  = LeaseExpired,
            !.attempts = SetAttempt(x, "lost"),
            !.log      = appendEvents(x, "attempt.lost", "run.failed")]

(* Mutant: the retry is not announced. *)
retriedSilently(x) ==
  [x EXCEPT !.status    = "queued",
            !.attempts  = Append(SetAttempt(x, "lost"), "queued"),
            !.available = FALSE,
            !.node      = NoValue,
            !.token     = 0,
            !.ttl       = 0,
            !.log       = appendEvent(x, "attempt.lost")]

(* run.Attempt is replaced by a new Attempt without Node or lease.         *)
retried(x) ==
  [x EXCEPT !.status    = "queued",
            !.attempts  = Append(SetAttempt(x, "lost"), "queued"),
            !.available = FALSE,
            !.node      = NoValue,
            !.token     = 0,
            !.ttl       = 0,
            !.log = Append(appendEvent(x, "attempt.lost"),
                           Event("attempt.queued", Number(x) + 1))]

(* Mutant: one retry too many. *)
lostOneMore(x) == IF Number(x) > MaxAttempts THEN givenUp(x) ELSE retried(x)

lost(x) == IF Number(x) >= MaxAttempts THEN givenUp(x) ELSE retried(x)

recovered(x) ==
  IF x.status = "cancelling" THEN finalizeCancellation(x)
  ELSE Effect(lost(x), x.node, "ok")

(* The sets a loop over a map handles when it stops after n elements of S. *)
First(n, S) ==
  {T \in SUBSET S :
     \/ T = S /\ Cardinality(S) <= n
     \/ Cardinality(T) = n}

-----------------------------------------------------------------------------
(* Actions.                                                                *)

Init ==
  /\ runs = [r \in Runs |-> AbsentRun]
  /\ capacity = [n \in Nodes |-> 0]
  /\ active = [n \in Nodes |-> 0]

RegisterNode(n, c) ==
  /\ capacity' = [capacity EXCEPT ![n] = c]
  /\ UNCHANGED <<runs, active>>

Submit(r, deadline) ==
  /\ runs[r].status = "absent"
  /\ runs' = [runs EXCEPT ![r] = Submitted(deadline)]
  /\ UNCHANGED <<capacity, active>>

HasRoom(n) == capacity[n] > 0 /\ active[n] < capacity[n]

Claim(n) ==
  LET effects == [r \in Runs |-> swept(runs[r])]
      free    == {r \in Runs : /\ claimable(effects[r].run)
                               /\ <<n, r>> \in Compatible}
  IN  /\ HasRoom(n)
      /\ IF free = {} THEN Apply(effects)
         ELSE \E r \in free :
                /\ runs' = [q \in Runs |->
                              IF q = r THEN leased(effects[r].run, n)
                              ELSE effects[q].run]
                /\ active' = [releaseNode(effects) EXCEPT ![n] = @ + 1]
                /\ UNCHANGED capacity

Renew(r, k) == Apply(Only(r, renew(runs[r], k)))

Start(r, k) == Apply(Only(r, start(runs[r], k)))

Complete(r, k, result) == Apply(Only(r, complete(runs[r], k, result)))

Fail(r, k, cause) == Apply(Only(r, fail(runs[r], k, cause)))

AcknowledgeCancellation(r, k) == Apply(Only(r, acknowledge(runs[r], k)))

RecordCall(r, k) == Apply(Only(r, record(runs[r], k)))

CancelRun(r) ==
  /\ runs[r].status # "absent"
  /\ Apply(Only(r, cancelRunLocked(runs[r])))

Reconcile ==
  \E D \in First(ReconcileLimit, {r \in Runs : Overdue(runs[r])}) :
    LET due == [r \in Runs |-> IF r \in D THEN cancelRunLocked(runs[r])
                                          ELSE Keep(runs[r], "ok")]
    IN  \E E \in First(ReconcileLimit - Cardinality(D),
                       {r \in Runs : Expired(due[r].run)}) :
          Apply([r \in Runs |-> IF r \in E THEN recovered(due[r].run)
                                           ELSE due[r]])

(* Time.                                                                   *)
Passes(r, x) ==
  /\ runs' = [runs EXCEPT ![r] = x]
  /\ UNCHANGED <<capacity, active>>

LeaseTicks(r) ==
  LET x == runs[r] IN
  /\ x.ttl > 0
  /\ x.ttl = 1 /\ x.status = "queued" => Len(x.grants) < MaxGrants
  /\ Passes(r, [x EXCEPT !.ttl = x.ttl - 1])

DeadlinePasses(r) ==
  /\ runs[r].deadline = "ahead"
  /\ ~terminalRunStatus(runs[r].status)
  /\ Passes(r, [runs[r] EXCEPT !.deadline = "passed"])

BackoffElapses(r) ==
  /\ runs[r].status = "queued"
  /\ ~runs[r].available
  /\ Passes(r, [runs[r] EXCEPT !.available = TRUE])

NodeCall(r, k) ==
  \/ Renew(r, k)
  \/ Start(r, k)
  \/ AcknowledgeCancellation(r, k)
  \/ RecordCall(r, k)
  \/ \E result \in Results : Complete(r, k, result)
  \/ \E cause \in Causes : Fail(r, k, cause)

RunStep(r) ==
  \/ \E deadline \in {"none", "ahead"} : Submit(r, deadline)
  \/ CancelRun(r)
  \/ \E k \in DOMAIN runs[r].grants : NodeCall(r, k)
  \/ LeaseTicks(r)
  \/ DeadlinePasses(r)
  \/ BackoffElapses(r)

Next ==
  \/ \E n \in Nodes, c \in Capacities : RegisterNode(n, c)
  \/ \E n \in Nodes : Claim(n)
  \/ \E r \in Runs : RunStep(r)
  \/ Reconcile

Spec == Init /\ [][Next]_vars

(* Fairness: clocks advance, the server reconciles, Nodes poll Claim, and  *)
(* a Node renews a cancelling Run only finitely often (keepLease returns). *)
RenewCancelling(r) ==
  /\ runs[r].status = "cancelling"
  /\ \E k \in DOMAIN runs[r].grants : Renew(r, k)

Fairness ==
  /\ \A r \in Runs : /\ WF_vars(LeaseTicks(r))
                     /\ WF_vars(BackoffElapses(r))
                     /\ <>[][~RenewCancelling(r)]_vars
  /\ \A n \in Nodes : SF_vars(Claim(n))
  /\ WF_vars(Reconcile)

FairSpec == Spec /\ Fairness

-----------------------------------------------------------------------------
(* Properties.                                                             *)

(* Type invariant: the maps hold records of the declared shape.            *)
TypeOK ==
  /\ runs \in [Runs -> Run]
  /\ capacity \in [Nodes -> Nat]
  /\ active \in [Nodes -> Nat]

(* The counter of a Node, incremented by Claim and decremented in six      *)
(* other places, is the number of Attempts that are leased to it or run on *)
(* it: no path releases a Node twice or forgets to release it, so Claim's  *)
(* comparison with the capacity, which it makes under the same mutex as    *)
(* the increment, keeps the Node within its capacity.                      *)
ActiveIsExact ==
  \A n \in Nodes :
    active[n] = Cardinality({r \in Runs :
                               /\ runs[r].status # "absent"
                               /\ runs[r].node = n
                               /\ AttemptStatus(runs[r])
                                    \in {"leased", "running"}})

(* A completion or failure whose response was lost can be reported again,  *)
(* even after the lease expired; a different report is refused.            *)
RepeatedReportAccepted ==
  \A r \in Runs :
    LET x == runs[r] IN
    /\ x.status = "succeeded" =>
         \A v \in Results :
           complete(x, x.token, v).reply = "ok" <=> x.outcome = v
    /\ x.status = "failed" /\ AttemptStatus(x) = "failed" =>
         \A v \in Causes : fail(x, x.token, v).reply = "ok" <=> x.outcome = v

(* The in-process store keeps the promises of the database store: leases   *)
(* are fenced, the log tells the status and starts an Attempt once, and a  *)
(* report can be repeated.                                                 *)
RecordsSound == TypeOK /\ LeasesFenced /\ LogIsFaithful /\ RepeatedReportAccepted
=============================================================================
