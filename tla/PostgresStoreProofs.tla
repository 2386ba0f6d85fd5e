------------------------- MODULE PostgresStoreProofs -------------------------
(***************************************************************************)
(* Proofs about PostgresStore, for every set of Runs and Nodes, every      *)
(* retry policy, lease length and reconcile limit.                         *)
(*                                                                         *)
(* Good(x), the inductive invariant of one row, is preserved whenever a    *)
(* transaction writes the statuses, the lease or the log of a row          *)
(* consistently (the first lemmas), which each transaction does, taken as  *)
(* a function on rows; the theorems lift this to the steps of the store.   *)
(***************************************************************************)
EXTENDS PostgresStore, RunRecordsProofs

-----------------------------------------------------------------------------
(* The transactions.                                                       *)

AllGood ==
  /\ \A r \in Runs : Good(runs[r])
  /\ runs \in [Runs -> Run]
  /\ capacity \in [Nodes -> Nat]
  /\ claims \in [Calls -> Claim]

-----------------------------------------------------------------------------
(* finalizeCancellationTx keeps a good row good.                           *)
LEMMA FinalizeGood ==
  ASSUME NEW x, Good(x), Present(x), x.cancelRequested,
         x.status \in {"cancelling", "cancelled"}
  PROVE  Good(finalizeCancellationTx(x))
<1>1. CASE x.status = "cancelled"
  BY <1>1 DEF finalizeCancellationTx
<1>2. CASE x.status = "cancelling"
  <2> DEFINE y == finalizeCancellationTx(x)
  <2>1. y = [x EXCEPT !.status   = "cancelled",
                      !.attempts = SetAttempt(x, "cancelled"),
                      !.log = appendEvents(x, "attempt.cancelled",
                                              "run.cancelled")]
    BY <1>2 DEF finalizeCancellationTx
  <2>2. x \in Run /\ x.outcome = NoValue
    BY <1>2 DEF Good, Coherent, Present
  <2>3. SetAttempt(x, "cancelled") \in Seq(AttemptStatuses)
    BY SetAttemptFacts DEF AttemptStatuses
  <2>4. appendEvents(x, "attempt.cancelled", "run.cancelled")
          \in Seq([type : EventTypes, attempt : Nat])
    BY <2>2, AppendEventFacts DEF EventTypes, RunStatusOf
  <2>5. y \in Run
    BY <2>1, <2>2, <2>3, <2>4 DEF Run, RunStatuses
  <2>6. /\ y.status = "cancelled" /\ y.attempts = SetAttempt(x, "cancelled")
        /\ y.cancelRequested /\ y.outcome = NoValue
        /\ y.token = x.token /\ y.grants = x.grants /\ y.ttl = x.ttl
    BY <2>1, <2>2 DEF Run
  <2>7. "cancelled" \in CurrentAttemptOf["cancelled"]
        /\ "cancelled" \in AttemptStatuses /\ "cancelled" \in RunStatuses
    BY DEF CurrentAttemptOf, RunStatuses, AttemptStatuses
  <2> HIDE DEF y
  <2> QED
    BY <2>5, <2>6, <2>7, StatusChange DEF y
<1> QED
  BY <1>1, <1>2

(* requestCancelTx keeps a good row good: a queued Attempt is cancelled at *)
(* once, a leased or running one waits for its Node.                       *)
LEMMA RequestCancelGood ==
  ASSUME NEW x, Good(x), Present(x)
  PROVE  Good(requestCancelTx(x))
<1> DEFINE q == [x EXCEPT !.status          = "cancelling",
                          !.cancelRequested = TRUE,
                          !.log = appendEvent(x, "run.cancel_requested")]
           y == requestCancelTx(x)
<1>1. CASE terminalRunStatus(x.status) \/ x.cancelRequested
  BY <1>1 DEF requestCancelTx
<1>2. CASE ~(terminalRunStatus(x.status) \/ x.cancelRequested)
  <2>1. x \in Run /\ x.outcome = NoValue /\ x.status \in {"queued", "running"}
    BY <1>2 DEF Good, Coherent, Present, terminalRunStatus, Run, RunStatuses
  <2>2. appendEvent(x, "run.cancel_requested")
          \in Seq([type : EventTypes, attempt : Nat])
    BY <2>1, AppendEventFacts DEF EventTypes, RunStatusOf
  <2>3. q \in Run
    BY <2>1, <2>2 DEF Run, RunStatuses
  <2>4. /\ q.status = "cancelling" /\ q.attempts = x.attempts
        /\ q.cancelRequested /\ q.outcome = NoValue
        /\ q.token = x.token /\ q.grants = x.grants /\ q.ttl = x.ttl
    BY <2>1 DEF Run
  <2>5. AttemptStatus(x) \in {"queued", "leased", "running"}
    BY <2>1 DEF Good, Coherent, Present, CurrentAttemptOf, RunStatuses
  <2>6. CASE AttemptStatus(x) = "queued"
    <3>1. y = finalizeCancellationTx(q)
      BY <1>2, <2>6 DEF requestCancelTx
    <3>2. y = [q EXCEPT !.status   = "cancelled",
                        !.attempts = SetAttempt(x, "cancelled"),
                        !.log = appendEvents(q, "attempt.cancelled",
                                                "run.cancelled")]
      BY <2>4, <3>1 DEF finalizeCancellationTx, SetAttempt, Number
    <3>3. appendEvents(q, "attempt.cancelled", "run.cancelled")
            \in Seq([type : EventTypes, attempt : Nat])
      BY <2>3, AppendEventFacts DEF EventTypes, RunStatusOf
    <3>4. SetAttempt(x, "cancelled") \in Seq(AttemptStatuses)
      BY SetAttemptFacts DEF AttemptStatuses
    <3> HIDE DEF q
    <3>5. y \in Run
      BY <2>3, <3>2, <3>3, <3>4 DEF Run, RunStatuses
    <3>6. /\ y.status = "cancelled" /\ y.attempts = SetAttempt(x, "cancelled")
          /\ y.cancelRequested /\ y.outcome = NoValue
          /\ y.token = x.token /\ y.grants = x.grants /\ y.ttl = x.ttl
      BY <2>3, <2>4, <3>2 DEF Run
    <3>7. "cancelled" \in CurrentAttemptOf["cancelled"]
          /\ "cancelled" \in AttemptStatuses /\ "cancelled" \in RunStatuses
      BY DEF CurrentAttemptOf, RunStatuses, AttemptStatuses
    <3> HIDE DEF y
    <3> QED
      BY <3>5, <3>6, <3>7, StatusChange DEF y
  <2>7. CASE AttemptStatus(x) # "queued"
    <3>1. y = q
      BY <1>2, <2>7 DEF requestCancelTx
    <3>2. q.attempts = SetAttempt(x, AttemptStatus(x))
      <4>1. x.attempts \in Seq(AttemptStatuses)
        BY <2>1 DEF Run
      <4> QED
        BY <2>4, <4>1 DEF SetAttempt, AttemptStatus
    <3>3. /\ AttemptStatus(x) \in CurrentAttemptOf["cancelling"]
          /\ AttemptStatus(x) \in AttemptStatuses
          /\ "cancelling" \in RunStatuses
      BY <2>5, <2>7 DEF CurrentAttemptOf, RunStatuses, AttemptStatuses
    <3>4. x.token > 0
      BY <2>5, <2>7 DEF Good, Fenced, Present
    <3> HIDE DEF q
    <3>5. Good(q)
      BY <2>3, <2>4, <3>2, <3>3, <3>4, StatusChange
    <3> QED
      BY <3>1, <3>5
  <2> QED
    BY <2>6, <2>7
<1> QED
  BY <1>1, <1>2

(* Start keeps a row good: only a leased Attempt of a queued Run starts. *)
LEMMA StartedGood ==
  ASSUME NEW x, Good(x), Present(x),
         x.status = "queued", x.token > 0
  PROVE  Good(Started(x))
<1> DEFINE y == Started(x)
<1>1. y = [x EXCEPT !.status   = "running",
                    !.attempts = SetAttempt(x, "running"),
                    !.log = appendEvents(x, "attempt.started", "run.started")]
  BY DEF Started
<1>2. x \in Run /\ ~x.cancelRequested /\ x.outcome = NoValue
  BY DEF Good, Coherent, Present
<1>3. SetAttempt(x, "running") \in Seq(AttemptStatuses)
  BY SetAttemptFacts DEF AttemptStatuses
<1>4. appendEvents(x, "attempt.started", "run.started")
        \in Seq([type : EventTypes, attempt : Nat])
  BY <1>2, AppendEventFacts DEF EventTypes, RunStatusOf
<1>5. y \in Run
  BY <1>1, <1>2, <1>3, <1>4 DEF Run, RunStatuses
<1>6. /\ y.status = "running" /\ y.attempts = SetAttempt(x, "running")
      /\ ~y.cancelRequested /\ y.outcome = NoValue
      /\ y.token = x.token /\ y.grants = x.grants /\ y.ttl = x.ttl
  BY <1>1, <1>2 DEF Run
<1>7. "running" \in CurrentAttemptOf["running"]
      /\ "running" \in AttemptStatuses /\ "running" \in RunStatuses
  BY DEF CurrentAttemptOf, RunStatuses, AttemptStatuses
<1> HIDE DEF y
<1> QED
  BY <1>5, <1>6, <1>7, StatusChange DEF y

(* Complete keeps a row good. *)
LEMMA CompletedGood ==
  ASSUME NEW x, Good(x), Present(x),
         x.status = "running", NEW result \in Results
  PROVE  Good(Completed(x, result))
<1> DEFINE y == Completed(x, result)
<1>1. y = [x EXCEPT !.status   = "succeeded",
                    !.outcome  = result,
                    !.attempts = SetAttempt(x, "succeeded"),
                    !.log = appendEvents(x, "attempt.succeeded", "run.succeeded")]
  BY DEF Completed
<1>2. x \in Run /\ ~x.cancelRequested
  BY DEF Good, Coherent, Present
<1>3. SetAttempt(x, "succeeded") \in Seq(AttemptStatuses)
  BY SetAttemptFacts DEF AttemptStatuses
<1>4. appendEvents(x, "attempt.succeeded", "run.succeeded")
        \in Seq([type : EventTypes, attempt : Nat])
  BY <1>2, AppendEventFacts DEF EventTypes, RunStatusOf
<1>5. y \in Run
  BY <1>1, <1>2, <1>3, <1>4 DEF Run, RunStatuses, Outcomes
<1>6. /\ y.status = "succeeded" /\ y.attempts = SetAttempt(x, "succeeded")
      /\ ~y.cancelRequested /\ y.outcome = result
      /\ y.token = x.token /\ y.grants = x.grants /\ y.ttl = x.ttl
  BY <1>1, <1>2 DEF Run
<1>7. "succeeded" \in CurrentAttemptOf["succeeded"]
      /\ "succeeded" \in AttemptStatuses /\ "succeeded" \in RunStatuses
  BY DEF CurrentAttemptOf, RunStatuses, AttemptStatuses
<1> HIDE DEF y
<1> QED
  BY <1>5, <1>6, <1>7, StatusChange, ConstantsAssumption DEF y

(* Fail keeps a row good. *)
LEMMA FailedGood ==
  ASSUME NEW x, Good(x), Present(x),
         x.status \in {"queued", "running"}, NEW cause \in Causes
  PROVE  Good(Failed(x, cause))
<1> DEFINE y == Failed(x, cause)
<1>1. y = [x EXCEPT !.status   = "failed",
                    !.outcome  = cause,
                    !.attempts = SetAttempt(x, "failed"),
                    !.log = appendEvents(x, "attempt.failed", "run.failed")]
  BY DEF Failed
<1>2. x \in Run /\ ~x.cancelRequested
  BY DEF Good, Coherent, Present
<1>3. SetAttempt(x, "failed") \in Seq(AttemptStatuses)
  BY SetAttemptFacts DEF AttemptStatuses
<1>4. appendEvents(x, "attempt.failed", "run.failed")
        \in Seq([type : EventTypes, attempt : Nat])
  BY <1>2, AppendEventFacts DEF EventTypes, RunStatusOf
<1>5. y \in Run
  BY <1>1, <1>2, <1>3, <1>4 DEF Run, RunStatuses, Outcomes
<1>6. /\ y.status = "failed" /\ y.attempts = SetAttempt(x, "failed")
      /\ ~y.cancelRequested /\ y.outcome = cause
      /\ y.token = x.token /\ y.grants = x.grants /\ y.ttl = x.ttl
  BY <1>1, <1>2 DEF Run
<1>7. "failed" \in CurrentAttemptOf["failed"]
      /\ "failed" \in AttemptStatuses /\ "failed" \in RunStatuses
  BY DEF CurrentAttemptOf, RunStatuses, AttemptStatuses
<1> HIDE DEF y
<1> QED
  BY <1>5, <1>6, <1>7, StatusChange, ConstantsAssumption DEF y

(* Giving up on the last Attempt keeps a row good. *)
LEMMA GivenUpGood ==
  ASSUME NEW x, Good(x), Present(x),
         x.status = "running"
  PROVE  Good(GivenUp(x))
<1> DEFINE y == GivenUp(x)
<1>1. y = [x EXCEPT !.status   = "failed",
                    !.outcome  = LeaseExpired,
                    !.attempts = SetAttempt(x, "lost"),
                    !.log = appendEvents(x, "attempt.lost", "run.failed")]
  BY DEF GivenUp
<1>2. x \in Run /\ ~x.cancelRequested
  BY DEF Good, Coherent, Present
<1>3. SetAttempt(x, "lost") \in Seq(AttemptStatuses)
  BY SetAttemptFacts DEF AttemptStatuses
<1>4. appendEvents(x, "attempt.lost", "run.failed")
        \in Seq([type : EventTypes, attempt : Nat])
  BY <1>2, AppendEventFacts DEF EventTypes, RunStatusOf
<1>5. y \in Run
  BY <1>1, <1>2, <1>3, <1>4 DEF Run, RunStatuses, Outcomes
<1>6. /\ y.status = "failed" /\ y.attempts = SetAttempt(x, "lost")
      /\ ~y.cancelRequested /\ y.outcome = LeaseExpired
      /\ y.token = x.token /\ y.grants = x.grants /\ y.ttl = x.ttl
  BY <1>1, <1>2 DEF Run
<1>7. "lost" \in CurrentAttemptOf["failed"]
      /\ "lost" \in AttemptStatuses /\ "failed" \in RunStatuses
  BY DEF CurrentAttemptOf, RunStatuses, AttemptStatuses
<1> HIDE DEF y
<1> QED
  BY <1>5, <1>6, <1>7, StatusChange, ConstantsAssumption DEF y

(* A retry keeps a row good: the lost Attempt joins the earlier ones, the   *)
(* new one has no lease and the retry policy still bounds their number.    *)
LEMMA RequeuedGood ==
  ASSUME NEW x, Good(x), Present(x), x.status = "running",
         Number(x) < MaxAttempts
  PROVE  Good(Requeued(x))
<1> DEFINE y == Requeued(x)
           l == SetAttempt(x, "lost")
<1>1. y = [x EXCEPT !.status    = "queued",
                    !.attempts  = Append(l, "queued"),
                    !.available = FALSE,
                    !.node      = NoValue,
                    !.token     = 0,
                    !.ttl       = 0,
                    !.log = Append(appendEvent(x, "attempt.lost"),
                                   Event("attempt.queued", Number(x) + 1))]
  BY DEF Requeued
<1>2. x \in Run /\ ~x.cancelRequested /\ x.outcome = NoValue
  BY DEF Good, Coherent, Present
<1>3. /\ l \in Seq(AttemptStatuses) /\ Len(l) = Number(x)
      /\ l[Number(x)] = "lost" /\ \A i \in 1 .. Number(x) - 1 : l[i] = "lost"
      /\ Number(x) \in 1 .. MaxAttempts
  BY SetAttemptFacts DEF AttemptStatuses
<1> HIDE DEF l
<1>4. /\ Append(l, "queued") \in Seq(AttemptStatuses)
      /\ Len(Append(l, "queued")) = Number(x) + 1
      /\ \A i \in 1 .. Number(x) : Append(l, "queued")[i] = l[i]
      /\ Append(l, "queued")[Number(x) + 1] = "queued"
  BY <1>3, AppendProperties DEF AttemptStatuses
<1>5. Append(appendEvent(x, "attempt.lost"),
             Event("attempt.queued", Number(x) + 1))
        \in Seq([type : EventTypes, attempt : Nat])
  BY <1>2, AppendEventFacts DEF EventTypes, RunStatusOf
<1>6. y \in Run
  <2>1. ASSUME NEW as \in Seq(AttemptStatuses),
               NEW log \in Seq([type : EventTypes, attempt : Nat])
        PROVE  [x EXCEPT !.status = "queued", !.attempts = as,
                         !.available = FALSE, !.node = NoValue,
                         !.token = 0, !.ttl = 0, !.log = log] \in Run
    BY <1>2 DEF Run, RunStatuses
  <2> DEFINE as == Append(l, "queued")
             log == Append(appendEvent(x, "attempt.lost"),
                           Event("attempt.queued", Number(x) + 1))
  <2>2. /\ as \in Seq(AttemptStatuses)
        /\ log \in Seq([type : EventTypes, attempt : Nat])
        /\ y = [x EXCEPT !.status = "queued", !.attempts = as,
                         !.available = FALSE, !.node = NoValue,
                         !.token = 0, !.ttl = 0, !.log = log]
    BY <1>1, <1>4, <1>5
  <2> HIDE DEF as, log, y
  <2> QED
    BY <2>1, <2>2
<1>7. /\ y.status = "queued" /\ y.attempts = Append(l, "queued")
      /\ ~y.cancelRequested /\ y.outcome = NoValue
      /\ y.token = 0 /\ y.ttl = 0
  BY <1>1, <1>2 DEF Run
<1>8. Number(y) = Number(x) + 1 /\ AttemptStatus(y) = "queued"
  BY <1>4, <1>7 DEF Number, AttemptStatus
<1>9. \A i \in 1 .. Number(y) - 1 : y.attempts[i] = "lost"
  <2>1. Number(x) \in Nat /\ Number(y) - 1 = Number(x)
    BY <1>3, <1>8, ConstantsAssumption
  <2>2. \A i \in 1 .. Number(x) : l[i] = "lost"
    BY <1>3, <2>1
  <2> QED
    BY <1>4, <1>7, <2>1, <2>2
<1>10. Number(y) \in 1 .. MaxAttempts
  BY <1>3, <1>8, ConstantsAssumption
<1> HIDE DEF y
<1>11. Coherent(y)
  BY <1>7, <1>8, <1>9, <1>10 DEF Coherent, CurrentAttemptOf, RunStatuses
<1>12. Fenced(y)
  BY <1>7, <1>8 DEF Fenced
<1> QED
  BY <1>6, <1>11, <1>12 DEF Good, y

(* Claim keeps a row good: the new token is the last one granted, for the  *)
(* current Attempt.                                                        *)
LEMMA LeasedGood ==
  ASSUME NEW x, Good(x), Present(x), x.status = "queued", NEW n \in Nodes
  PROVE  Good(Leased(x, n))
<1> DEFINE y == Leased(x, n)
<1>1. y = [x EXCEPT !.attempts = SetAttempt(x, "leased"),
                    !.node     = n,
                    !.token    = Len(x.grants) + 1,
                    !.ttl      = LeaseTTL,
                    !.grants   = Append(x.grants, Number(x)),
                    !.log      = y.log]
  BY DEF Leased, Good, Run
<1>2. x \in Run /\ ~x.cancelRequested /\ x.outcome = NoValue
  BY DEF Good, Coherent, Present
<1>3. /\ SetAttempt(x, "leased") \in Seq(AttemptStatuses)
      /\ Len(SetAttempt(x, "leased")) = Number(x)
      /\ SetAttempt(x, "leased")[Number(x)] = "leased"
      /\ \A i \in 1 .. Number(x) - 1 : SetAttempt(x, "leased")[i] = "lost"
      /\ Number(x) \in 1 .. MaxAttempts
  BY SetAttemptFacts DEF AttemptStatuses
<1>4. y.log \in Seq([type : EventTypes, attempt : Nat])
  <2>1. y.log = IF AttemptStatus(x) = "leased"
                THEN appendEvents(x, "attempt.lease_expired", "attempt.leased")
                ELSE appendEvent(x, "attempt.leased")
    BY <1>2 DEF Leased, Run
  <2> QED
    BY <1>2, <2>1, AppendEventFacts DEF EventTypes
<1>5. x.grants \in Seq(Nat) /\ Number(x) \in Nat /\ Len(x.grants) \in Nat
  BY <1>2, <1>3, ConstantsAssumption DEF Run
<1>6. /\ Append(x.grants, Number(x)) \in Seq(Nat)
      /\ Len(Append(x.grants, Number(x))) = Len(x.grants) + 1
      /\ Append(x.grants, Number(x))[Len(x.grants) + 1] = Number(x)
  BY <1>5, AppendProperties
<1>7. /\ y.status = "queued" /\ y.attempts = SetAttempt(x, "leased")
      /\ ~y.cancelRequested /\ y.outcome = NoValue
      /\ y.token = Len(x.grants) + 1 /\ y.ttl = LeaseTTL
      /\ y.grants = Append(x.grants, Number(x))
  BY <1>2 DEF Run, Leased
<1> HIDE DEF y
<1>8. y \in Run
  <2>1. ASSUME NEW as \in Seq(AttemptStatuses), NEW t \in Nat, NEW ttl \in Nat,
               NEW gs \in Seq(Nat),
               NEW log \in Seq([type : EventTypes, attempt : Nat])
        PROVE  [x EXCEPT !.attempts = as, !.node = n, !.token = t, !.ttl = ttl,
                         !.grants = gs, !.log = log] \in Run
    BY <1>2 DEF Run
  <2>2. Len(x.grants) + 1 \in Nat /\ LeaseTTL \in Nat
    BY <1>5, ConstantsAssumption
  <2> DEFINE as == SetAttempt(x, "leased")
             t == Len(x.grants) + 1
             gs == Append(x.grants, Number(x))
             log == y.log
  <2>3. /\ as \in Seq(AttemptStatuses) /\ t \in Nat /\ gs \in Seq(Nat)
        /\ log \in Seq([type : EventTypes, attempt : Nat])
        /\ y = [x EXCEPT !.attempts = as, !.node = n, !.token = t,
                         !.ttl = LeaseTTL, !.grants = gs, !.log = log]
    BY <1>1, <1>3, <1>4, <1>6, <2>2
  <2> HIDE DEF as, t, gs, log
  <2> QED
    BY <2>1, <2>2, <2>3
<1>9. Number(y) = Number(x) /\ AttemptStatus(y) = "leased"
  BY <1>3, <1>7 DEF Number, AttemptStatus
<1>10. Coherent(y)
  BY <1>3, <1>7, <1>9 DEF Coherent, CurrentAttemptOf, RunStatuses
<1>11. Fenced(y)
  BY <1>5, <1>6, <1>7, <1>9 DEF Fenced
<1> QED
  BY <1>8, <1>10, <1>11 DEF Good, y

(* The passing of time, and Renew, which only move the clocks of a row.    *)
LEMMA ClockGood ==
  ASSUME NEW x, Good(x), Present(x)
  PROVE  /\ x.token > 0 => Good([x EXCEPT !.ttl = LeaseTTL])
         /\ x.ttl > 0 => Good([x EXCEPT !.ttl = x.ttl - 1])
         /\ Good([x EXCEPT !.deadline = "passed"])
         /\ Good([x EXCEPT !.available = TRUE])
<1>1. ASSUME NEW y \in Run, y.status = x.status, y.attempts = x.attempts,
             y.cancelRequested = x.cancelRequested, y.outcome = x.outcome,
             y.token = x.token, y.grants = x.grants,
             y.token = 0 => y.ttl = 0
      PROVE  Good(y)
  <2>1. Number(y) = Number(x) /\ AttemptStatus(y) = AttemptStatus(x)
    BY <1>1 DEF Number, AttemptStatus
  <2>2. Coherent(y)
    BY <1>1, <2>1 DEF Good, Coherent, Present
  <2>3. Fenced(y)
    BY <1>1, <2>1 DEF Good, Fenced
  <2> QED
    BY <2>2, <2>3 DEF Good
<1>2. x \in Run /\ (x.token = 0 => x.ttl = 0) /\ x.ttl \in Nat
      /\ x.token \in Nat
  BY DEF Good, Fenced, Run
<1>3. ASSUME NEW t \in Nat, x.token = 0 => t = 0
      PROVE  Good([x EXCEPT !.ttl = t])
  <2> DEFINE y == [x EXCEPT !.ttl = t]
  <2>1. y \in Run
    BY <1>2, <1>3 DEF Run
  <2>2. /\ y.status = x.status /\ y.attempts = x.attempts
        /\ y.cancelRequested = x.cancelRequested /\ y.outcome = x.outcome
        /\ y.token = x.token /\ y.grants = x.grants /\ y.ttl = t
    BY <1>2 DEF Run
  <2> HIDE DEF y
  <2> QED
    BY <1>1, <1>3, <2>1, <2>2 DEF y
<1>4. /\ x.token > 0 => Good([x EXCEPT !.ttl = LeaseTTL])
      /\ x.ttl > 0 => Good([x EXCEPT !.ttl = x.ttl - 1])
  <2>1. LeaseTTL \in Nat /\ (x.ttl > 0 => x.ttl - 1 \in Nat)
    BY <1>2, ConstantsAssumption
  <2>2. /\ x.token > 0 => (x.token = 0 => LeaseTTL = 0)
        /\ x.ttl > 0 => (x.token = 0 => x.ttl - 1 = 0)
    BY <1>2
  <2> QED
    BY <1>3, <2>1, <2>2
<1>5. Good([x EXCEPT !.deadline = "passed"])
  <2> DEFINE y == [x EXCEPT !.deadline = "passed"]
  <2>1. y \in Run
    BY <1>2 DEF Run
  <2> QED
    BY <1>1, <1>2, <2>1 DEF Run
<1>6. Good([x EXCEPT !.available = TRUE])
  <2> DEFINE y == [x EXCEPT !.available = TRUE]
  <2>1. y \in Run
    BY <1>2 DEF Run
  <2> QED
    BY <1>1, <1>2, <2>1 DEF Run
<1> QED
  BY <1>4, <1>5, <1>6

-----------------------------------------------------------------------------
(* What an accepted call of a Node says about the row.                     *)
LEMMA AcceptedCalls ==
  ASSUME NEW x, Good(x), Present(x), NEW k \in DOMAIN x.grants, NEW v
  PROVE  /\ StartReply(x, k) = "ok" => x.status = "queued" /\ x.token > 0
         /\ CompleteReply(x, k, v) = "ok" =>
              x.status = "running" \/ x.status = "succeeded"
         /\ FailReply(x, k, v) = "ok" =>
              x.status \in {"queued", "running"} \/ x.status = "failed"
         /\ AcknowledgeReply(x, k) = "ok" =>
              x.cancelRequested /\ x.status \in {"cancelling", "cancelled"}
         /\ RenewReply(x, k) = "ok" => x.token > 0
<1>1. /\ x \in Run
      /\ x.status \in RunStatuses
      /\ AttemptStatus(x) \in CurrentAttemptOf[x.status]
      /\ x.cancelRequested <=> x.status \in {"cancelling", "cancelled"}
  BY DEF Good, Coherent, Present, Run
<1>2. /\ AttemptStatus(x) = "leased" => x.status \in {"queued", "cancelling"}
      /\ AttemptStatus(x) = "running" => x.status \in {"running", "cancelling"}
  BY <1>1 DEF CurrentAttemptOf, RunStatuses
<1>3. k > 0 /\ k \in Nat
  BY <1>1 DEF Run
<1>4. transition(x, k) => x.token > 0
  BY <1>3 DEF transition
<1>5. StartReply(x, k) = "ok" =>
        /\ transition(x, k) /\ x.status # "cancelling"
        /\ AttemptStatus(x) = "leased"
  BY DEF StartReply
<1>6. CompleteReply(x, k, v) = "ok" =>
        \/ x.status = "succeeded"
        \/ x.status # "cancelling" /\ AttemptStatus(x) = "running"
  BY DEF CompleteReply
<1>7. FailReply(x, k, v) = "ok" =>
        \/ x.status = "failed"
        \/ x.status # "cancelling" /\ AttemptStatus(x) \in {"running", "leased"}
  BY DEF FailReply
<1>8. AcknowledgeReply(x, k) = "ok" => x.status \in {"cancelling", "cancelled"}
  BY DEF AcknowledgeReply
<1>9. RenewReply(x, k) = "ok" => x.token > 0
  <2>1. RenewReply(x, k) = "ok" => Renewable(x, k)
    BY DEF RenewReply
  <2> QED
    BY <1>3, <2>1 DEF Renewable
<1> QED
  BY <1>1, <1>2, <1>4, <1>5, <1>6, <1>7, <1>8, <1>9

(* A transaction that leaves a good row behind keeps the store good.       *)
LEMMA UpdateGood ==
  ASSUME AllGood, NEW r \in Runs, NEW x, Good(x), Update(r, x)
  PROVE  AllGood'
<1>1. x \in Run
  BY DEF Good
<1> QED
  BY <1>1 DEF AllGood, Update

(* Recovering an expired row keeps it good.                                *)
LEMMA RecoveredGood ==
  ASSUME NEW x, Good(x), Expired(x)
  PROVE  Good(Recovered(x))
<1>1. Present(x) /\ x \in Run
  BY DEF Expired, Present, Good
<1>2. CASE x.status = "cancelling"
  <2>1. x.cancelRequested
    BY <1>1, <1>2 DEF Good, Coherent, Present
  <2> QED
    BY <1>1, <1>2, <2>1, FinalizeGood DEF Recovered
<1>3. CASE x.status = "running"
  <2>1. Number(x) \in Nat
    BY <1>1 DEF Run, Number
  <2>2. CASE Number(x) >= MaxAttempts
    BY <1>1, <1>3, <2>2, GivenUpGood DEF Recovered, Lost
  <2>3. CASE Number(x) < MaxAttempts
    <3>1. ~(Number(x) >= MaxAttempts)
      BY <2>1, <2>3, ConstantsAssumption
    <3> QED
      BY <1>1, <1>3, <2>3, <3>1, RequeuedGood DEF Recovered, Lost
  <2> QED
    BY <2>1, <2>2, <2>3, ConstantsAssumption
<1> QED
  BY <1>2, <1>3 DEF Expired

(* Each call of a Node keeps the store good.                               *)
LEMMA NodeCallGood ==
  ASSUME AllGood, NEW r \in Runs, NEW k \in DOMAIN runs[r].grants,
         NodeCall(r, k)
  PROVE  AllGood'
<1> DEFINE x == runs[r]
<1>1. Good(x)
  BY DEF AllGood
<1>2. Present(x)
  <2>1. AbsentRun.grants = <<>>
    BY DEF AbsentRun
  <2>2. x.status = "absent" => x.grants = <<>>
    BY <1>1, <2>1 DEF Good, Coherent
  <2> QED
    BY <2>2 DEF Present
<1> HIDE DEF x
<1>3. CASE Renew(r, k)
  <2>1. Good([x EXCEPT !.ttl = LeaseTTL])
    BY <1>1, <1>2, <1>3, AcceptedCalls, ClockGood DEF Renew, x
  <2> QED
    BY <1>3, <2>1, UpdateGood DEF Renew, x
<1>4. CASE Start(r, k)
  <2>1. Good(Started(x))
    BY <1>1, <1>2, <1>4, AcceptedCalls, StartedGood DEF Start, x
  <2> QED
    BY <1>4, <2>1, UpdateGood DEF Start, x
<1>5. CASE AcknowledgeCancellation(r, k)
  <2>1. Good(finalizeCancellationTx(x))
    BY <1>1, <1>2, <1>5, AcceptedCalls, FinalizeGood
       DEF AcknowledgeCancellation, x
  <2> QED
    BY <1>5, <2>1, UpdateGood DEF AcknowledgeCancellation, x
<1>6. ASSUME NEW result \in Results, Complete(r, k, result) PROVE AllGood'
  <2>1. x.status = "running" \/ x.status = "succeeded"
    BY <1>1, <1>2, <1>6, AcceptedCalls DEF Complete, x
  <2>2. Good(Completed(x, result))
    <3>1. CASE x.status = "running"
      BY <1>1, <1>2, <3>1, CompletedGood
    <3>2. CASE x.status = "succeeded"
      BY <1>1, <3>2 DEF Completed
    <3> QED
      BY <2>1, <3>1, <3>2
  <2> QED
    BY <1>6, <2>2, UpdateGood DEF Complete, x
<1>7. ASSUME NEW cause \in Causes, Fail(r, k, cause) PROVE AllGood'
  <2>1. x.status \in {"queued", "running"} \/ x.status = "failed"
    BY <1>1, <1>2, <1>7, AcceptedCalls DEF Fail, x
  <2>2. Good(Failed(x, cause))
    <3>1. CASE x.status \in {"queued", "running"}
      BY <1>1, <1>2, <3>1, FailedGood
    <3>2. CASE x.status = "failed"
      BY <1>1, <3>2 DEF Failed
    <3> QED
      BY <2>1, <3>1, <3>2
  <2> QED
    BY <1>7, <2>2, UpdateGood DEF Fail, x
<1> QED
  BY <1>3, <1>4, <1>5, <1>6, <1>7 DEF NodeCall

(* Each step of Claim keeps the store good.                                *)
LEMMA ClaimGood ==
  ASSUME AllGood, NEW c \in Calls, ClaimStep(c)
  PROVE  AllGood'
<1>1. ASSUME NEW n \in Nodes, ClaimBegin(c, n) PROVE AllGood'
  <2>1. Candidates \in SUBSET (Runs \X Nat)
    <3>1. \A r \in Runs : Len(runs[r].grants) \in Nat
      BY DEF AllGood, Run
    <3> QED
      BY <3>1 DEF Candidates
  <2>2. [node |-> n, seen |-> Candidates] \in Claim
    BY <2>1 DEF Claim
  <2> QED
    BY <1>1, <2>2 DEF ClaimBegin, AllGood
<1>2. NoClaim \in Claim
  BY DEF NoClaim, Claim
<1>3. ASSUME NEW r \in Runs, ClaimCommit(c, r) PROVE AllGood'
  <2>1. Good(runs[r]) /\ Present(runs[r]) /\ runs[r].status = "queued"
    BY <1>3 DEF AllGood, ClaimCommit, StillClaimable, Present
  <2>2. claims[c].node \in Nodes
    BY <1>3, ConstantsAssumption DEF ClaimCommit
  <2>3. Good(Leased(runs[r], claims[c].node))
    BY <2>1, <2>2, LeasedGood
  <2>4. Leased(runs[r], claims[c].node) \in Run
    BY <2>3 DEF Good
  <2> QED
    BY <1>2, <1>3, <2>3, <2>4 DEF ClaimCommit, AllGood
<1>4. CASE ClaimNothing(c)
  BY <1>2, <1>4 DEF ClaimNothing, AllGood
<1> QED
  BY <1>1, <1>3, <1>4 DEF ClaimStep

(* Reconcile keeps the store good, whichever rows it handles.              *)
LEMMA ReconcileGood ==
  ASSUME AllGood, NEW D \in SUBSET Runs, NEW E \in SUBSET Runs,
         Reconcile(D, E)
  PROVE  AllGood'
<1> DEFINE cancelled == [r \in Runs |-> IF r \in D THEN requestCancelTx(runs[r])
                                                    ELSE runs[r]]
<1>1. /\ \A r \in D : Overdue(runs[r])
      /\ \A r \in E : Expired(cancelled[r])
      /\ runs' = [r \in Runs |-> IF r \in E THEN Recovered(cancelled[r])
                                            ELSE cancelled[r]]
      /\ UNCHANGED <<capacity, claims>>
  BY DEF Reconcile
<1>2. ASSUME NEW r \in Runs PROVE Good(cancelled[r])
  <2>1. Good(runs[r])
    BY DEF AllGood
  <2>2. CASE r \in D
    <3>1. Present(runs[r])
      BY <1>1, <2>2 DEF Overdue, Present
    <3> QED
      BY <2>1, <2>2, <3>1, RequestCancelGood
  <2> QED
    BY <2>1, <2>2
<1> HIDE DEF cancelled
<1>3. ASSUME NEW r \in Runs PROVE Good(runs'[r])
  BY <1>1, <1>2, RecoveredGood
<1>4. runs' \in [Runs -> Run]
  <2>1. \A r \in Runs : runs'[r] \in Run
    BY <1>3 DEF Good
  <2> QED
    BY <1>1, <2>1
<1> QED
  BY <1>1, <1>3, <1>4 DEF AllGood

(* Every step of the store keeps it good.                                  *)
LEMMA NextGood == AllGood /\ [Next]_vars => AllGood'
<1> SUFFICES ASSUME AllGood, [Next]_vars PROVE AllGood'
  OBVIOUS
<1>1. ASSUME NEW n \in Nodes, NEW c \in Capacities, RegisterNode(n, c)
      PROVE  AllGood'
  <2>1. c \in Nat
    BY ConstantsAssumption
  <2> QED
    BY <1>1, <2>1 DEF RegisterNode, AllGood
<1>2. ASSUME NEW c \in Calls, ClaimStep(c) PROVE AllGood'
  BY <1>2, ClaimGood
<1>3. ASSUME NEW r \in Runs, RunStep(r) PROVE AllGood'
  <2>1. Good(runs[r])
    BY DEF AllGood
  <2>2. ASSUME NEW d \in {"none", "ahead"}, Submit(r, d) PROVE AllGood'
    BY <2>2, SubmittedGood, UpdateGood DEF Submit
  <2>3. CASE CancelRun(r)
    BY <2>1, <2>3, RequestCancelGood, UpdateGood DEF CancelRun, Present
  <2>4. ASSUME NEW k \in DOMAIN runs[r].grants, NodeCall(r, k) PROVE AllGood'
    BY <2>4, NodeCallGood
  <2>5. Present(runs[r]) \/ runs[r] = AbsentRun
    BY <2>1 DEF Good, Coherent, Present
  <2>6. /\ AbsentRun.ttl = 0 /\ AbsentRun.deadline = "none"
        /\ AbsentRun.status = "absent"
    BY DEF AbsentRun
  <2>7. CASE LeaseTicks(r)
    <3>1. Present(runs[r]) /\ runs[r].ttl > 0
      BY <2>5, <2>6, <2>7 DEF LeaseTicks
    <3> QED
      BY <2>1, <2>7, <3>1, ClockGood, UpdateGood DEF LeaseTicks
  <2>8. CASE DeadlinePasses(r)
    <3>1. Present(runs[r])
      BY <2>5, <2>6, <2>8 DEF DeadlinePasses
    <3> QED
      BY <2>1, <2>8, <3>1, ClockGood, UpdateGood DEF DeadlinePasses
  <2>9. CASE BackoffElapses(r)
    <3>1. Present(runs[r])
      BY <2>5, <2>6, <2>9 DEF BackoffElapses
    <3> QED
      BY <2>1, <2>9, <3>1, ClockGood, UpdateGood DEF BackoffElapses
  <2> QED
    BY <1>3, <2>2, <2>3, <2>4, <2>7, <2>8, <2>9 DEF RunStep
<1>4. ASSUME NEW D \in SUBSET Runs, NEW E \in SUBSET Runs, Reconcile(D, E)
      PROVE  AllGood'
  BY <1>4, ReconcileGood
<1>5. CASE UNCHANGED vars
  BY <1>5 DEF vars, AllGood
<1> QED
  BY <1>1, <1>2, <1>3, <1>4, <1>5 DEF Next

(* The empty store is good.                                                *)
LEMMA InitGood == Init => AllGood
<1> SUFFICES ASSUME Init PROVE AllGood
  OBVIOUS
<1>1. AbsentRun \in Run
  BY AbsentGood DEF Good
<1>2. NoClaim \in Claim
  BY DEF NoClaim, Claim
<1> QED
  BY <1>1, <1>2, AbsentGood DEF Init, AllGood

(* The rows of the store are good in every reachable state.                *)
LEMMA AlwaysGood == Spec => []AllGood
BY InitGood, NextGood, PTL DEF Spec

-----------------------------------------------------------------------------
(* Type correctness of the store (PostgreSQL columns of runs, attempts,    *)
(* events and nodes).                                                      *)
THEOREM TypeCorrect == Spec => []TypeOK
<1>1. AllGood => TypeOK
  BY DEF AllGood, TypeOK
<1> QED
  BY <1>1, AlwaysGood, PTL

(* Run and Attempt statuses always agree, earlier Attempts are lost and no *)
(* Run is attempted more often than its retry policy says, in whatever     *)
(* order Nodes, clients, clocks and reconcilers act.                       *)
THEOREM AlwaysCoherent == Spec => []RunsCoherent
<1>1. AllGood => RunsCoherent
  BY DEF AllGood, Good, RunsCoherent
<1> QED
  BY <1>1, AlwaysGood, PTL

(* The lease token on a row is always the last one granted and belongs to  *)
(* the current Attempt: transition rejects every other holder.             *)
THEOREM AlwaysFenced == Spec => []LeasesFenced
<1>1. AllGood => LeasesFenced
  BY DEF AllGood, Good, LeasesFenced
<1> QED
  BY <1>1, AlwaysGood, PTL

-----------------------------------------------------------------------------
(* What one step may do to a Run.  Changed is shown once for every action; *)
(* the action properties and the refinement of RunLifecycle follow from it *)
(* row by row.                                                             *)

(* A claim only remembers leases that were already granted, and a Run that *)
(* still carries the lease it remembers is either free or its lease has    *)
(* expired: nobody can renew it in between.                                *)
SeenFree(claim, r, x) ==
  /\ \A k \in Nat : <<r, k>> \in claim.seen => k <= Len(x.grants)
  /\ <<r, Len(x.grants)>> \in claim.seen
     /\ x.status = "queued" /\ AttemptStatus(x) = "leased" => x.ttl = 0

ClaimsSound == \A c \in Calls, r \in Runs : SeenFree(claims[c], r, runs[r])

(* An Attempt that waits in the queue belongs to nobody.                   *)
Unowned(x) == Present(x) /\ AttemptStatus(x) = "queued" => x.token = 0

StoreInv ==
  /\ AllGood
  /\ ClaimsSound
  /\ \A r \in Runs : Unowned(runs[r]) /\ Owned(runs[r])

-----------------------------------------------------------------------------
(* The row operations, by what they change.                                *)

(* finalizeCancellationTx ends a cancelling Run and does nothing to a       *)
(* cancelled one.                                                          *)
LEMMA FinalizeChanges ==
  ASSUME NEW x, Good(x), Present(x), x.status \in {"cancelling", "cancelled"}
  PROVE  LET y == finalizeCancellationTx(x) IN
         \/ y = x
         \/ Advanced(x, y) /\ x.status = "cancelling" /\ y.status = "cancelled"
            /\ y.outcome = x.outcome
<1> DEFINE y == finalizeCancellationTx(x)
<1>1. CASE x.status = "cancelled"
  BY <1>1 DEF finalizeCancellationTx
<1>2. CASE x.status = "cancelling"
  <2>1. x \in Run /\ Len(SetAttempt(x, "cancelled")) = Len(x.attempts)
    BY SetAttemptFacts DEF Good, AttemptStatuses, Number
  <2>2. /\ y.status = "cancelled" /\ y.outcome = x.outcome
        /\ y.attempts = SetAttempt(x, "cancelled")
        /\ y.token = x.token /\ y.grants = x.grants
    BY <1>2, <2>1 DEF finalizeCancellationTx, Run
  <2> HIDE DEF y
  <2>3. Advanced(x, y)
    BY <1>2, <2>1, <2>2 DEF Advanced
  <2> QED
    BY <1>2, <2>2, <2>3 DEF y
<1> QED
  BY <1>1, <1>2

(* requestCancelTx either does nothing or moves the Run to cancelling or,  *)
(* if its Attempt is queued, to cancelled.                                 *)
LEMMA RequestCancelChanges ==
  ASSUME NEW x, Good(x), Present(x)
  PROVE  LET y == requestCancelTx(x) IN
         \/ y = x
         \/ /\ Advanced(x, y)
            /\ x.status \in {"queued", "running"}
            /\ y.status \in {"cancelling", "cancelled"} /\ y.outcome = x.outcome
<1> DEFINE y == requestCancelTx(x)
           q == [x EXCEPT !.status          = "cancelling",
                          !.cancelRequested = TRUE,
                          !.log = appendEvent(x, "run.cancel_requested")]
<1>1. CASE terminalRunStatus(x.status) \/ x.cancelRequested
  BY <1>1 DEF requestCancelTx
<1>2. CASE ~(terminalRunStatus(x.status) \/ x.cancelRequested)
  <2>1. x \in Run /\ x.status \in {"queued", "running"}
    BY <1>2 DEF Good, Coherent, Present, terminalRunStatus, Run, RunStatuses
  <2>2. /\ q.status = "cancelling" /\ q.outcome = x.outcome
        /\ q.attempts = x.attempts
        /\ q.token = x.token /\ q.grants = x.grants
    BY <2>1 DEF Run
  <2>3. CASE AttemptStatus(x) = "queued"
    <3>1. y = finalizeCancellationTx(q)
      BY <1>2, <2>3 DEF requestCancelTx
    <3>2. /\ y.status = "cancelled" /\ y.outcome = q.outcome
          /\ y.attempts = SetAttempt(q, "cancelled")
          /\ y.token = q.token /\ y.grants = q.grants
      BY <2>1, <2>2, <3>1 DEF finalizeCancellationTx, Run
    <3>3. Len(SetAttempt(x, "cancelled")) = Len(x.attempts)
      BY SetAttemptFacts DEF AttemptStatuses, Number
    <3>4. SetAttempt(q, "cancelled") = SetAttempt(x, "cancelled")
      BY <2>2 DEF SetAttempt, Number
    <3> HIDE DEF y, q
    <3>5. Advanced(x, y)
      BY <2>1, <2>2, <3>2, <3>3, <3>4 DEF Advanced
    <3> QED
      BY <2>1, <2>2, <3>2, <3>5 DEF y
  <2>4. CASE AttemptStatus(x) # "queued"
    <3>1. y = q
      BY <1>2, <2>4 DEF requestCancelTx
    <3> HIDE DEF y, q
    <3>2. Advanced(x, y)
      BY <2>1, <2>2, <3>1 DEF Advanced
    <3> QED
      BY <2>1, <2>2, <3>1, <3>2 DEF y
  <2> QED
    BY <2>3, <2>4
<1> QED
  BY <1>1, <1>2

(* An expired Run is cancelled, retried or given up.                       *)
LEMMA RecoveredChanges ==
  ASSUME NEW x, Good(x), Expired(x)
  PROVE  LET y == Recovered(x) IN
         \/ Advanced(x, y) \/ Repeated(x, y)
<1> DEFINE y == Recovered(x)
<1>1. Present(x) /\ x \in Run
  BY DEF Expired, Present, Good
<1>2. CASE x.status = "cancelling"
  <2>1. y = finalizeCancellationTx(x)
    BY <1>2 DEF Recovered
  <2>2. y # x
    BY <1>1, <1>2, <2>1 DEF finalizeCancellationTx, Run
  <2> QED
    BY <1>1, <1>2, <2>1, <2>2, FinalizeChanges
<1>3. CASE x.status = "running"
  <2>1. /\ SetAttempt(x, "lost") \in Seq(AttemptStatuses)
        /\ Len(SetAttempt(x, "lost")) = Len(x.attempts)
        /\ SetAttempt(x, "lost")[Number(x)] = "lost"
        /\ Number(x) \in 1 .. MaxAttempts /\ Number(x) = Len(x.attempts)
    BY <1>1, SetAttemptFacts DEF AttemptStatuses, Number
  <2>2. y = Lost(x) /\ AttemptStatus(x) = "running" /\ x.ttl = 0
    BY <1>3 DEF Recovered, Expired
  <2>3. CASE Number(x) >= MaxAttempts
    <3>1. y = GivenUp(x)
      BY <2>2, <2>3 DEF Lost
    <3>2. /\ y.status = "failed" /\ y.outcome = LeaseExpired
          /\ y.attempts = SetAttempt(x, "lost")
          /\ y.token = x.token /\ y.grants = x.grants
      BY <1>1, <3>1 DEF GivenUp, Run
    <3>3. Number(x) = MaxAttempts
      BY <2>1, <2>3, ConstantsAssumption
    <3> HIDE DEF y
    <3> QED
      BY <1>3, <2>1, <3>2, <3>3 DEF Advanced, y
  <2>4. CASE ~(Number(x) >= MaxAttempts)
    <3>1. y = Requeued(x)
      BY <2>2, <2>4 DEF Lost
    <3>2. /\ y.status = "queued" /\ y.outcome = x.outcome
          /\ y.attempts = Append(SetAttempt(x, "lost"), "queued")
          /\ y.token = 0 /\ y.grants = x.grants
      BY <1>1, <3>1 DEF Requeued, Run
    <3>3. "queued" \in AttemptStatuses
      BY DEF AttemptStatuses
    <3>4. /\ Len(y.attempts) = Len(x.attempts) + 1
          /\ y.attempts[Number(x)] = "lost" /\ AttemptStatus(y) = "queued"
      BY <2>1, <3>2, <3>3, AppendProperties DEF AttemptStatus, Number
    <3>5. Number(x) < MaxAttempts
      BY <2>1, <2>4, ConstantsAssumption
    <3> HIDE DEF y
    <3> QED
      BY <1>3, <2>2, <3>2, <3>4, <3>5 DEF Repeated, y
  <2> QED
    BY <2>3, <2>4
<1> QED
  BY <1>2, <1>3 DEF Expired

(* Start, Complete, Fail and Renew do to a Run what their replies promise. *)
LEMMA NodeCallChanges ==
  ASSUME NEW x, Good(x), NEW k \in DOMAIN x.grants
  PROVE  /\ RenewReply(x, k) = "ok" =>
              x.ttl > 0 /\ Kept(x, [x EXCEPT !.ttl = LeaseTTL])
         /\ StartReply(x, k) = "ok" => Advanced(x, Started(x))
         /\ AcknowledgeReply(x, k) = "ok" =>
              LET y == finalizeCancellationTx(x) IN y = x \/ Advanced(x, y)
         /\ \A v \in Results : CompleteReply(x, k, v) = "ok" =>
              Completed(x, v) = x \/ Advanced(x, Completed(x, v))
         /\ \A v \in Causes : FailReply(x, k, v) = "ok" =>
              Failed(x, v) = x \/ Advanced(x, Failed(x, v))
<1>1. Present(x) /\ x \in Run
  <2>1. AbsentRun.grants = <<>>
    BY DEF AbsentRun
  <2> QED
    BY <2>1 DEF Good, Coherent, Present
<1>2. \A a \in AttemptStatuses : Len(SetAttempt(x, a)) = Len(x.attempts)
  BY <1>1, SetAttemptFacts DEF Number
<1>8. transition(x, k) => x.token > 0
  BY <1>1 DEF transition, Run
<1>3. ASSUME RenewReply(x, k) = "ok"
      PROVE  x.ttl > 0 /\ Kept(x, [x EXCEPT !.ttl = LeaseTTL])
  <2>1. x.ttl > 0 /\ x.ttl \in Nat
    BY <1>1, <1>3 DEF RenewReply, Renewable, Run
  <2> QED
    BY <1>1, <2>1 DEF Kept, Run
<1>4. ASSUME StartReply(x, k) = "ok" PROVE Advanced(x, Started(x))
  <2> DEFINE y == Started(x)
  <2>1. x.status = "queued"
    BY <1>1, <1>4, AcceptedCalls
  <2>2. /\ y.status = "running" /\ y.outcome = x.outcome
        /\ y.attempts = SetAttempt(x, "running")
        /\ y.token = x.token /\ y.grants = x.grants
    BY <1>1 DEF Started, Run
  <2>3. Len(SetAttempt(x, "running")) = Len(x.attempts)
    BY <1>2 DEF AttemptStatuses
  <2> HIDE DEF y
  <2> QED
    BY <2>1, <2>2, <2>3 DEF Advanced, y
<1>5. ASSUME AcknowledgeReply(x, k) = "ok"
      PROVE  LET y == finalizeCancellationTx(x) IN y = x \/ Advanced(x, y)
  BY <1>1, <1>5, AcceptedCalls, FinalizeChanges
<1>6. ASSUME NEW v \in Results, CompleteReply(x, k, v) = "ok",
             Completed(x, v) # x
      PROVE  Advanced(x, Completed(x, v))
  <2> DEFINE y == Completed(x, v)
  <2>1. x.status = "running" /\ x.token > 0
    BY <1>1, <1>8, <1>6, AcceptedCalls DEF Completed, CompleteReply
  <2>2. /\ y.status = "succeeded" /\ y.outcome = v
        /\ y.attempts = SetAttempt(x, "succeeded")
        /\ y.token = x.token /\ y.grants = x.grants
    BY <1>1, <2>1 DEF Completed, Run
  <2>3. Len(SetAttempt(x, "succeeded")) = Len(x.attempts)
    BY <1>2 DEF AttemptStatuses
  <2> HIDE DEF y
  <2> QED
    BY <2>1, <2>2, <2>3 DEF Advanced, y
<1>7. ASSUME NEW v \in Causes, FailReply(x, k, v) = "ok", Failed(x, v) # x
      PROVE  Advanced(x, Failed(x, v))
  <2> DEFINE y == Failed(x, v)
  <2>1. x.status \in {"queued", "running"} /\ x.token > 0
    BY <1>1, <1>8, <1>7, AcceptedCalls DEF Failed, FailReply
  <2>2. /\ y.status = "failed" /\ y.outcome = v
        /\ y.attempts = SetAttempt(x, "failed")
        /\ y.token = x.token /\ y.grants = x.grants
    BY <1>1, <2>1 DEF Failed, Run
  <2>3. Len(SetAttempt(x, "failed")) = Len(x.attempts)
    BY <1>2 DEF AttemptStatuses
  <2> HIDE DEF y
  <2> QED
    BY <2>1, <2>2, <2>3 DEF Advanced, y
<1> QED
  BY <1>3, <1>4, <1>5, <1>6, <1>7

(* Claim grants a lease to a Run whose previous lease, if it has one, is   *)
(* unstarted and has expired.                                              *)
LEMMA LeasedChanges ==
  ASSUME NEW x, Good(x), x.status = "queued", Unowned(x), NEW n,
         AttemptStatus(x) = "leased" => x.ttl = 0
  PROVE  Granted(x, Leased(x, n))
<1> DEFINE y == Leased(x, n)
<1>1. Present(x) /\ x \in Run
  BY DEF Present, Good
<1>2. /\ Len(SetAttempt(x, "leased")) = Len(x.attempts)
      /\ SetAttempt(x, "leased")[Number(x)] = "leased"
      /\ Number(x) = Len(x.attempts)
  BY <1>1, SetAttemptFacts DEF AttemptStatuses, Number
<1>3. /\ y.status = x.status /\ y.outcome = x.outcome
      /\ y.attempts = SetAttempt(x, "leased")
      /\ y.grants = Append(x.grants, Number(x))
  BY <1>1 DEF Leased, Run
<1>4. x.grants \in Seq(Nat) /\ Number(x) \in Nat
  BY <1>1 DEF Run, Number
<1>5. Len(y.grants) = Len(x.grants) + 1
  BY <1>3, <1>4
<1>6. AttemptStatus(x) \in {"queued", "leased"}
  BY <1>1 DEF Good, Coherent, Present, CurrentAttemptOf, RunStatuses
<1>7. AttemptStatus(y) = "leased"
  BY <1>2, <1>3 DEF AttemptStatus, Number
<1>8. x.token # 0 => AttemptStatus(x) = "leased" /\ x.ttl = 0
  BY <1>1, <1>6 DEF Unowned
<1> HIDE DEF y
<1> QED
  BY <1>2, <1>3, <1>5, <1>7, <1>8 DEF Granted, y

-----------------------------------------------------------------------------
(* The steps of the store.                                                 *)

(* A step that writes one row changes that row only.                       *)
LEMMA OneRowChanges ==
  ASSUME StoreInv, NEW q \in Runs, NEW y, Update(q, y),
         Changed(runs[q], y), NEW r \in Runs
  PROVE  Changed(runs[r], runs'[r])
<1>1. runs \in [Runs -> Run]
  BY DEF StoreInv, AllGood
<1>2. CASE r = q
  BY <1>1, <1>2 DEF Update
<1>3. CASE r # q
  BY <1>1, <1>3 DEF Update, Changed, Kept
<1> QED
  BY <1>2, <1>3

(* Reconcile may cancel a Run and recover it in the same transaction.      *)
LEMMA ReconcileChanges ==
  ASSUME StoreInv, NEW D \in SUBSET Runs, NEW E \in SUBSET Runs,
         Reconcile(D, E), NEW r \in Runs
  PROVE  Changed(runs[r], runs'[r])
<1> DEFINE x == runs[r]
           z == IF r \in D THEN requestCancelTx(x) ELSE x
           y == IF r \in E THEN Recovered(z) ELSE z
<1>1. /\ r \in D => Overdue(x)
      /\ r \in E => Expired(z)
      /\ runs'[r] = y
  BY DEF Reconcile
<1>2. Good(x)
  BY DEF StoreInv, AllGood
<1>3. r \in D => Present(x)
  BY <1>1 DEF Overdue, Present
<1>4. Good(z)
  BY <1>2, <1>3, RequestCancelGood
<1>5. \/ z = x
      \/ /\ Advanced(x, z) /\ x.status \in {"queued", "running"}
         /\ z.status \in {"cancelling", "cancelled"} /\ z.outcome = x.outcome
  BY <1>2, <1>3, RequestCancelChanges
<1>6. CASE r \notin E
  <2>1. y = z
    BY <1>6
  <2> HIDE DEF z
  <2> QED
    BY <1>1, <1>5, <2>1 DEF Changed, Kept
<1>7. CASE r \in E
  <2>1. y = Recovered(z) /\ Expired(z)
    BY <1>1, <1>7
  <2> HIDE DEF y, z
  <2>2. CASE z = x
    <3>1. Advanced(x, y) \/ Repeated(x, y)
      BY <1>2, <2>1, <2>2, RecoveredChanges
    <3> QED
      BY <1>1, <3>1 DEF Changed
  <2>3. CASE z # x
    <3>1. z.status = "cancelling" /\ Present(z)
      BY <1>5, <2>1, <2>3 DEF Expired, Present
    <3>2. y = finalizeCancellationTx(z)
      BY <2>1, <3>1 DEF Recovered
    <3>3. y.status = "cancelled"
      BY <1>4, <3>1, <3>2 DEF finalizeCancellationTx, Good, Run
    <3>4. Advanced(z, y) /\ y.outcome = z.outcome
      BY <1>4, <3>1, <3>2, <3>3, FinalizeChanges
    <3>5. Advanced(x, y)
      BY <1>5, <2>3, <3>3, <3>4 DEF Advanced
    <3> QED
      BY <1>1, <3>5 DEF Changed
  <2> QED
    BY <2>2, <2>3
<1> QED
  BY <1>6, <1>7

(* Every step changes every row in one of the five ways.                   *)
LEMMA RowChange ==
  ASSUME StoreInv, [Next]_vars, NEW r \in Runs
  PROVE  Changed(runs[r], runs'[r])
<1>1. AllGood /\ runs \in [Runs -> Run]
  BY DEF StoreInv, AllGood
<1>2. runs' = runs => Changed(runs[r], runs'[r])
  BY DEF Changed, Kept
<1>3. ASSUME NEW c \in Calls, ClaimStep(c) PROVE Changed(runs[r], runs'[r])
  <2>1. ASSUME NEW q \in Runs, ClaimCommit(c, q)
        PROVE  Changed(runs[r], runs'[r])
    <3>1. StillClaimable(claims[c], q) /\ SeenFree(claims[c], q, runs[q])
      BY <2>1 DEF ClaimCommit, StoreInv, ClaimsSound
    <3>2. /\ runs[q].status = "queued"
          /\ AttemptStatus(runs[q]) = "leased" => runs[q].ttl = 0
      BY <3>1 DEF StillClaimable, SeenFree
    <3>3. Granted(runs[q], Leased(runs[q], claims[c].node))
      BY <1>1, <3>2, LeasedChanges DEF StoreInv, AllGood
    <3>4. CASE r = q
      BY <1>1, <2>1, <3>3, <3>4 DEF ClaimCommit, Changed
    <3>5. CASE r # q
      BY <1>1, <2>1, <3>5 DEF ClaimCommit, Changed, Kept
    <3> QED
      BY <3>4, <3>5
  <2> QED
    BY <1>2, <1>3, <2>1 DEF ClaimStep, ClaimBegin, ClaimNothing
<1>4. ASSUME NEW q \in Runs, RunStep(q) PROVE Changed(runs[r], runs'[r])
  <2> DEFINE x == runs[q]
  <2>1. Good(x) /\ x \in Run /\ (x.status = "absent" => x = AbsentRun)
    BY <1>1 DEF AllGood, Good, Coherent
  <2>2. ASSUME NEW d \in {"none", "ahead"}, Submit(q, d)
        PROVE  Changed(runs[r], runs'[r])
    <3> DEFINE y == Submitted(d)
    <3>1. /\ y.status = "queued" /\ y.outcome = NoValue
          /\ y.attempts = <<"queued">> /\ y.token = 0 /\ y.grants = <<>>
      BY DEF Submitted
    <3>2. Len(y.attempts) = 1 /\ AttemptStatus(y) = "queued"
      BY <3>1 DEF AttemptStatus, Number
    <3>3. x = AbsentRun /\ x.grants = <<>>
      BY <2>1, <2>2 DEF Submit, AbsentRun
    <3> HIDE DEF y, x
    <3>4. Inserted(x, y)
      BY <3>1, <3>2, <3>3 DEF Inserted
    <3> QED
      BY <2>2, <3>4, OneRowChanges DEF Submit, Changed, x, y
  <2>3. CASE CancelRun(q)
    <3>1. requestCancelTx(x) = x \/ Advanced(x, requestCancelTx(x))
      BY <2>1, <2>3, RequestCancelChanges DEF CancelRun, Present
    <3>2. Changed(x, requestCancelTx(x))
      BY <3>1 DEF Changed, Kept
    <3> QED
      BY <2>3, <3>2, OneRowChanges DEF CancelRun
  <2>4. ASSUME NEW k \in DOMAIN x.grants, NodeCall(q, k)
        PROVE  Changed(runs[r], runs'[r])
    <3> HIDE DEF x
    <3>1. \A y : y = x \/ Kept(x, y) \/ Advanced(x, y) => Changed(x, y)
      BY DEF Changed, Kept
    <3>2. CASE Renew(q, k)
      BY <2>1, <3>1, <3>2, NodeCallChanges, OneRowChanges DEF Renew, x
    <3>3. CASE Start(q, k)
      BY <2>1, <3>1, <3>3, NodeCallChanges, OneRowChanges DEF Start, x
    <3>4. CASE AcknowledgeCancellation(q, k)
      BY <2>1, <3>1, <3>4, NodeCallChanges, OneRowChanges
         DEF AcknowledgeCancellation, x
    <3>5. ASSUME NEW v \in Results, Complete(q, k, v)
          PROVE  Changed(runs[r], runs'[r])
      BY <2>1, <3>1, <3>5, NodeCallChanges, OneRowChanges DEF Complete, x
    <3>6. ASSUME NEW v \in Causes, Fail(q, k, v)
          PROVE  Changed(runs[r], runs'[r])
      BY <2>1, <3>1, <3>6, NodeCallChanges, OneRowChanges DEF Fail, x
    <3> QED
      BY <2>4, <3>2, <3>3, <3>4, <3>5, <3>6 DEF NodeCall
  <2>5. CASE LeaseTicks(q)
    <3>1. x.ttl > 0 /\ x.ttl \in Nat
      BY <2>1, <2>5 DEF LeaseTicks, Run
    <3>2. Kept(x, [x EXCEPT !.ttl = x.ttl - 1])
      BY <2>1, <3>1 DEF Kept, Run
    <3> QED
      BY <2>5, <3>2, OneRowChanges DEF LeaseTicks, Changed
  <2>6. CASE DeadlinePasses(q)
    <3>1. Kept(x, [x EXCEPT !.deadline = "passed"])
      BY <2>1 DEF Kept, Run
    <3> QED
      BY <2>6, <3>1, OneRowChanges DEF DeadlinePasses, Changed
  <2>7. CASE BackoffElapses(q)
    <3>1. Kept(x, [x EXCEPT !.available = TRUE])
      BY <2>1 DEF Kept, Run
    <3> QED
      BY <2>7, <3>1, OneRowChanges DEF BackoffElapses, Changed
  <2> QED
    BY <1>4, <2>2, <2>3, <2>4, <2>5, <2>6, <2>7 DEF RunStep
<1>5. ASSUME NEW D \in SUBSET Runs, NEW E \in SUBSET Runs, Reconcile(D, E)
      PROVE  Changed(runs[r], runs'[r])
  BY <1>5, ReconcileChanges
<1> QED
  BY <1>2, <1>3, <1>4, <1>5 DEF Next, RegisterNode, vars

(* An open claim stays sound across every change of a row: a new lease     *)
(* makes what it saw obsolete, and only an unexpired lease is renewed.     *)
LEMMA SeenFreeKept ==
  ASSUME NEW x \in Run, NEW y \in Run, Changed(x, y), NEW claim, NEW r,
         SeenFree(claim, r, x)
  PROVE  SeenFree(claim, r, y)
<1>1. Len(x.grants) \in Nat /\ Len(y.grants) \in Nat
  BY DEF Run
<1>2. CASE Kept(x, y)
  BY <1>2 DEF Kept, SeenFree, AttemptStatus, Number
<1>3. CASE Inserted(x, y)
  BY <1>3 DEF Inserted, SeenFree
<1>4. CASE Granted(x, y)
  <2>1. Len(y.grants) = Len(x.grants) + 1
    BY <1>4 DEF Granted
  <2> QED
    BY <1>1, <2>1 DEF SeenFree
<1>5. CASE Repeated(x, y)
  BY <1>5 DEF Repeated, SeenFree
<1>6. CASE Advanced(x, y)
  BY <1>6 DEF Advanced, SeenFree
<1> QED
  BY <1>2, <1>3, <1>4, <1>5, <1>6 DEF Changed

(* A row has no token while it waits in the queue, and one when a report   *)
(* ends it.                                                                *)
LEMMA OwnershipKept ==
  ASSUME NEW x, NEW y, Good(x), Good(y), Changed(x, y), Unowned(x), Owned(x)
  PROVE  Unowned(y) /\ Owned(y)
<1>1. CASE Kept(x, y)
  BY <1>1 DEF Kept, Unowned, Owned, Present, AttemptStatus, Number
<1>2. CASE Inserted(x, y) \/ Repeated(x, y) \/ Granted(x, y)
  BY <1>2 DEF Inserted, Repeated, Granted, Unowned, Owned
<1>3. CASE Advanced(x, y)
  <2>1. y.status \in RunStatuses /\ y.status \notin {"queued", "absent"}
    BY <1>3 DEF Advanced, RunStatuses
  <2>2. AttemptStatus(y) # "queued"
    BY <2>1 DEF Good, Coherent, CurrentAttemptOf, RunStatuses
  <2>3. x.status = "running" => x.token > 0
    BY DEF Good, Coherent, Fenced, CurrentAttemptOf, RunStatuses
  <2> QED
    BY <1>3, <2>2, <2>3 DEF Unowned, Owned, Advanced
<1> QED
  BY <1>1, <1>2, <1>3 DEF Changed

(* The invariant holds of the empty store.                                 *)
LEMMA InitStoreInv == Init => StoreInv
<1> SUFFICES ASSUME Init PROVE StoreInv
  OBVIOUS
<1>1. AllGood
  BY InitGood
<1>2. ClaimsSound
  BY DEF Init, ClaimsSound, SeenFree, NoClaim
<1>3. \A r \in Runs : Unowned(runs[r]) /\ Owned(runs[r])
  BY DEF Init, Unowned, Owned, Present, AbsentRun
<1> QED
  BY <1>1, <1>2, <1>3 DEF StoreInv

(* Every step of the store keeps it.                                       *)
LEMMA StoreInvKept == StoreInv /\ [Next]_vars => StoreInv'
<1> SUFFICES ASSUME StoreInv, [Next]_vars PROVE StoreInv'
  OBVIOUS
<1>1. AllGood /\ AllGood'
  BY NextGood DEF StoreInv
<1>2. \A r \in Runs : /\ Changed(runs[r], runs'[r])
                      /\ runs[r] \in Run /\ runs'[r] \in Run
  BY <1>1, RowChange DEF AllGood
<1>3. ASSUME NEW r \in Runs PROVE Unowned(runs'[r]) /\ Owned(runs'[r])
  <2>1. /\ Unowned(runs[r]) /\ Owned(runs[r])
        /\ Good(runs[r]) /\ Good(runs'[r])
    BY <1>1 DEF StoreInv, AllGood
  <2> QED
    BY <1>2, <2>1, OwnershipKept
<1>4. ASSUME NEW c \in Calls, NEW r \in Runs
      PROVE  SeenFree(claims'[c], r, runs'[r])
  <2>1. SeenFree(claims[c], r, runs[r])
    BY DEF StoreInv, ClaimsSound
  <2>2. CASE claims'[c] = claims[c]
    BY <1>2, <2>1, <2>2, SeenFreeKept
  <2>3. CASE claims'[c] = NoClaim
    BY <2>3 DEF SeenFree, NoClaim
  <2>4. ASSUME NEW n \in Nodes, ClaimBegin(c, n)
        PROVE  SeenFree(claims'[c], r, runs'[r])
    <3>1. claims'[c].seen = Candidates /\ runs' = runs
      BY <1>1, <2>4 DEF ClaimBegin, AllGood
    <3>2. \A k : <<r, k>> \in Candidates =>
            k = Len(runs[r].grants) /\ Claimable(runs[r])
      BY DEF Candidates
    <3>3. Len(runs[r].grants) \in Nat
      BY <1>2 DEF Run
    <3>4. Claimable(runs[r]) /\ AttemptStatus(runs[r]) = "leased"
            => runs[r].ttl = 0
      BY DEF Claimable
    <3> QED
      BY <3>1, <3>2, <3>3, <3>4 DEF SeenFree
  <2>5. \/ claims'[c] = claims[c]
        \/ claims'[c] = NoClaim
        \/ \E n \in Nodes : ClaimBegin(c, n)
    <3>1. claims \in [Calls -> Claim]
      BY <1>1 DEF AllGood
    <3>2. ASSUME NEW d \in Calls, ClaimStep(d)
          PROVE  \/ claims'[c] = claims[c]
                 \/ claims'[c] = NoClaim
                 \/ \E n \in Nodes : ClaimBegin(c, n)
      BY <3>1, <3>2 DEF ClaimStep, ClaimBegin, ClaimCommit, ClaimNothing
    <3>3. ASSUME NEW q \in Runs, RunStep(q) PROVE claims' = claims
      BY <3>3 DEF RunStep, Submit, CancelRun, NodeCall, Renew, Start,
                  AcknowledgeCancellation, Complete, Fail, LeaseTicks,
                  DeadlinePasses, BackoffElapses, Update
    <3> QED
      BY <3>2, <3>3 DEF Next, RegisterNode, Reconcile, vars
  <2> QED
    BY <2>2, <2>3, <2>4, <2>5
<1> QED
  BY <1>1, <1>3, <1>4 DEF StoreInv, ClaimsSound

(* The invariant of rows and claims holds in every reachable state.        *)
LEMMA AlwaysStoreInv == Spec => []StoreInv
BY InitStoreInv, StoreInvKept, PTL DEF Spec

-----------------------------------------------------------------------------
(* The first terminal status of a Run, its outcome, its Attempts and its   *)
(* lifecycle events are final, whatever transactions follow.               *)
THEOREM FinishedStaysFinished == Spec => TerminalIsFinal
<1>1. ASSUME StoreInv, [Next]_vars, NEW r \in Runs,
             terminalRunStatus(runs[r].status)
      PROVE  /\ runs'[r].status = runs[r].status
             /\ runs'[r].outcome = runs[r].outcome
             /\ runs'[r].attempts = runs[r].attempts
             /\ runs'[r].log = runs[r].log
  <2>1. runs[r].status \in {"succeeded", "failed", "cancelled"}
    BY <1>1 DEF terminalRunStatus
  <2>2. AbsentRun.status = "absent"
    BY DEF AbsentRun
  <2> QED
    BY <1>1, <2>1, <2>2, RowChange
       DEF Changed, Kept, Inserted, Granted, Repeated, Advanced
<1>2. StoreInv /\ [Next]_vars => [\A r \in Runs :
        terminalRunStatus(runs[r].status) =>
          /\ runs'[r].status = runs[r].status
          /\ runs'[r].outcome = runs[r].outcome
          /\ runs'[r].attempts = runs[r].attempts
          /\ runs'[r].log = runs[r].log]_runs
  BY <1>1
<1> QED
  BY <1>2, AlwaysStoreInv, PTL DEF Spec, TerminalIsFinal

(* No unexpired lease is ever taken from its holder, and the token of a    *)
(* running Attempt is only withdrawn when the Attempt is marked lost: the   *)
(* recheck of Claim under the row lock is enough, although the candidates  *)
(* were read in an earlier statement.                                      *)
THEOREM NoLeaseIsStolen == Spec => LeaseNotStolen
<1>1. ASSUME StoreInv, [Next]_vars, NEW r \in Runs,
             runs[r].token # 0, runs'[r].token # runs[r].token
      PROVE  LET x == runs[r]
                 y == runs'[r]
             IN  /\ x.ttl = 0
                 /\ \/ Number(y) = Number(x) /\ AttemptStatus(x) = "leased"
                    \/ Number(y) = Number(x) + 1 /\ AttemptStatus(x) = "running"
                         /\ y.attempts[Number(x)] = "lost"
  <2>1. AbsentRun.token = 0
    BY DEF AbsentRun
  <2> QED
    BY <1>1, <2>1, RowChange
       DEF Changed, Kept, Inserted, Granted, Repeated, Advanced, Number
<1>2. StoreInv /\ [Next]_vars => [\A r \in Runs :
        LET x == runs[r]
            y == runs'[r]
        IN  x.token # 0 /\ y.token # x.token =>
              /\ x.ttl = 0
              /\ \/ Number(y) = Number(x) /\ AttemptStatus(x) = "leased"
                 \/ Number(y) = Number(x) + 1 /\ AttemptStatus(x) = "running"
                      /\ y.attempts[Number(x)] = "lost"]_runs
  BY <1>1
<1> QED
  BY <1>2, AlwaysStoreInv, PTL DEF Spec, LeaseNotStolen

(* The store implements the lifecycle promised to clients: seen through    *)
(* GetRun, each of its transactions is a step of RunLifecycle or none.     *)
THEOREM ImplementsLifecycle == Spec => RefinesLifecycle
<1> DEFINE job == [r \in Runs |-> View(runs[r])]
<1>1. Init => Lifecycle!Init
  <2>1. View(AbsentRun) = Lifecycle!Absent
    BY DEF View, AbsentRun, Number, Lifecycle!Absent
  <2> QED
    BY <2>1 DEF Init, Lifecycle!Init
<1>2. StoreInv /\ StoreInv' /\ [Next]_vars => [Lifecycle!Next]_job
  <2> SUFFICES ASSUME StoreInv, StoreInv', [Next]_vars PROVE Lifecycle!Next
    OBVIOUS
  <2>1. ASSUME NEW r \in Runs
        PROVE  /\ Changed(runs[r], runs'[r])
               /\ runs[r] \in Run /\ runs'[r] \in Run
    BY RowChange DEF StoreInv, AllGood
  <2> QED
    BY <2>1, ViewStep DEF PromisedStep, Lifecycle!Next
<1> QED
  BY <1>1, <1>2, AlwaysStoreInv, PTL
     DEF Spec, RefinesLifecycle, Lifecycle!Spec

(* A Node whose final report was committed may repeat it at any time and   *)
(* is told that it succeeded, and no different report is accepted.         *)
THEOREM ReportsAreRepeatable == Spec => []RepeatedReportAccepted
<1>1. ASSUME NEW x, Good(x), Owned(x)
      PROVE  /\ x.status = "succeeded" =>
                  \A v \in Results :
                    CompleteReply(x, x.token, v) = "ok" <=> x.outcome = v
             /\ x.status = "failed" /\ AttemptStatus(x) = "failed" =>
                  \A v \in Causes :
                    FailReply(x, x.token, v) = "ok" <=> x.outcome = v
             /\ x.status = "cancelled" /\ x.token > 0 =>
                  AcknowledgeReply(x, x.token) = "ok"
  <2>1. terminalRunStatus(x.status) /\ x.token > 0 => transition(x, x.token)
    BY <1>1 DEF transition, Good, Fenced
  <2>2. x.status = "succeeded" => AttemptStatus(x) = "succeeded"
    BY <1>1 DEF Good, Coherent, CurrentAttemptOf, RunStatuses
  <2> QED
    BY <1>1, <2>1, <2>2
       DEF Owned, terminalRunStatus, CompleteReply, FailReply, AcknowledgeReply
<1>2. StoreInv => RepeatedReportAccepted
  BY <1>1 DEF StoreInv, AllGood, RepeatedReportAccepted
<1> QED
  BY <1>2, AlwaysStoreInv, PTL

-----------------------------------------------------------------------------
(* The event log.                                                          *)

LogsGood == \A r \in Runs : LogGood(runs[r])

(* A row operation that keeps log, status and Attempts keeps its log good. *)
LEMMA SameLog ==
  ASSUME NEW x, NEW y, LogGood(x),
         y.log = x.log, y.status = x.status, y.attempts = x.attempts
  PROVE  LogGood(y)
<1>1. Number(y) = Number(x) /\ Begun(y) = Begun(x)
  BY DEF Number, Begun, AttemptStatus
<1> QED
  BY <1>1 DEF LogGood, Present

(* finalizeCancellationTx keeps the log of a Run faithful.                 *)
LEMMA FinalizeLogged ==
  ASSUME NEW x, Good(x), LogGood(x), x.status \in {"cancelling", "cancelled"}
  PROVE  LogGood(finalizeCancellationTx(x))
<1> DEFINE y == finalizeCancellationTx(x)
<1>1. CASE x.status = "cancelled"
  BY <1>1 DEF finalizeCancellationTx
<1>2. CASE x.status = "cancelling"
  <2>1. x \in Run /\ Present(x) /\ ~terminalRunStatus(x.status)
    BY <1>2 DEF Good, Present, terminalRunStatus
  <2>2. /\ Number(x) = Len(SetAttempt(x, "cancelled"))
        /\ SetAttempt(x, "cancelled")[Number(x)] = "cancelled"
    BY <2>1, SetAttemptFacts DEF AttemptStatuses
  <2>3. /\ y.status = "cancelled" /\ y.attempts = SetAttempt(x, "cancelled")
        /\ y.log = appendEvents(x, "attempt.cancelled", "run.cancelled")
    BY <1>2, <2>1 DEF finalizeCancellationTx, Run
  <2> HIDE DEF y
  <2>4. Number(y) = Number(x) /\ Begun(y)
    BY <2>2, <2>3 DEF Number, Begun, AttemptStatus
  <2>5. /\ "attempt.cancelled" \in EventTypes \ (Announcing \union {"attempt.started"})
        /\ "run.cancelled" \in Announcing \ {"attempt.queued"}
        /\ RunStatusOf["run.cancelled"] = "cancelled"
    BY DEF EventTypes, Announcing, RunStatusOf
  <2> QED
    BY <2>1, <2>3, <2>4, <2>5, PairLogged DEF y
<1> QED
  BY <1>1, <1>2

(* requestCancelTx keeps the log faithful, with one or three events.       *)
LEMMA RequestCancelLogged ==
  ASSUME NEW x, Good(x), Present(x), LogGood(x)
  PROVE  LogGood(requestCancelTx(x))
<1> DEFINE q == [x EXCEPT !.status          = "cancelling",
                          !.cancelRequested = TRUE,
                          !.log = appendEvent(x, "run.cancel_requested")]
<1>1. CASE terminalRunStatus(x.status) \/ x.cancelRequested
  BY <1>1 DEF requestCancelTx
<1>2. CASE ~(terminalRunStatus(x.status) \/ x.cancelRequested)
  <2>1. x \in Run
    BY DEF Good
  <2>2. appendEvent(x, "run.cancel_requested")
          \in Seq([type : EventTypes, attempt : Nat])
    BY <2>1, AppendEventFacts DEF EventTypes, RunStatusOf
  <2>3. /\ q \in Run /\ q.status = "cancelling" /\ q.attempts = x.attempts
        /\ q.log = appendEvent(x, "run.cancel_requested")
    BY <2>1, <2>2 DEF Run, RunStatuses
  <2> HIDE DEF q
  <2>4. LogGood(q)
    BY <1>2, <2>1, <2>3, CancelLogged
  <2>5. requestCancelTx(x) = IF AttemptStatus(x) = "queued"
                             THEN finalizeCancellationTx(q) ELSE q
    BY <1>2 DEF requestCancelTx, q
  <2>6. ASSUME AttemptStatus(x) = "queued"
        PROVE  LogGood(finalizeCancellationTx(q))
    <3> DEFINE y == finalizeCancellationTx(q)
    <3>1. Present(q) /\ ~terminalRunStatus(q.status)
      BY <2>3 DEF Present, terminalRunStatus
    <3>2. /\ Number(x) = Len(SetAttempt(x, "cancelled"))
          /\ SetAttempt(x, "cancelled")[Number(x)] = "cancelled"
      BY SetAttemptFacts DEF AttemptStatuses
    <3>3. SetAttempt(q, "cancelled") = SetAttempt(x, "cancelled")
          /\ Number(q) = Number(x)
      BY <2>3 DEF SetAttempt, Number
    <3>4. /\ y.status = "cancelled" /\ y.attempts = SetAttempt(q, "cancelled")
          /\ y.log = appendEvents(q, "attempt.cancelled", "run.cancelled")
      BY <2>3 DEF finalizeCancellationTx, Run
    <3> HIDE DEF y
    <3>5. Number(y) = Number(q) /\ Begun(y)
      BY <3>2, <3>3, <3>4 DEF Number, Begun, AttemptStatus
    <3>6. /\ "attempt.cancelled" \in
                EventTypes \ (Announcing \union {"attempt.started"})
          /\ "run.cancelled" \in Announcing \ {"attempt.queued"}
          /\ RunStatusOf["run.cancelled"] = "cancelled"
      BY DEF EventTypes, Announcing, RunStatusOf
    <3> QED
      BY <2>3, <2>4, <3>1, <3>4, <3>5, <3>6, PairLogged DEF y
  <2> QED
    BY <2>4, <2>5, <2>6
<1> QED
  BY <1>1, <1>2

(* Reconcile keeps the log of an expired Run faithful.                     *)
LEMMA RecoveredLogged ==
  ASSUME NEW x, Good(x), Expired(x), LogGood(x)
  PROVE  LogGood(Recovered(x))
<1> DEFINE y == Recovered(x)
<1>1. Present(x) /\ x \in Run
  BY DEF Expired, Present, Good
<1>2. CASE x.status = "cancelling"
  BY <1>2, FinalizeLogged DEF Recovered
<1>3. CASE x.status = "running"
  <2>1. /\ SetAttempt(x, "lost") \in Seq(AttemptStatuses)
        /\ Len(SetAttempt(x, "lost")) = Number(x)
        /\ SetAttempt(x, "lost")[Number(x)] = "lost"
        /\ Number(x) \in Nat
    BY <1>1, SetAttemptFacts, ConstantsAssumption DEF AttemptStatuses
  <2>2. ~terminalRunStatus(x.status) /\ y = Lost(x)
    BY <1>3 DEF Recovered, terminalRunStatus
  <2>3. CASE Number(x) >= MaxAttempts
    <3>1. y = GivenUp(x)
      BY <2>2, <2>3 DEF Lost
    <3>2. /\ y.status = "failed" /\ y.attempts = SetAttempt(x, "lost")
          /\ y.log = appendEvents(x, "attempt.lost", "run.failed")
      BY <1>1, <3>1 DEF GivenUp, Run
    <3> HIDE DEF y
    <3>3. Number(y) = Number(x) /\ Begun(y)
      BY <2>1, <3>2 DEF Number, Begun, AttemptStatus
    <3>4. /\ "attempt.lost" \in
                EventTypes \ (Announcing \union {"attempt.started"})
          /\ "run.failed" \in Announcing \ {"attempt.queued"}
          /\ RunStatusOf["run.failed"] = "failed"
      BY DEF EventTypes, Announcing, RunStatusOf
    <3> QED
      BY <1>1, <2>2, <3>2, <3>3, <3>4, PairLogged DEF y
  <2>4. CASE ~(Number(x) >= MaxAttempts)
    <3>1. y = Requeued(x)
      BY <2>2, <2>4 DEF Lost
    <3>2. /\ y.status = "queued"
          /\ y.attempts = Append(SetAttempt(x, "lost"), "queued")
          /\ y.log = Append(appendEvent(x, "attempt.lost"),
                            Event("attempt.queued", Number(x) + 1))
      BY <1>1, <3>1 DEF Requeued, Run
    <3> HIDE DEF y
    <3>3. "queued" \in AttemptStatuses
      BY DEF AttemptStatuses
    <3>4. Number(y) = Number(x) + 1 /\ ~Begun(y)
      BY <2>1, <3>2, <3>3, AppendProperties DEF Number, Begun, AttemptStatus
    <3> QED
      BY <1>1, <2>2, <3>2, <3>4, RetryLogged DEF y
  <2> QED
    BY <2>3, <2>4
<1> QED
  BY <1>2, <1>3 DEF Expired

(* The calls of a Node keep the log of its Run faithful.                   *)
LEMMA NodeCallLogged ==
  ASSUME NEW x, Good(x), LogGood(x), NEW k \in DOMAIN x.grants
  PROVE  /\ StartReply(x, k) = "ok" => LogGood(Started(x))
         /\ AcknowledgeReply(x, k) = "ok" => LogGood(finalizeCancellationTx(x))
         /\ \A v \in Results : CompleteReply(x, k, v) = "ok" =>
              LogGood(Completed(x, v))
         /\ \A v \in Causes : FailReply(x, k, v) = "ok" =>
              LogGood(Failed(x, v))
<1>1. Present(x) /\ x \in Run
  <2>1. AbsentRun.grants = <<>>
    BY DEF AbsentRun
  <2> QED
    BY <2>1 DEF Good, Coherent, Present
<1>2. \A a \in AttemptStatuses : /\ Len(SetAttempt(x, a)) = Number(x)
                                 /\ SetAttempt(x, a)[Number(x)] = a
  BY <1>1, SetAttemptFacts
<1>3. ASSUME StartReply(x, k) = "ok" PROVE LogGood(Started(x))
  <2> DEFINE y == Started(x)
  <2>1. x.status = "queued" /\ AttemptStatus(x) = "leased"
    BY <1>1, <1>3, AcceptedCalls DEF StartReply
  <2>2. /\ y.status = "running" /\ y.attempts = SetAttempt(x, "running")
        /\ y.log = appendEvents(x, "attempt.started", "run.started")
    BY <1>1 DEF Started, Run
  <2> HIDE DEF y
  <2>3. Number(y) = Number(x) /\ Begun(y)
    BY <1>2, <2>2 DEF Number, Begun, AttemptStatus, AttemptStatuses
  <2>4. ~Begun(x) /\ ~terminalRunStatus(x.status)
    BY <2>1 DEF Begun, terminalRunStatus
  <2> QED
    BY <1>1, <2>2, <2>3, <2>4, StartLogged DEF y
<1>4. ASSUME AcknowledgeReply(x, k) = "ok"
      PROVE  LogGood(finalizeCancellationTx(x))
  BY <1>1, <1>4, AcceptedCalls, FinalizeLogged
<1>5. ASSUME NEW v \in Results, CompleteReply(x, k, v) = "ok"
      PROVE  LogGood(Completed(x, v))
  <2> DEFINE y == Completed(x, v)
  <2>1. CASE x.status = "running"
    <3>1. /\ y.status = "succeeded" /\ y.attempts = SetAttempt(x, "succeeded")
          /\ y.log = appendEvents(x, "attempt.succeeded", "run.succeeded")
      BY <1>1, <2>1 DEF Completed, Run
    <3> HIDE DEF y
    <3>2. Number(y) = Number(x) /\ Begun(y)
      BY <1>2, <3>1 DEF Number, Begun, AttemptStatus, AttemptStatuses
    <3>3. /\ "attempt.succeeded" \in
                EventTypes \ (Announcing \union {"attempt.started"})
          /\ "run.succeeded" \in Announcing \ {"attempt.queued"}
          /\ RunStatusOf["run.succeeded"] = "succeeded"
      BY DEF EventTypes, Announcing, RunStatusOf
    <3>4. ~terminalRunStatus(x.status)
      BY <2>1 DEF terminalRunStatus
    <3> QED
      BY <1>1, <3>1, <3>2, <3>3, <3>4, PairLogged DEF y
  <2> QED
    BY <1>1, <1>5, <2>1, AcceptedCalls DEF Completed
<1>6. ASSUME NEW v \in Causes, FailReply(x, k, v) = "ok"
      PROVE  LogGood(Failed(x, v))
  <2> DEFINE y == Failed(x, v)
  <2>1. CASE x.status \in {"queued", "running"}
    <3>1. /\ y.status = "failed" /\ y.attempts = SetAttempt(x, "failed")
          /\ y.log = appendEvents(x, "attempt.failed", "run.failed")
      BY <1>1, <2>1 DEF Failed, Run
    <3> HIDE DEF y
    <3>2. Number(y) = Number(x) /\ Begun(y)
      BY <1>2, <3>1 DEF Number, Begun, AttemptStatus, AttemptStatuses
    <3>3. /\ "attempt.failed" \in
                EventTypes \ (Announcing \union {"attempt.started"})
          /\ "run.failed" \in Announcing \ {"attempt.queued"}
          /\ RunStatusOf["run.failed"] = "failed"
      BY DEF EventTypes, Announcing, RunStatusOf
    <3>4. ~terminalRunStatus(x.status)
      BY <2>1 DEF terminalRunStatus
    <3> QED
      BY <1>1, <3>1, <3>2, <3>3, <3>4, PairLogged DEF y
  <2> QED
    BY <1>1, <1>6, <2>1, AcceptedCalls DEF Failed
<1> QED
  BY <1>3, <1>4, <1>5, <1>6

(* Claim keeps the log of the Run it leases faithful.                      *)
LEMMA LeasedLogged ==
  ASSUME NEW x, Good(x), x.status = "queued", LogGood(x), NEW n
  PROVE  LogGood(Leased(x, n))
<1> DEFINE y == Leased(x, n)
<1>1. Present(x) /\ x \in Run /\ ~terminalRunStatus(x.status)
  BY DEF Present, Good, terminalRunStatus
<1>2. /\ Len(SetAttempt(x, "leased")) = Number(x)
      /\ SetAttempt(x, "leased")[Number(x)] = "leased"
  BY <1>1, SetAttemptFacts DEF AttemptStatuses
<1>3. /\ y.status = x.status /\ y.attempts = SetAttempt(x, "leased")
      /\ \/ y.log = appendEvent(x, "attempt.leased")
         \/ y.log = appendEvents(x, "attempt.lease_expired", "attempt.leased")
  BY <1>1 DEF Leased, Run
<1> HIDE DEF y
<1>4. AttemptStatus(x) \in {"queued", "leased"}
  BY <1>1 DEF Good, Coherent, Present, CurrentAttemptOf, RunStatuses
<1>5. Number(y) = Number(x) /\ Begun(y) = Begun(x)
  BY <1>2, <1>3, <1>4 DEF Number, Begun, AttemptStatus
<1> QED
  BY <1>1, <1>3, <1>5, LeaseLogged DEF y

(* A step that leaves a faithful log in the one row it writes.             *)
LEMMA UpdateLogged ==
  ASSUME AllGood, LogsGood, NEW r \in Runs, NEW x, LogGood(x), Update(r, x)
  PROVE  LogsGood'
BY DEF AllGood, LogsGood, Update

(* Every step of the store keeps every log faithful.                       *)
LEMMA NextLogged == AllGood /\ LogsGood /\ [Next]_vars => LogsGood'
<1> SUFFICES ASSUME AllGood, LogsGood, [Next]_vars PROVE LogsGood'
  OBVIOUS
<1>1. ASSUME NEW c \in Calls, ClaimStep(c) PROVE LogsGood'
  <2>1. ASSUME NEW r \in Runs, ClaimCommit(c, r) PROVE LogsGood'
    <3>1. LogGood(Leased(runs[r], claims[c].node))
      BY <2>1, LeasedLogged DEF ClaimCommit, StillClaimable, AllGood, LogsGood
    <3> QED
      BY <2>1, <3>1 DEF ClaimCommit, AllGood, LogsGood
  <2> QED
    BY <1>1, <2>1 DEF ClaimStep, ClaimBegin, ClaimNothing, LogsGood
<1>2. ASSUME NEW r \in Runs, RunStep(r) PROVE LogsGood'
  <2> DEFINE x == runs[r]
  <2>1. Good(x) /\ LogGood(x) /\ x \in Run
    BY DEF AllGood, LogsGood
  <2>2. ASSUME NEW d \in {"none", "ahead"}, Submit(r, d) PROVE LogsGood'
    BY <2>2, FirstLog, UpdateLogged DEF Submit
  <2>3. CASE CancelRun(r)
    BY <2>1, <2>3, RequestCancelLogged, UpdateLogged DEF CancelRun, Present
  <2>4. ASSUME NEW k \in DOMAIN x.grants, NodeCall(r, k) PROVE LogsGood'
    <3>1. CASE Renew(r, k)
      <4>1. LogGood([x EXCEPT !.ttl = LeaseTTL])
        BY <2>1, SameLog DEF Run
      <4> QED
        BY <3>1, <4>1, UpdateLogged DEF Renew
    <3> HIDE DEF x
    <3>2. CASE Start(r, k)
      BY <2>1, <2>4, <3>2, NodeCallLogged, UpdateLogged DEF Start, x
    <3>3. CASE AcknowledgeCancellation(r, k)
      BY <2>1, <2>4, <3>3, NodeCallLogged, UpdateLogged
         DEF AcknowledgeCancellation, x
    <3>4. ASSUME NEW v \in Results, Complete(r, k, v) PROVE LogsGood'
      BY <2>1, <2>4, <3>4, NodeCallLogged, UpdateLogged DEF Complete, x
    <3>5. ASSUME NEW v \in Causes, Fail(r, k, v) PROVE LogsGood'
      BY <2>1, <2>4, <3>5, NodeCallLogged, UpdateLogged DEF Fail, x
    <3> QED
      BY <2>4, <3>1, <3>2, <3>3, <3>4, <3>5 DEF NodeCall
  <2>5. CASE LeaseTicks(r)
    <3>1. LogGood([x EXCEPT !.ttl = x.ttl - 1])
      BY <2>1, SameLog DEF Run
    <3> QED
      BY <2>5, <3>1, UpdateLogged DEF LeaseTicks
  <2>6. CASE DeadlinePasses(r)
    <3>1. LogGood([x EXCEPT !.deadline = "passed"])
      BY <2>1, SameLog DEF Run
    <3> QED
      BY <2>6, <3>1, UpdateLogged DEF DeadlinePasses
  <2>7. CASE BackoffElapses(r)
    <3>1. LogGood([x EXCEPT !.available = TRUE])
      BY <2>1, SameLog DEF Run
    <3> QED
      BY <2>7, <3>1, UpdateLogged DEF BackoffElapses
  <2> QED
    BY <1>2, <2>2, <2>3, <2>4, <2>5, <2>6, <2>7 DEF RunStep
<1>3. ASSUME NEW D \in SUBSET Runs, NEW E \in SUBSET Runs, Reconcile(D, E)
      PROVE  LogsGood'
  <2> SUFFICES ASSUME NEW r \in Runs PROVE LogGood(runs'[r])
    BY DEF LogsGood
  <2> DEFINE x == runs[r]
             z == IF r \in D THEN requestCancelTx(x) ELSE x
  <2>1. /\ r \in D => Overdue(x)
        /\ r \in E => Expired(z)
        /\ runs'[r] = IF r \in E THEN Recovered(z) ELSE z
    BY <1>3 DEF Reconcile
  <2>2. Good(x) /\ LogGood(x) /\ (r \in D => Present(x))
    BY <2>1 DEF AllGood, LogsGood, Overdue, Present
  <2>3. Good(z) /\ LogGood(z)
    BY <2>2, RequestCancelGood, RequestCancelLogged
  <2> HIDE DEF z
  <2> QED
    BY <2>1, <2>3, RecoveredLogged
<1> QED
  BY <1>1, <1>2, <1>3 DEF Next, RegisterNode, vars, LogsGood

(* The events of a Run always tell its status: the last announcement is    *)
(* the present status, each Attempt was queued once and started at most    *)
(* once, and nothing follows a terminal event, whatever the interleaving.  *)
THEOREM LogAlwaysFaithful == Spec => []LogIsFaithful
<1>1. Init => LogsGood
  BY FirstLog DEF Init, LogsGood
<1>2. AllGood /\ LogsGood => LogIsFaithful
  BY FaithfulLogs DEF AllGood, LogsGood, Good, Coherent, Present
<1> QED
  BY <1>1, <1>2, NextLogged, AlwaysGood, PTL DEF Spec

-----------------------------------------------------------------------------
(* The load of a Node.  Claim reads it before it locks anything, so two    *)
(* claims of one Node that overlap may both find room for one more; and a   *)
(* Node may register again with less capacity.  Nothing else can push a     *)
(* Node over its capacity: only Claim adds to the load.                    *)

(* The claims of one Node follow each other.                               *)
OneClaimPerNode ==
  \A c, d \in Calls :
    claims[c].node \in Nodes /\ claims[d].node = claims[c].node => c = d

(* No Node registers again with less capacity than before.                 *)
CapacityKept == [][\A n \in Nodes : capacity'[n] >= capacity[n]]_capacity

Loads(x, n) ==
  /\ Present(x) /\ x.node = n
  /\ AttemptStatus(x) \in {"leased", "running"}
  /\ x.ttl > 0

(* The change of a row adds to the load of no Node.                        *)
Lightens(x, y) == \A n \in Nodes : Loads(y, n) => Loads(x, n)

LoadOf(f, n) == {r \in Runs : Loads(f[r], n)}

(* An open claim of a Node has found room that nobody else takes.          *)
Fits(f, cap, open) ==
  \A n \in Nodes :
    /\ IsFiniteSet(LoadOf(f, n))
    /\ Cardinality(LoadOf(f, n)) <= cap[n]
    /\ \A c \in Calls : open[c].node = n => Cardinality(LoadOf(f, n)) < cap[n]

(* A transaction that ends the current Attempt, or keeps Attempt and lease, *)
(* adds to no load.                                                        *)
LEMMA LightChanges ==
  ASSUME NEW x, Good(x), Present(x), NEW y,
         \/ \E a \in AttemptStatuses \ {"leased", "running"} :
              y.attempts = SetAttempt(x, a)
         \/ /\ y.attempts = x.attempts /\ y.node = x.node
            /\ y.ttl > 0 => x.ttl > 0
  PROVE  Lightens(x, y)
<1>1. CASE \E a \in AttemptStatuses \ {"leased", "running"} :
             y.attempts = SetAttempt(x, a)
  <2>1. PICK a \in AttemptStatuses \ {"leased", "running"} :
          y.attempts = SetAttempt(x, a)
    BY <1>1
  <2>2. AttemptStatus(y) = a
    BY <2>1, SetAttemptFacts DEF AttemptStatus, Number
  <2> QED
    BY <2>1, <2>2 DEF Lightens, Loads
<1>2. CASE /\ y.attempts = x.attempts /\ y.node = x.node
           /\ y.ttl > 0 => x.ttl > 0
  BY <1>2 DEF Lightens, Loads, AttemptStatus, Number
<1> QED
  BY <1>1, <1>2

(* Cancelling a Run, at once or on request, adds to no load.               *)
LEMMA CancelLightens ==
  ASSUME NEW x, Good(x), Present(x)
  PROVE  /\ Lightens(x, finalizeCancellationTx(x))
         /\ Lightens(x, requestCancelTx(x))
<1>1. x \in Run /\ "cancelled" \in AttemptStatuses \ {"leased", "running"}
  BY DEF Good, AttemptStatuses
<1>2. Lightens(x, x)
  BY DEF Lightens
<1>3. Lightens(x, finalizeCancellationTx(x))
  <2> DEFINE y == finalizeCancellationTx(x)
  <2>1. y = x \/ y.attempts = SetAttempt(x, "cancelled")
    BY <1>1 DEF finalizeCancellationTx, Run
  <2> QED
    BY <1>1, <1>2, <2>1, LightChanges
<1>4. Lightens(x, requestCancelTx(x))
  <2> DEFINE log == appendEvent(x, "run.cancel_requested")
             q   == [x EXCEPT !.status = "cancelling",
                              !.cancelRequested = TRUE, !.log = log]
             y   == requestCancelTx(x)
  <2>1. log \in Seq([type : EventTypes, attempt : Nat])
    BY <1>1, AppendEventFacts DEF EventTypes, RunStatusOf
  <2>2. y = x \/ y = q \/ y = finalizeCancellationTx(q)
    BY DEF requestCancelTx
  <2> HIDE DEF log
  <2>3. /\ q \in Run /\ q.attempts = x.attempts /\ q.node = x.node
        /\ q.ttl = x.ttl /\ q.status = "cancelling"
    BY <1>1, <2>1 DEF Run, RunStatuses
  <2>4. SetAttempt(q, "cancelled") = SetAttempt(x, "cancelled")
    BY <2>3 DEF SetAttempt, Number
  <2> HIDE DEF q, y
  <2>5. CASE y = finalizeCancellationTx(q)
    <3>1. y.attempts = SetAttempt(q, "cancelled")
      BY <2>3, <2>5 DEF finalizeCancellationTx, Run
    <3> QED
      BY <1>1, <2>4, <3>1, LightChanges DEF y
  <2>6. CASE y = q
    BY <2>3, <2>6, LightChanges DEF y
  <2> QED
    BY <1>2, <2>2, <2>5, <2>6 DEF y
<1> QED
  BY <1>3, <1>4

(* Nor does the recovery of an expired Run.                                *)
LEMMA RecoverLightens ==
  ASSUME NEW x, Good(x), Present(x)
  PROVE  Lightens(x, Recovered(x))
<1> DEFINE l == SetAttempt(x, "lost")
           y == Lost(x)
<1>1. /\ x \in Run /\ "lost" \in AttemptStatuses \ {"leased", "running"}
      /\ "queued" \in AttemptStatuses
  BY DEF Good, AttemptStatuses
<1>2. Number(x) \in Nat /\ l \in Seq(AttemptStatuses) /\ Len(l) = Number(x)
  BY <1>1, SetAttemptFacts, ConstantsAssumption
<1>3. y.attempts = l \/ y.attempts = Append(l, "queued")
  BY <1>1 DEF Lost, GivenUp, Requeued, Run
<1> HIDE DEF l, y
<1>4. CASE y.attempts = Append(l, "queued")
  <2>1. AttemptStatus(y) = "queued"
    BY <1>1, <1>2, <1>4, AppendProperties DEF AttemptStatus, Number
  <2> QED
    BY <2>1, CancelLightens DEF Recovered, Lightens, Loads, y
<1>5. CASE y.attempts = l
  BY <1>1, <1>5, LightChanges, CancelLightens DEF Recovered, y, l
<1> QED
  BY <1>3, <1>4, <1>5

(* Nor does any accepted call of a Node: Start and Renew need a lease that *)
(* has not expired.                                                        *)
LEMMA NodeCallLightens ==
  ASSUME NEW x, Good(x), NEW k \in DOMAIN x.grants
  PROVE  /\ StartReply(x, k) = "ok" => Lightens(x, Started(x))
         /\ RenewReply(x, k) = "ok" =>
              Lightens(x, [x EXCEPT !.ttl = LeaseTTL])
         /\ Lightens(x, finalizeCancellationTx(x))
         /\ \A v \in Results : Lightens(x, Completed(x, v))
         /\ \A v \in Causes : Lightens(x, Failed(x, v))
<1>1. Present(x) /\ x \in Run
  <2>1. AbsentRun.grants = <<>>
    BY DEF AbsentRun
  <2> QED
    BY <2>1 DEF Good, Coherent, Present
<1>2. {"succeeded", "failed"} \subseteq AttemptStatuses \ {"leased", "running"}
  BY DEF AttemptStatuses
<1>3. Lightens(x, x)
  BY DEF Lightens
<1>4. ASSUME StartReply(x, k) = "ok" PROVE Lightens(x, Started(x))
  <2> DEFINE y == Started(x)
  <2>1. x.status = "queued" /\ AttemptStatus(x) = "leased"
    BY <1>1, <1>4, AcceptedCalls DEF StartReply
  <2>2. y.node = x.node /\ y.ttl = x.ttl
    BY <1>1 DEF Started, Run
  <2> QED
    BY <1>1, <2>1, <2>2 DEF Lightens, Loads
<1>5. ASSUME RenewReply(x, k) = "ok"
      PROVE  Lightens(x, [x EXCEPT !.ttl = LeaseTTL])
  <2> DEFINE y == [x EXCEPT !.ttl = LeaseTTL]
  <2>1. x.ttl > 0
    BY <1>5 DEF RenewReply, Renewable
  <2>2. y.attempts = x.attempts /\ y.node = x.node
    BY <1>1 DEF Run
  <2> QED
    BY <1>1, <2>1, <2>2, LightChanges
<1>6. ASSUME NEW v PROVE Lightens(x, Completed(x, v))
  <2> DEFINE y == Completed(x, v)
  <2>1. y = x \/ y.attempts = SetAttempt(x, "succeeded")
    BY <1>1 DEF Completed, Run
  <2> QED
    BY <1>1, <1>2, <1>3, <2>1, LightChanges
<1>7. ASSUME NEW v PROVE Lightens(x, Failed(x, v))
  <2> DEFINE y == Failed(x, v)
  <2>1. y = x \/ y.attempts = SetAttempt(x, "failed")
    BY <1>1 DEF Failed, Run
  <2> QED
    BY <1>1, <1>2, <1>3, <2>1, LightChanges
<1> QED
  BY <1>1, <1>4, <1>5, <1>6, <1>7, CancelLightens

(* Every step but Claim taking a Run lightens every row.                   *)
LEMMA StepLightens ==
  ASSUME AllGood, [Next]_vars, NEW r \in Runs,
         \A c \in Calls, q \in Runs : ~ClaimCommit(c, q)
  PROVE  Lightens(runs[r], runs'[r])
<1>1. Good(runs[r]) /\ runs \in [Runs -> Run]
  BY DEF AllGood
<1>2. Lightens(runs[r], runs[r])
  BY DEF Lightens
<1>3. ASSUME NEW q \in Runs, NEW y, Update(q, y), Lightens(runs[q], y)
      PROVE  Lightens(runs[r], runs'[r])
  BY <1>1, <1>2, <1>3 DEF Update
<1>4. ASSUME NEW q \in Runs, RunStep(q) PROVE Lightens(runs[r], runs'[r])
  <2> DEFINE x == runs[q]
  <2>1. Good(x) /\ x \in Run /\ (~Present(x) => x = AbsentRun)
    BY DEF AllGood, Good, Coherent, Present
  <2>2. AbsentRun.ttl = 0 /\ AbsentRun.deadline = "none"
    BY DEF AbsentRun
  <2> HIDE DEF x
  <2>3. ASSUME NEW d \in {"none", "ahead"}, Submit(q, d)
        PROVE  Lightens(runs[r], runs'[r])
    <3>1. Submitted(d).ttl = 0
      BY DEF Submitted
    <3>2. Lightens(x, Submitted(d))
      BY <3>1 DEF Lightens, Loads
    <3> QED
      BY <1>3, <2>3, <3>2 DEF Submit, x
  <2>4. CASE CancelRun(q)
    BY <1>3, <2>1, <2>4, CancelLightens DEF CancelRun, Present, x
  <2>5. ASSUME NEW k \in DOMAIN x.grants, NodeCall(q, k)
        PROVE  Lightens(runs[r], runs'[r])
    <3>1. /\ StartReply(x, k) = "ok" => Lightens(x, Started(x))
          /\ RenewReply(x, k) = "ok" => Lightens(x, [x EXCEPT !.ttl = LeaseTTL])
          /\ Lightens(x, finalizeCancellationTx(x))
          /\ \A v \in Results : Lightens(x, Completed(x, v))
          /\ \A v \in Causes : Lightens(x, Failed(x, v))
      BY <2>1, NodeCallLightens
    <3>2. PICK y : Lightens(x, y) /\ Update(q, y)
      BY <2>5, <3>1 DEF NodeCall, Renew, Start, Complete, Fail,
                        AcknowledgeCancellation, x
    <3> QED
      BY <1>3, <3>2 DEF x
  <2>6. CASE LeaseTicks(q)
    <3> DEFINE y == [x EXCEPT !.ttl = x.ttl - 1]
    <3>1. x.ttl > 0 /\ Update(q, y)
      BY <2>6 DEF LeaseTicks, x
    <3>2. Present(x) /\ y.attempts = x.attempts /\ y.node = x.node
      BY <2>1, <2>2, <3>1 DEF Run
    <3> HIDE DEF y
    <3>3. Lightens(x, y)
      BY <2>1, <3>1, <3>2, LightChanges
    <3> QED
      BY <1>3, <3>1, <3>3 DEF x
  <2>7. CASE DeadlinePasses(q)
    <3> DEFINE y == [x EXCEPT !.deadline = "passed"]
    <3>1. x.deadline = "ahead" /\ Update(q, y)
      BY <2>7 DEF DeadlinePasses, x
    <3>2. /\ Present(x) /\ y.attempts = x.attempts /\ y.node = x.node
          /\ y.ttl = x.ttl
      BY <2>1, <2>2, <3>1 DEF Run
    <3> HIDE DEF y
    <3>3. Lightens(x, y)
      BY <2>1, <3>2, LightChanges
    <3> QED
      BY <1>3, <3>1, <3>3 DEF x
  <2>8. CASE BackoffElapses(q)
    <3> DEFINE y == [x EXCEPT !.available = TRUE]
    <3>1. x.status = "queued" /\ Update(q, y)
      BY <2>8 DEF BackoffElapses, x
    <3>2. /\ Present(x) /\ y.attempts = x.attempts /\ y.node = x.node
          /\ y.ttl = x.ttl
      BY <2>1, <3>1 DEF Run, Present
    <3> HIDE DEF y
    <3>3. Lightens(x, y)
      BY <2>1, <3>2, LightChanges
    <3> QED
      BY <1>3, <3>1, <3>3 DEF x
  <2> QED
    BY <1>4, <2>3, <2>4, <2>5, <2>6, <2>7, <2>8 DEF RunStep, x
<1>5. ASSUME NEW D \in SUBSET Runs, NEW E \in SUBSET Runs, Reconcile(D, E)
      PROVE  Lightens(runs[r], runs'[r])
  <2> DEFINE x == runs[r]
             z == IF r \in D THEN requestCancelTx(x) ELSE x
  <2>1. /\ r \in D => Overdue(x)
        /\ r \in E => Expired(z)
        /\ runs'[r] = IF r \in E THEN Recovered(z) ELSE z
    BY <1>5 DEF Reconcile
  <2>2. r \in D => Present(x)
    BY <2>1 DEF Overdue, Present
  <2>3. Good(z) /\ Lightens(x, z)
    BY <1>1, <1>2, <2>2, RequestCancelGood, CancelLightens
  <2> HIDE DEF z
  <2>4. r \in E => Present(z)
    BY <2>1 DEF Expired, Present
  <2>5. r \in E => Lightens(z, Recovered(z))
    BY <2>3, <2>4, RecoverLightens
  <2> QED
    BY <2>1, <2>3, <2>5 DEF Lightens
<1> QED
  BY <1>2, <1>4, <1>5 DEF Next, RegisterNode, vars, ClaimStep, ClaimBegin,
     ClaimNothing

(* A set with at most one more element.                                    *)
LEMMA OneMore ==
  ASSUME NEW S, NEW T, NEW e, IsFiniteSet(S), T \subseteq S \cup {e}
  PROVE  /\ IsFiniteSet(T)
         /\ Cardinality(S) \in Nat /\ Cardinality(T) \in Nat
         /\ Cardinality(T) <= Cardinality(S) + 1
         /\ T \subseteq S => Cardinality(T) <= Cardinality(S)
<1>1. /\ IsFiniteSet(S \cup {e})
      /\ Cardinality(S \cup {e}) = IF e \in S THEN Cardinality(S)
                                              ELSE Cardinality(S) + 1
  BY FS_AddElement
<1>2. IsFiniteSet(T) /\ Cardinality(T) <= Cardinality(S \cup {e})
  BY <1>1, FS_Subset
<1>3. Cardinality(S) \in Nat /\ Cardinality(T) \in Nat
  BY <1>2, FS_CardinalityType
<1>4. T \subseteq S => Cardinality(T) <= Cardinality(S)
  BY FS_Subset
<1> QED
  BY <1>1, <1>2, <1>3, <1>4

(* Every step leaves every Node with room for the claims it has open.      *)
LEMMA FitsKept ==
  ASSUME AllGood, Fits(runs, capacity, claims), OneClaimPerNode, [Next]_vars,
         \A n \in Nodes : capacity'[n] >= capacity[n]
  PROVE  Fits(runs', capacity', claims')
<1> SUFFICES ASSUME NEW n \in Nodes
             PROVE  /\ IsFiniteSet(LoadOf(runs', n))
                    /\ Cardinality(LoadOf(runs', n)) <= capacity'[n]
                    /\ \A c \in Calls : claims'[c].node = n =>
                         Cardinality(LoadOf(runs', n)) < capacity'[n]
  BY DEF Fits
<1> DEFINE S == LoadOf(runs, n)
           T == LoadOf(runs', n)
<1>1. /\ claims \in [Calls -> Claim] /\ runs \in [Runs -> Run]
      /\ capacity \in [Nodes -> Nat]
  BY DEF AllGood
<1>2. /\ IsFiniteSet(S) /\ Cardinality(S) <= capacity[n]
      /\ \A c \in Calls : claims[c].node = n => Cardinality(S) < capacity[n]
  BY DEF Fits
<1>3. capacity[n] \in Nat /\ capacity'[n] \in Nat /\ capacity'[n] >= capacity[n]
  <2>1. AllGood'
    BY NextGood
  <2> QED
    BY <1>1, <2>1 DEF AllGood
<1>4. n # NoValue /\ NoClaim.node = NoValue
  BY ConstantsAssumption DEF NoClaim
<1>5. CASE \A c \in Calls, q \in Runs : ~ClaimCommit(c, q)
  <2>1. T \subseteq S
    BY <1>5, StepLightens DEF LoadOf, Lightens
  <2>2. /\ IsFiniteSet(T) /\ Cardinality(T) <= Cardinality(S)
        /\ Cardinality(S) \in Nat /\ Cardinality(T) \in Nat
    BY <1>2, <2>1, OneMore
  <2> HIDE DEF S, T
  <2>3. ASSUME NEW c \in Calls, claims'[c].node = n
        PROVE  Cardinality(S) < capacity[n]
    <3>1. CASE claims[c].node = n
      BY <1>2, <3>1
    <3>2. CASE claims[c].node # n
      <4>1. PICK d \in Calls : ClaimStep(d)
        BY <2>3, <3>2 DEF Next, RunStep, NodeCall, Submit, CancelRun, Renew,
           Start, Complete, Fail, AcknowledgeCancellation, LeaseTicks,
           DeadlinePasses, BackoffElapses, Update, Reconcile, RegisterNode, vars
      <4>2. ~ClaimNothing(d)
        BY <1>1, <1>4, <2>3, <3>2 DEF ClaimNothing
      <4>3. PICK m \in Nodes : ClaimBegin(d, m)
        BY <1>5, <4>1, <4>2 DEF ClaimStep
      <4>4. c = d /\ m = n
        BY <1>1, <2>3, <3>2, <4>3 DEF ClaimBegin
      <4>5. Held(n) = S
        BY DEF Held, S, LoadOf, Loads, Present
      <4> QED
        BY <4>3, <4>4, <4>5 DEF ClaimBegin, Active
    <3> QED
      BY <3>1, <3>2
  <2>4. /\ Cardinality(T) <= capacity'[n]
        /\ Cardinality(S) < capacity[n] => Cardinality(T) < capacity'[n]
    BY <1>2, <1>3, <2>2
  <2> QED
    BY <2>2, <2>3, <2>4 DEF T
<1>6. ASSUME NEW c \in Calls, NEW q \in Runs, ClaimCommit(c, q)
      PROVE  /\ IsFiniteSet(T) /\ Cardinality(T) <= capacity'[n]
             /\ \A d \in Calls : claims'[d].node = n =>
                  Cardinality(T) < capacity'[n]
  <2> DEFINE m == claims[c].node
             y == Leased(runs[q], m)
  <2>1. /\ runs' = [runs EXCEPT ![q] = y] /\ capacity' = capacity
        /\ claims' = [claims EXCEPT ![c] = NoClaim]
    BY <1>6 DEF ClaimCommit
  <2>2. m \in Nodes /\ y.node = m
    BY <1>1, <1>6, ConstantsAssumption DEF ClaimCommit, Leased, Run
  <2> HIDE DEF y
  <2>3. T \subseteq S \cup {q} /\ (m # n => T \subseteq S)
    BY <1>1, <2>1, <2>2 DEF LoadOf, Loads
  <2>4. /\ IsFiniteSet(T) /\ Cardinality(T) <= Cardinality(S) + 1
        /\ Cardinality(S) \in Nat /\ Cardinality(T) \in Nat
        /\ m # n => Cardinality(T) <= Cardinality(S)
    BY <1>2, <2>3, OneMore
  <2> HIDE DEF S, T
  <2>5. ASSUME NEW d \in Calls, claims'[d].node = n
        PROVE  d # c /\ claims[d].node = n
    BY <1>1, <1>4, <2>1, <2>5
  <2>6. CASE m = n
    <3>1. Cardinality(S) < capacity[n]
      BY <1>2, <2>6
    <3>2. ~ \E d \in Calls : claims'[d].node = n
      BY <2>2, <2>5, <2>6 DEF OneClaimPerNode
    <3> QED
      BY <1>3, <2>1, <2>4, <3>1, <3>2
  <2>7. CASE m # n
    <3>1. Cardinality(T) <= capacity[n]
          /\ (Cardinality(S) < capacity[n] => Cardinality(T) < capacity[n])
      BY <1>2, <1>3, <2>4, <2>7
    <3> QED
      BY <1>2, <2>1, <2>4, <2>5, <3>1
  <2> QED
    BY <2>6, <2>7
<1> QED
  BY <1>5, <1>6

(* A Node never holds more leases than its capacity as long as its claims  *)
(* follow each other and it does not register with less capacity: the      *)
(* overlap of two claims of one Node is the only race that exceeds it.      *)
(* Other Nodes, their claims, renewals, expired leases that come to life   *)
(* again and the reconciler do not matter.                                 *)
THEOREM CapacityOfSingleClaims ==
  Spec /\ []OneClaimPerNode /\ CapacityKept => []CapacityRespected
<1> DEFINE Inv == Fits(runs, capacity, claims)
<1>1. Init => Inv
  <2> SUFFICES ASSUME Init PROVE Inv
    OBVIOUS
  <2>1. ASSUME NEW n \in Nodes
        PROVE  /\ LoadOf(runs, n) = {} /\ capacity[n] = 0
               /\ \A c \in Calls : claims[c].node # n
    <3>1. AbsentRun.ttl = 0 /\ NoClaim.node = NoValue /\ n # NoValue
      BY ConstantsAssumption DEF AbsentRun, NoClaim
    <3> QED
      BY <3>1 DEF Init, LoadOf, Loads
  <2> QED
    BY <2>1, FS_EmptySet DEF Fits
<1>2. /\ AllGood /\ Inv /\ OneClaimPerNode /\ [Next]_vars
      /\ [\A n \in Nodes : capacity'[n] >= capacity[n]]_capacity
      => Inv'
  <2> SUFFICES ASSUME AllGood, Inv, OneClaimPerNode, [Next]_vars,
                      [\A n \in Nodes : capacity'[n] >= capacity[n]]_capacity
               PROVE  Inv'
    OBVIOUS
  <2>1. capacity' = capacity => \A n \in Nodes : capacity'[n] >= capacity[n]
    BY DEF AllGood
  <2>2. Fits(runs', capacity', claims')
    BY <2>1, FitsKept
  <2> QED
    BY <2>2 DEF Fits, LoadOf
<1>3. Inv => CapacityRespected
  <2>1. \A n \in Nodes : Held(n) = LoadOf(runs, n)
    BY DEF Held, LoadOf, Loads, Present
  <2> QED
    BY <2>1 DEF Fits, CapacityRespected, Active
<1> HIDE DEF Inv
<1> QED
  BY <1>1, <1>2, <1>3, AlwaysGood, PTL DEF Spec, CapacityKept
=============================================================================
