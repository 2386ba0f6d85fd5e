------------------------- MODULE MemoryStorageProofs -------------------------
(***************************************************************************)
(* Proofs about MemoryStorage, for every set of Runs and Nodes, every      *)
(* retry policy, lease length and reconcile limit.                         *)
(*                                                                         *)
(* A method is a function from the record of a Run to its effect.  Row     *)
(* says what an effect may do to one record: it leaves a sound record,     *)
(* moves it in one of the ways the other store does or gives an expired    *)
(* lease back, and releases a Node exactly when the Node stops working on  *)
(* the Run.  Every method is shown to have such effects; the theorems      *)
(* follow by looking at one Run at a time, the one about Node.Active by    *)
(* counting the Runs whose effects release a Node.                         *)
(***************************************************************************)
EXTENDS MemoryStorage, RunRecordsProofs

(* The statuses agree as in the database, but for a lease that is given     *)
(* back by a refused call after the Run was asked to cancel: that Run      *)
(* stays cancelling with an Attempt in the queue.                          *)
Story(x) ==
  /\ Number(x) \in 1 .. MaxAttempts
  /\ \/ AttemptStatus(x) \in CurrentAttemptOf[x.status]
     \/ x.status = "cancelling" /\ AttemptStatus(x) = "queued"
  /\ \A i \in 1 .. Number(x) - 1 : x.attempts[i] = "lost"
  /\ x.cancelRequested <=> x.status \in {"cancelling", "cancelled"}
  /\ x.outcome # NoValue <=> x.status \in {"succeeded", "failed"}

Working(x) == Present(x) /\ AttemptStatus(x) \in {"leased", "running"}

Waiting(x) == Present(x) /\ AttemptStatus(x) = "queued"

(* The Node that counts the Run as active.                                 *)
Holder(x) == IF Working(x) THEN x.node ELSE NoValue

(* The inductive invariant of one record.                                  *)
Sound(x) ==
  /\ x \in Run
  /\ IF Present(x) THEN Story(x) ELSE x = AbsentRun
  /\ Fenced(x)
  /\ Working(x) => x.node \in Nodes
  /\ Waiting(x) => x.token = 0 /\ x.node = NoValue
  /\ Owned(x)
  /\ LogGood(x)

(* An unstarted lease is given back.                                       *)
Returned(x, y) ==
  /\ y.status = x.status /\ x.status \in {"queued", "cancelling"}
  /\ y.outcome = x.outcome /\ Len(y.attempts) = Len(x.attempts)
  /\ AttemptStatus(x) = "leased" /\ x.ttl = 0
  /\ AttemptStatus(y) = "queued" /\ y.token = 0 /\ y.grants = x.grants

Moves(x, y) == Changed(x, y) \/ Returned(x, y)

(* Node n, if any, is released because it stops working on the Run.        *)
Settles(x, y, n) ==
  \/ n = NoValue /\ Holder(y) = Holder(x)
  \/ n \in Nodes /\ Holder(x) = n /\ Holder(y) = NoValue

Row(x, e) ==
  /\ Sound(e.run)
  /\ Moves(x, e.run)
  /\ Settles(x, e.run, e.released)

-----------------------------------------------------------------------------
(* The parts of an effect.                                                 *)
LEMMA EffectParts ==
  ASSUME NEW x, NEW n, NEW reply
  PROVE  /\ Effect(x, n, reply).run = x
         /\ Effect(x, n, reply).released = n
         /\ Effect(x, n, reply).reply = reply
         /\ Keep(x, reply).run = x
         /\ Keep(x, reply).released = NoValue
         /\ Keep(x, reply).reply = reply
BY DEF Effect, Keep

(* What a sound record says, for the steps below.                          *)
LEMMA SoundFacts ==
  ASSUME NEW x, Sound(x), Present(x)
  PROVE  /\ x \in Run /\ Numbered(x) /\ x.status \in RunStatuses
         /\ Number(x) \in Nat /\ AttemptStatus(x) \in AttemptStatuses
         /\ x.token \in Nat /\ x.ttl \in Nat /\ x.grants \in Seq(Nat)
         /\ x.log \in Seq(LogEvent)
         /\ Begun(x) \in BOOLEAN
<1>1. x \in Run /\ Numbered(x)
  BY DEF Sound, Story, Numbered
<1>2. "queued" \in AttemptStatuses
  BY DEF AttemptStatuses
<1> QED
  BY <1>1, <1>2, SetCurrentAttempt DEF Run, Number, Present, LogEvent, Begun

(* Which statuses go together.                                             *)
LEMMA SoundStatuses ==
  ASSUME NEW x, Sound(x), Present(x)
  PROVE  /\ AttemptStatus(x) = "leased" => x.status \in {"queued", "cancelling"}
         /\ AttemptStatus(x) = "running" => x.status \in {"running", "cancelling"}
         /\ x.status = "queued" => AttemptStatus(x) \in {"queued", "leased"}
         /\ x.status = "running" => AttemptStatus(x) = "running"
         /\ x.status = "cancelling" =>
              AttemptStatus(x) \in {"queued", "leased", "running"}
         /\ x.status = "succeeded" => AttemptStatus(x) = "succeeded"
         /\ terminalRunStatus(x.status) => ~Working(x) /\ ~Waiting(x)
         /\ ~terminalRunStatus(x.status) => Working(x) \/ Waiting(x)
<1>1. x.status \in RunStatuses
  BY SoundFacts
<1>2. \/ AttemptStatus(x) \in CurrentAttemptOf[x.status]
      \/ x.status = "cancelling" /\ AttemptStatus(x) = "queued"
  BY DEF Sound, Story
<1> QED
  BY <1>1, <1>2
     DEF CurrentAttemptOf, RunStatuses, terminalRunStatus, Working, Waiting

(* A call that changes nothing.                                            *)
LEMMA KeepRow ==
  ASSUME NEW x, Sound(x), NEW reply
  PROVE  Row(x, Keep(x, reply))
<1>1. Changed(x, x)
  BY DEF Changed, Kept
<1> QED
  BY <1>1, EffectParts DEF Row, Moves, Settles

-----------------------------------------------------------------------------
(* An operation that writes both statuses, the outcome and two events.     *)
Written(x, s, o, a, first, second) ==
  [x EXCEPT !.status   = s,
            !.outcome  = o,
            !.attempts = SetAttempt(x, a),
            !.log      = appendEvents(x, first, second)]

WrittenAs(x, y, s, o, a, first, second) ==
  /\ y \in Run
  /\ y.status = s /\ y.outcome = o /\ y.attempts = SetAttempt(x, a)
  /\ y.log = appendEvents(x, first, second)
  /\ y.token = x.token /\ y.ttl = x.ttl /\ y.node = x.node
  /\ y.grants = x.grants /\ y.cancelRequested = x.cancelRequested
  /\ Number(y) = Number(x) /\ AttemptStatus(y) = a
  /\ \A i \in 1 .. Number(y) - 1 : y.attempts[i] = "lost"

(* Such an operation leaves a record with these columns.                   *)
LEMMA WrittenFields ==
  ASSUME NEW x, Numbered(x), NEW s \in RunStatuses,
         NEW o \in Outcomes \union {NoValue}, NEW a \in AttemptStatuses,
         NEW first \in EventTypes, NEW second \in EventTypes
  PROVE  WrittenAs(x, Written(x, s, o, a, first, second), s, o, a, first, second)
<1> DEFINE as  == SetAttempt(x, a)
           log == appendEvents(x, first, second)
           y   == Written(x, s, o, a, first, second)
<1>1. x \in Run
  BY DEF Numbered
<1>2. /\ as \in Seq(AttemptStatuses) /\ Len(as) = Number(x)
      /\ as[Number(x)] = a /\ \A i \in 1 .. Number(x) - 1 : as[i] = "lost"
  BY SetCurrentAttempt
<1>3. log \in Seq([type : EventTypes, attempt : Nat])
  BY <1>1, AppendEventFacts
<1>4. y = [x EXCEPT !.status = s, !.outcome = o, !.attempts = as, !.log = log]
  BY DEF Written
<1> HIDE DEF as, log, y
<1>5. /\ y \in Run
      /\ y.status = s /\ y.outcome = o /\ y.attempts = as /\ y.log = log
      /\ y.token = x.token /\ y.ttl = x.ttl /\ y.node = x.node
      /\ y.grants = x.grants /\ y.cancelRequested = x.cancelRequested
  BY <1>1, <1>2, <1>3, <1>4 DEF Run
<1>6. Number(y) = Number(x) /\ AttemptStatus(y) = a
  BY <1>2, <1>5 DEF Number, AttemptStatus
<1> QED
  BY <1>2, <1>5, <1>6 DEF WrittenAs, as, log, y

(* An operation that ends a Run leaves a sound record.                     *)
LEMMA EndedSound ==
  ASSUME NEW x, Sound(x), Present(x), ~terminalRunStatus(x.status),
         NEW y, NEW s \in {"cancelled", "succeeded", "failed"}, NEW o,
         NEW a \in CurrentAttemptOf[s],
         NEW first \in EventTypes \ (Announcing \union {"attempt.started"}),
         NEW second \in Announcing \ {"attempt.queued"},
         RunStatusOf[second] = s,
         WrittenAs(x, y, s, o, a, first, second),
         s = "cancelled" <=> x.cancelRequested,
         o = NoValue <=> s = "cancelled",
         s = "succeeded" \/ a = "failed" => x.token > 0
  PROVE  Sound(y)
<1>1. /\ y \in Run /\ y.status = s /\ y.outcome = o
      /\ y.token = x.token /\ y.ttl = x.ttl /\ y.grants = x.grants
      /\ y.cancelRequested = x.cancelRequested
      /\ Number(y) = Number(x) /\ AttemptStatus(y) = a
      /\ \A i \in 1 .. Number(y) - 1 : y.attempts[i] = "lost"
      /\ y.log = appendEvents(x, first, second)
  BY DEF WrittenAs
<1>2. /\ Present(y) /\ a \notin {"queued", "leased", "running"}
      /\ a = "failed" \/ a = "lost" => s = "failed"
  BY <1>1 DEF Present, CurrentAttemptOf, RunStatuses
<1>3. ~Working(y) /\ ~Waiting(y) /\ Begun(y)
  BY <1>1, <1>2 DEF Working, Waiting, Begun
<1>4. Story(y)
  <2>1. Number(y) \in 1 .. MaxAttempts
    BY <1>1 DEF Sound, Story
  <2> QED
    BY <1>1, <2>1 DEF Story
<1>5. Fenced(y)
  <2>1. Fenced(x)
    BY DEF Sound
  <2> QED
    BY <1>1, <1>2, <2>1 DEF Fenced
<1>6. Owned(y)
  BY <1>1 DEF Owned
<1>7. LogGood(y)
  <2>1. x \in Run /\ LogGood(x)
    BY DEF Sound
  <2> QED
    BY <1>1, <1>3, <2>1, PairLogged
<1> QED
  BY <1>1, <1>2, <1>3, <1>4, <1>5, <1>6, <1>7 DEF Sound

(* An operation that ends the work on a Run releases the Node it names.    *)
LEMMA EndSettles ==
  ASSUME NEW x, Sound(x), Present(x), ~terminalRunStatus(x.status),
         NEW y, ~Working(y)
  PROVE  Settles(x, y, x.node)
<1>1. Working(x) \/ Waiting(x)
  BY SoundStatuses
<1>2. /\ Working(x) => x.node \in Nodes
      /\ Waiting(x) => x.node = NoValue /\ ~Working(x)
  BY DEF Sound, Working, Waiting
<1> QED
  BY <1>1, <1>2 DEF Settles, Holder

-----------------------------------------------------------------------------
(* Cancellation.                                                           *)

(* finalizeCancellation ends a cancelling Run and releases its Node.       *)
LEMMA FinalizeRow ==
  ASSUME NEW x, Sound(x), Present(x), x.status \in {"cancelling", "cancelled"}
  PROVE  /\ Row(x, finalizeCancellation(x))
         /\ finalizeCancellation(x).run.status = "cancelled"
         /\ x.status = "cancelling" =>
              Advanced(x, finalizeCancellation(x).run)
<1>1. CASE x.status = "cancelled"
  BY <1>1, KeepRow, EffectParts DEF finalizeCancellation
<1>2. CASE x.status = "cancelling"
  <2> DEFINE y == Written(x, "cancelled", NoValue, "cancelled",
                          "attempt.cancelled", "run.cancelled")
  <2>1. /\ x \in Run /\ Numbered(x) /\ x.outcome = NoValue /\ x.cancelRequested
        /\ ~terminalRunStatus(x.status)
    BY <1>2, SoundFacts DEF Sound, Story, terminalRunStatus
  <2>2. finalizeCancellation(x) = Effect(y, x.node, "ok")
    <3> DEFINE as  == SetAttempt(x, "cancelled")
               log == appendEvents(x, "attempt.cancelled", "run.cancelled")
    <3>1. /\ finalizeCancellation(x) =
               Effect([x EXCEPT !.status = "cancelled", !.attempts = as,
                                !.log = log], x.node, "ok")
          /\ y = [x EXCEPT !.status = "cancelled", !.outcome = NoValue,
                           !.attempts = as, !.log = log]
      BY <1>2 DEF finalizeCancellation, Written
    <3> HIDE DEF as, log, y
    <3>2. [x EXCEPT !.status = "cancelled", !.attempts = as, !.log = log]
          = [x EXCEPT !.status = "cancelled", !.outcome = NoValue,
                      !.attempts = as, !.log = log]
      BY <2>1 DEF Run
    <3> QED
      BY <3>1, <3>2
  <2>3. /\ "cancelled" \in RunStatuses /\ "cancelled" \in AttemptStatuses
        /\ "cancelled" \in CurrentAttemptOf["cancelled"]
        /\ "attempt.cancelled" \in EventTypes
        /\ "attempt.cancelled" \in
             EventTypes \ (Announcing \union {"attempt.started"})
        /\ "run.cancelled" \in Announcing \ {"attempt.queued"}
        /\ "run.cancelled" \in EventTypes
        /\ RunStatusOf["run.cancelled"] = "cancelled"
    BY DEF RunStatuses, AttemptStatuses, CurrentAttemptOf, EventTypes,
           Announcing, RunStatusOf
  <2>4. WrittenAs(x, y, "cancelled", NoValue, "cancelled",
                  "attempt.cancelled", "run.cancelled")
    BY <2>1, <2>3, WrittenFields
  <2> HIDE DEF y
  <2>5. Sound(y)
    BY <2>1, <2>3, <2>4, EndedSound
  <2>6. /\ y.status = "cancelled" /\ y.outcome = x.outcome
        /\ y.token = x.token /\ y.grants = x.grants
        /\ Len(y.attempts) = Len(x.attempts) /\ AttemptStatus(y) = "cancelled"
    BY <2>1, <2>4 DEF WrittenAs, Number
  <2>7. Advanced(x, y)
    BY <1>2, <2>6 DEF Advanced
  <2>8. Settles(x, y, x.node)
    BY <2>1, <2>6, EndSettles DEF Working
  <2> QED
    BY <2>2, <2>5, <2>6, <2>7, <2>8, EffectParts DEF Row, Moves, Changed
<1> QED
  BY <1>1, <1>2

(* The record cancelRunLocked leaves when it leaves the Run to its Node.   *)
Requested(x) ==
  [x EXCEPT !.status          = "cancelling",
            !.cancelRequested = TRUE,
            !.log             = appendEvent(x, "run.cancel_requested")]

(* It is sound whatever the Attempt does.                                  *)
LEMMA RequestedSound ==
  ASSUME NEW x, Sound(x), Present(x), ~terminalRunStatus(x.status),
         ~x.cancelRequested
  PROVE  /\ Sound(Requested(x))
         /\ x.status \in {"queued", "running"}
         /\ Requested(x).status = "cancelling"
         /\ Requested(x).attempts = x.attempts
         /\ Requested(x).node = x.node /\ Requested(x).ttl = x.ttl
         /\ Requested(x).outcome = x.outcome
         /\ Requested(x).token = x.token /\ Requested(x).grants = x.grants
<1> DEFINE y   == Requested(x)
           log == appendEvent(x, "run.cancel_requested")
<1>1. /\ x \in Run /\ x.status \in {"queued", "running"} /\ x.outcome = NoValue
      /\ Story(x)
  BY SoundFacts DEF Sound, Story, terminalRunStatus, RunStatuses
<1>2. log \in Seq([type : EventTypes, attempt : Nat])
  BY <1>1, AppendEventFacts DEF EventTypes, RunStatusOf
<1>3. y = [x EXCEPT !.status = "cancelling", !.cancelRequested = TRUE,
                    !.log = log]
  BY DEF Requested
<1> HIDE DEF log, y
<1>4. /\ y \in Run /\ y.status = "cancelling" /\ y.cancelRequested
      /\ y.log = log /\ y.attempts = x.attempts /\ y.node = x.node
      /\ y.ttl = x.ttl /\ y.outcome = x.outcome /\ y.token = x.token
      /\ y.grants = x.grants
  BY <1>1, <1>2, <1>3 DEF Run, RunStatuses
<1>5. /\ Number(y) = Number(x) /\ AttemptStatus(y) = AttemptStatus(x)
      /\ Present(y)
  BY <1>4 DEF Number, AttemptStatus, Present
<1>6. AttemptStatus(x) \in {"queued", "leased", "running"}
  BY <1>1, SoundStatuses
<1>7. Story(y)
  BY <1>1, <1>4, <1>5, <1>6 DEF Story, CurrentAttemptOf, RunStatuses
<1>8. Fenced(y)
  BY <1>4, <1>5 DEF Sound, Fenced, Present
<1>9. /\ Working(y) => y.node \in Nodes
      /\ Waiting(y) => y.token = 0 /\ y.node = NoValue
      /\ Owned(y)
  BY <1>4, <1>5 DEF Sound, Working, Waiting, Owned
<1>10. LogGood(y)
  <2>1. LogGood(x)
    BY DEF Sound
  <2> QED
    BY <1>1, <1>4, <2>1, CancelLogged DEF log
<1>11. Sound(y)
  BY <1>4, <1>5, <1>7, <1>8, <1>9, <1>10 DEF Sound
<1> QED
  BY <1>1, <1>4, <1>11 DEF y

(* What a cancellation request leaves: the record as it was, or a Run that *)
(* is cancelling and still worked on, or a cancelled one nobody works on.  *)
CancelledOf(x, y) ==
  /\ x.status \in {"queued", "running"}
  /\ y.status \in {"cancelling", "cancelled"}
  /\ y.status = "cancelled" => Waiting(x)
  /\ y.status = "cancelling" => y.attempts = x.attempts
  /\ Len(y.attempts) = Len(x.attempts) /\ y.outcome = x.outcome
  /\ y.token = x.token /\ y.grants = x.grants /\ y.ttl = x.ttl

(* cancelRunLocked.  A queued Attempt belongs to no Node, so no Node is    *)
(* released by it.                                                         *)
LEMMA CancelRow ==
  ASSUME NEW x, Sound(x), Present(x)
  PROVE  LET e == cancelRunLocked(x) IN
         /\ Row(x, e) /\ Present(e.run)
         /\ e.released = NoValue
         /\ e.run = x \/ CancelledOf(x, e.run)
<1> DEFINE e == cancelRunLocked(x)
           q == Requested(x)
<1>1. CASE terminalRunStatus(x.status) \/ x.cancelRequested
  <2>1. e = Keep(x, "ok")
    BY <1>1 DEF cancelRunLocked
  <2> QED
    BY <2>1, KeepRow, EffectParts
<1>2. CASE ~(terminalRunStatus(x.status) \/ x.cancelRequested)
  <2>1. /\ Sound(q) /\ x.status \in {"queued", "running"}
        /\ q.status = "cancelling" /\ q.attempts = x.attempts
        /\ q.node = x.node /\ q.ttl = x.ttl /\ q.outcome = x.outcome
        /\ q.token = x.token /\ q.grants = x.grants
    BY <1>2, RequestedSound
  <2>2. x \in Run
    BY DEF Sound
  <2>3. /\ Present(q) /\ AttemptStatus(q) = AttemptStatus(x)
        /\ Holder(q) = Holder(x)
    BY <2>1 DEF Present, AttemptStatus, Number, Holder, Working
  <2> DEFINE log == appendEvent(x, "run.cancel_requested")
             z   == [x EXCEPT !.cancelRequested = TRUE, !.log = log]
  <2>4. /\ e = IF AttemptStatus(x) = "queued" THEN finalizeCancellation(z)
               ELSE Keep([z EXCEPT !.status = "cancelling"], "ok")
        /\ q = [x EXCEPT !.status = "cancelling", !.cancelRequested = TRUE,
                         !.log = log]
    BY <1>2 DEF cancelRunLocked, Requested
  <2> HIDE DEF q, log
  <2>5. [z EXCEPT !.status = "cancelling"] = q
    BY <2>2, <2>4 DEF Run
  <2>6. CASE AttemptStatus(x) = "queued"
    <3>1. finalizeCancellation(z) = finalizeCancellation(q)
      <4> DEFINE as == SetAttempt(x, "cancelled")
                 l  == Append(Append(log, Event("attempt.cancelled", Number(x))),
                              Event("run.cancelled", Number(x)))
      <4>1. /\ z.status = x.status /\ z.attempts = x.attempts /\ z.log = log
            /\ z.node = x.node /\ q.log = log
        BY <2>2, <2>4 DEF Run
      <4>2. /\ SetAttempt(z, "cancelled") = as /\ SetAttempt(q, "cancelled") = as
            /\ appendEvents(z, "attempt.cancelled", "run.cancelled") = l
            /\ appendEvents(q, "attempt.cancelled", "run.cancelled") = l
        BY <2>1, <4>1 DEF SetAttempt, Number, appendEvents, appendEvent
      <4> HIDE DEF as, l, z
      <4>3. /\ finalizeCancellation(z) =
                 Effect([z EXCEPT !.status = "cancelled", !.attempts = as,
                                  !.log = l], x.node, "ok")
            /\ finalizeCancellation(q) =
                 Effect([q EXCEPT !.status = "cancelled", !.attempts = as,
                                  !.log = l], x.node, "ok")
        BY <2>1, <4>1, <4>2 DEF finalizeCancellation
      <4>4. [z EXCEPT !.status = "cancelled", !.attempts = as, !.log = l]
            = [q EXCEPT !.status = "cancelled", !.attempts = as, !.log = l]
        BY <2>2, <2>5 DEF Run, z
      <4> QED
        BY <4>3, <4>4
    <3>2. /\ e = finalizeCancellation(q) /\ Row(q, e)
          /\ e.run.status = "cancelled" /\ Advanced(q, e.run)
      <4>1. e = finalizeCancellation(q)
        BY <2>4, <2>6, <3>1
      <4>2. /\ Row(q, finalizeCancellation(q))
            /\ finalizeCancellation(q).run.status = "cancelled"
            /\ Advanced(q, finalizeCancellation(q).run)
        BY <2>1, <2>3, FinalizeRow
      <4> HIDE DEF e
      <4> QED
        BY <4>1, <4>2
    <3>3. Waiting(x) /\ x.node = NoValue
      BY <2>6 DEF Waiting, Sound
    <3>4. e.released = NoValue
      BY <2>1, <3>2, <3>3, EffectParts DEF finalizeCancellation
    <3>5. e.run.ttl = x.ttl
      <4> DEFINE as == SetAttempt(q, "cancelled")
                 l  == appendEvents(q, "attempt.cancelled", "run.cancelled")
      <4>1. e.run = [q EXCEPT !.status = "cancelled", !.attempts = as,
                              !.log = l]
        BY <2>1, <3>2, EffectParts DEF finalizeCancellation
      <4>2. q \in Run
        BY <2>1 DEF Sound
      <4> HIDE DEF as, l
      <4> QED
        BY <2>1, <4>1, <4>2 DEF Run
    <3> HIDE DEF e
    <3>6. /\ CancelledOf(x, e.run) /\ Advanced(x, e.run)
      BY <2>1, <3>2, <3>3, <3>5 DEF CancelledOf, Advanced
    <3>7. Settles(x, e.run, NoValue)
      BY <2>3, <3>2, <3>4, ConstantsAssumption DEF Row, Settles
    <3> QED
      BY <3>2, <3>4, <3>6, <3>7
         DEF Row, Moves, Changed, Present, CancelledOf, e
  <2>7. CASE AttemptStatus(x) # "queued"
    <3>1. e = Keep(q, "ok")
      BY <2>4, <2>5, <2>7
    <3>2. CancelledOf(x, q) /\ Advanced(x, q)
      BY <2>1 DEF CancelledOf, Advanced
    <3> QED
      BY <2>1, <2>3, <3>1, <3>2, EffectParts
         DEF Row, Moves, Changed, Settles
  <2> QED
    BY <2>6, <2>7
<1> QED
  BY <1>1, <1>2

-----------------------------------------------------------------------------
(* Leases.                                                                 *)

(* requeueExpired gives an unstarted lease back, and releases its Node.    *)
LEMMA RequeueRow ==
  ASSUME NEW x, Sound(x), Present(x)
  PROVE  Row(x, requeueExpired(x))
<1>1. CASE ~Unstarted(x)
  BY <1>1, KeepRow DEF requeueExpired
<1>2. CASE Unstarted(x)
  <2> DEFINE as  == SetAttempt(x, "queued")
             log == appendEvent(x, "attempt.lease_expired")
             y   == [x EXCEPT !.attempts = as, !.node = NoValue, !.token = 0,
                              !.ttl = 0, !.log = log]
  <2>1. requeueExpired(x) = Effect(y, x.node, "invalid_lease")
    BY <1>2 DEF requeueExpired
  <2>2. /\ x \in Run /\ Numbered(x) /\ x.status \in {"queued", "cancelling"}
        /\ AttemptStatus(x) = "leased" /\ x.ttl = 0 /\ Working(x)
        /\ x.node \in Nodes /\ ~terminalRunStatus(x.status)
    BY <1>2, SoundFacts, SoundStatuses
       DEF Unstarted, Working, Sound, terminalRunStatus
  <2>3. /\ as \in Seq(AttemptStatuses) /\ Len(as) = Number(x)
        /\ as[Number(x)] = "queued"
        /\ \A i \in 1 .. Number(x) - 1 : as[i] = "lost"
    BY <2>2, SetCurrentAttempt DEF AttemptStatuses
  <2>4. log \in Seq([type : EventTypes, attempt : Nat])
    BY <2>2, AppendEventFacts DEF EventTypes
  <2> HIDE DEF as, log
  <2>5. /\ y \in Run /\ y.attempts = as /\ y.node = NoValue /\ y.token = 0
        /\ y.ttl = 0 /\ y.log = log /\ y.status = x.status
        /\ y.outcome = x.outcome /\ y.grants = x.grants
        /\ y.cancelRequested = x.cancelRequested
    BY <2>2, <2>3, <2>4 DEF Run
  <2> HIDE DEF y
  <2>6. /\ Number(y) = Number(x) /\ AttemptStatus(y) = "queued"
        /\ Present(y) /\ ~Working(y) /\ Waiting(y)
    BY <2>3, <2>5 DEF Number, AttemptStatus, Present, Working, Waiting
  <2>7. Story(y)
    <3>1. /\ "queued" \in CurrentAttemptOf["queued"]
          /\ \A i \in 1 .. Number(y) - 1 : y.attempts[i] = "lost"
      BY <2>3, <2>5, <2>6 DEF CurrentAttemptOf, RunStatuses
    <3> QED
      BY <2>2, <2>5, <2>6, <3>1 DEF Story, Sound
  <2>8. Fenced(y) /\ Owned(y)
    BY <2>2, <2>5, <2>6 DEF Fenced, Owned
  <2>9. LogGood(y)
    <3>1. Begun(y) = Begun(x)
      BY <2>2, <2>6 DEF Begun
    <3>2. LogGood(x)
      BY DEF Sound
    <3> QED
      BY <2>2, <2>5, <2>6, <3>1, <3>2, LeaseLogged DEF log
  <2>10. Sound(y)
    BY <2>5, <2>6, <2>7, <2>8, <2>9 DEF Sound
  <2>11. Returned(x, y)
    BY <2>2, <2>5, <2>6 DEF Returned, Number
  <2>12. Settles(x, y, x.node)
    BY <2>2, <2>6, EndSettles
  <2> QED
    BY <2>1, <2>10, <2>11, <2>12, EffectParts DEF Row, Moves
<1> QED
  BY <1>1, <1>2

(* Clocks and flags: a record that differs in nothing else stays sound and *)
(* keeps its holder.                                                       *)
LEMMA ClockRow ==
  ASSUME NEW x, Sound(x), Present(x), NEW y \in Run,
         y.status = x.status, y.attempts = x.attempts,
         y.cancelRequested = x.cancelRequested, y.outcome = x.outcome,
         y.token = x.token, y.grants = x.grants, y.node = x.node,
         y.log = x.log, x.ttl = 0 => y.ttl = 0
  PROVE  Sound(y) /\ Changed(x, y) /\ Holder(y) = Holder(x)
<1>1. /\ Number(y) = Number(x) /\ AttemptStatus(y) = AttemptStatus(x)
      /\ Present(y) /\ Working(y) = Working(x) /\ Waiting(y) = Waiting(x)
      /\ Begun(y) = Begun(x)
  BY DEF Number, AttemptStatus, Present, Working, Waiting, Begun
<1>2. Story(y)
  BY <1>1 DEF Sound, Story
<1>3. Fenced(y)
  BY <1>1 DEF Sound, Fenced
<1>4. Owned(y) /\ LogGood(y)
  BY <1>1 DEF Sound, Owned, LogGood
<1>5. Sound(y)
  BY <1>1, <1>2, <1>3, <1>4 DEF Sound
<1>6. Changed(x, y)
  BY DEF Changed, Kept
<1> QED
  BY <1>1, <1>5, <1>6 DEF Holder

(* A lease that has not expired is renewed, or runs down.                  *)
LEMMA TtlRow ==
  ASSUME NEW x, Sound(x), Present(x), x.ttl > 0, NEW t \in Nat
  PROVE  LET y == [x EXCEPT !.ttl = t] IN
         Sound(y) /\ Changed(x, y) /\ Holder(y) = Holder(x)
<1> DEFINE y == [x EXCEPT !.ttl = t]
<1>1. x \in Run /\ x.ttl # 0
  BY SoundFacts
<1>2. /\ y \in Run /\ y.status = x.status /\ y.attempts = x.attempts
      /\ y.cancelRequested = x.cancelRequested /\ y.outcome = x.outcome
      /\ y.token = x.token /\ y.grants = x.grants /\ y.node = x.node
      /\ y.log = x.log
  BY <1>1 DEF Run
<1> HIDE DEF y
<1>3. Sound(y) /\ Changed(x, y) /\ Holder(y) = Holder(x)
  BY <1>1, <1>2, ClockRow
<1> QED
  BY <1>3 DEF y

(* Claim leases a queued Attempt to the Node.                              *)
LEMMA LeasedSound ==
  ASSUME NEW x, Sound(x), x.status = "queued", Waiting(x), NEW n \in Nodes
  PROVE  LET y == leased(x, n) IN
         /\ Sound(y) /\ Holder(y) = n /\ Granted(x, y)
         /\ y.status = "queued" /\ y.outcome = x.outcome
<1> DEFINE y   == leased(x, n)
           as  == SetAttempt(x, "leased")
           t   == Len(x.grants) + 1
           gs  == Append(x.grants, Number(x))
           log == appendEvent(x, "attempt.leased")
<1>1. /\ x \in Run /\ Numbered(x) /\ Present(x) /\ Number(x) \in Nat
      /\ x.grants \in Seq(Nat) /\ Len(x.grants) \in Nat
      /\ ~terminalRunStatus(x.status) /\ AttemptStatus(x) = "queued"
      /\ x.token = 0 /\ ~x.cancelRequested /\ x.outcome = NoValue
  BY SoundFacts DEF Waiting, terminalRunStatus, Sound, Story
<1>2. /\ as \in Seq(AttemptStatuses) /\ Len(as) = Number(x)
      /\ as[Number(x)] = "leased"
      /\ \A i \in 1 .. Number(x) - 1 : as[i] = "lost"
  BY <1>1, SetCurrentAttempt DEF AttemptStatuses
<1>3. log \in Seq([type : EventTypes, attempt : Nat])
  BY <1>1, AppendEventFacts DEF EventTypes
<1>4. gs \in Seq(Nat) /\ Len(gs) = t /\ gs[t] = Number(x) /\ t \in Nat
  BY <1>1, AppendProperties
<1>5. y = [x EXCEPT !.attempts = as, !.node = n, !.token = t,
                    !.ttl = LeaseTTL, !.grants = gs, !.log = log]
  BY DEF leased
<1>6. LeaseTTL \in Nat /\ t > 0 /\ t = Len(x.grants) + 1
  BY <1>1, ConstantsAssumption
<1> HIDE DEF y, as, t, gs, log
<1>7. /\ y \in Run /\ y.attempts = as /\ y.node = n /\ y.token = t
      /\ y.grants = gs /\ y.log = log /\ y.status = "queued"
      /\ y.outcome = x.outcome /\ ~y.cancelRequested
  BY <1>1, <1>2, <1>3, <1>4, <1>5, <1>6 DEF Run
<1>8. /\ Number(y) = Number(x) /\ AttemptStatus(y) = "leased"
      /\ Present(y) /\ Working(y) /\ ~Waiting(y)
  BY <1>2, <1>7 DEF Number, AttemptStatus, Present, Working, Waiting
<1>9. Story(y)
  <2>1. /\ "leased" \in CurrentAttemptOf["queued"]
        /\ \A i \in 1 .. Number(y) - 1 : y.attempts[i] = "lost"
    BY <1>2, <1>7, <1>8 DEF CurrentAttemptOf, RunStatuses
  <2> QED
    BY <1>1, <1>7, <1>8, <2>1 DEF Story, Sound
<1>10. Fenced(y) /\ Owned(y)
  BY <1>4, <1>6, <1>7, <1>8 DEF Fenced, Owned
<1>11. LogGood(y)
  <2>1. Begun(y) = Begun(x) /\ LogGood(x)
    BY <1>1, <1>8 DEF Begun, Sound
  <2> QED
    BY <1>1, <1>7, <1>8, <2>1, LeaseLogged DEF log
<1>12. Sound(y)
  BY <1>7, <1>8, <1>9, <1>10, <1>11 DEF Sound
<1>13. Granted(x, y)
  BY <1>1, <1>4, <1>6, <1>7, <1>8 DEF Granted, Number
<1> QED
  BY <1>7, <1>8, <1>12, <1>13 DEF Holder, y

-----------------------------------------------------------------------------
(* The calls of a Node.                                                    *)

(* A token that was granted belongs to a Run that exists.                  *)
LEMMA GrantedPresent ==
  ASSUME NEW x, Sound(x), NEW k \in DOMAIN x.grants
  PROVE  /\ Present(x) /\ k \in Nat /\ k > 0
         /\ Holds(x, k) => x.token = k /\ x.token > 0
<1>1. AbsentRun.grants = <<>>
  BY DEF AbsentRun
<1>2. Present(x)
  BY <1>1 DEF Sound
<1>3. k \in Nat /\ k > 0
  BY <1>2, SoundFacts
<1> QED
  BY <1>2, <1>3 DEF Holds

(* authorize, which may give the lease back.                               *)
LEMMA AuthorizeRow ==
  ASSUME NEW x, Sound(x), Present(x), NEW k, NEW effect,
         Holds(x, k) /\ x.ttl > 0 => Row(x, effect)
  PROVE  Row(x, authorize(x, k, effect))
<1>1. x.ttl \in Nat
  BY SoundFacts
<1>2. CASE ~Holds(x, k)
  BY <1>2, KeepRow DEF authorize
<1>3. CASE Holds(x, k) /\ x.ttl = 0
  BY <1>3, RequeueRow DEF authorize
<1>4. CASE Holds(x, k) /\ x.ttl # 0
  <2>1. x.ttl > 0
    BY <1>1, <1>4
  <2> QED
    BY <1>4, <2>1 DEF authorize
<1> QED
  BY <1>2, <1>3, <1>4

(* A report that ends the Run, or the loss of its last Attempt.            *)
LEMMA EndRow ==
  ASSUME NEW x, Sound(x), Present(x), x.status \in {"queued", "running"},
         NEW s \in {"succeeded", "failed"}, NEW o,
         NEW a \in CurrentAttemptOf[s],
         NEW first \in EventTypes \ (Announcing \union {"attempt.started"}),
         NEW second \in Announcing \ {"attempt.queued"},
         RunStatusOf[second] = s,
         \/ s = "succeeded" /\ x.status = "running" /\ o \in Results /\ x.token > 0
         \/ s = "failed" /\ o \in Causes /\ x.token > 0
         \/ /\ s = "failed" /\ x.status = "running" /\ o = LeaseExpired
            /\ a = "lost" /\ Number(x) = MaxAttempts
  PROVE  Row(x, Effect(Written(x, s, o, a, first, second), x.node, "ok"))
<1> DEFINE y == Written(x, s, o, a, first, second)
<1>1. /\ Numbered(x) /\ ~terminalRunStatus(x.status) /\ ~x.cancelRequested
  BY SoundFacts DEF Sound, Story, terminalRunStatus
<1>2. /\ o \in Outcomes \union {NoValue} /\ o # NoValue
  BY ConstantsAssumption DEF Outcomes
<1>3. /\ s \in RunStatuses /\ a \in AttemptStatuses /\ first \in EventTypes
      /\ second \in EventTypes /\ a \notin {"leased", "running"}
  BY DEF RunStatuses, AttemptStatuses, CurrentAttemptOf, EventTypes, Announcing
<1>4. WrittenAs(x, y, s, o, a, first, second)
  BY <1>1, <1>2, <1>3, WrittenFields
<1> HIDE DEF y
<1>5. Sound(y)
  BY <1>1, <1>2, <1>4, EndedSound
<1>6. /\ y.status = s /\ y.outcome = o
      /\ y.token = x.token /\ y.grants = x.grants
      /\ Len(y.attempts) = Len(x.attempts) /\ AttemptStatus(y) = a
  BY <1>4 DEF WrittenAs, Number
<1>7. Advanced(x, y)
  BY <1>6 DEF Advanced
<1>8. Settles(x, y, x.node)
  BY <1>1, <1>3, <1>6, EndSettles DEF Working
<1> QED
  BY <1>5, <1>7, <1>8, EffectParts DEF Row, Moves, Changed, y

(* A leased Attempt of a queued Run starts.                                *)
LEMMA StartedRow ==
  ASSUME NEW x, Sound(x), Present(x), x.status = "queued",
         AttemptStatus(x) = "leased", NEW reply
  PROVE  Row(x, Keep([x EXCEPT
                        !.status   = "running",
                        !.attempts = SetAttempt(x, "running"),
                        !.log = appendEvents(x, "attempt.started",
                                                "run.started")], reply))
<1> DEFINE y == Written(x, "running", NoValue, "running",
                        "attempt.started", "run.started")
           v == [x EXCEPT !.status   = "running",
                          !.attempts = SetAttempt(x, "running"),
                          !.log = appendEvents(x, "attempt.started",
                                                  "run.started")]
<1>1. /\ x \in Run /\ Numbered(x) /\ x.outcome = NoValue /\ ~x.cancelRequested
      /\ ~terminalRunStatus(x.status) /\ Working(x) /\ x.node \in Nodes
      /\ ~Begun(x) /\ LogGood(x) /\ Fenced(x) /\ Story(x)
  BY SoundFacts DEF Sound, Story, terminalRunStatus, Working, Begun
<1>2. v = y
  <2> DEFINE as  == SetAttempt(x, "running")
             log == appendEvents(x, "attempt.started", "run.started")
  <2>1. /\ v = [x EXCEPT !.status = "running", !.attempts = as, !.log = log]
        /\ y = [x EXCEPT !.status = "running", !.outcome = NoValue,
                         !.attempts = as, !.log = log]
    BY DEF Written
  <2> HIDE DEF as, log, v, y
  <2> QED
    BY <1>1, <2>1 DEF Run
<1>3. /\ "running" \in RunStatuses /\ "running" \in AttemptStatuses
      /\ "running" \in CurrentAttemptOf["running"]
      /\ "attempt.started" \in EventTypes /\ "run.started" \in EventTypes
  BY DEF RunStatuses, AttemptStatuses, CurrentAttemptOf, EventTypes, RunStatusOf
<1>4. WrittenAs(x, y, "running", NoValue, "running", "attempt.started",
                "run.started")
  BY <1>1, <1>3, WrittenFields
<1> HIDE DEF y, v
<1>5. /\ y \in Run /\ y.status = "running" /\ y.outcome = x.outcome
      /\ y.token = x.token /\ y.ttl = x.ttl /\ y.grants = x.grants
      /\ ~y.cancelRequested /\ y.node = x.node
      /\ Number(y) = Number(x) /\ AttemptStatus(y) = "running"
      /\ \A i \in 1 .. Number(y) - 1 : y.attempts[i] = "lost"
      /\ y.log = appendEvents(x, "attempt.started", "run.started")
      /\ Len(y.attempts) = Len(x.attempts)
  BY <1>1, <1>4 DEF WrittenAs, Number
<1>6. Present(y) /\ Working(y) /\ ~Waiting(y) /\ Begun(y)
  BY <1>5 DEF Present, Working, Waiting, Begun
<1>7. Story(y)
  BY <1>1, <1>3, <1>5 DEF Story
<1>8. Fenced(y) /\ Owned(y)
  BY <1>1, <1>5, <1>6 DEF Fenced, Owned, Present
<1>9. LogGood(y)
  BY <1>1, <1>5, <1>6, StartLogged
<1>10. Sound(y)
  BY <1>1, <1>5, <1>6, <1>7, <1>8, <1>9 DEF Sound
<1>11. Advanced(x, y)
  BY <1>5 DEF Advanced
<1>12. Holder(y) = Holder(x)
  BY <1>1, <1>5, <1>6 DEF Holder
<1> QED
  BY <1>2, <1>10, <1>11, <1>12, EffectParts
     DEF Row, Moves, Changed, Settles, v

(* Every call of a Node that presents a token of the Run.                  *)
LEMMA NodeCallRow ==
  ASSUME NEW x, Sound(x), NEW k \in DOMAIN x.grants
  PROVE  /\ Row(x, renew(x, k)) /\ Row(x, acknowledge(x, k))
         /\ Row(x, start(x, k)) /\ Row(x, record(x, k))
         /\ \A v \in Results : Row(x, complete(x, k, v))
         /\ \A v \in Causes : Row(x, fail(x, k, v))
<1>1. /\ Present(x) /\ x.ttl \in Nat
      /\ Holds(x, k) => x.token > 0
  BY GrantedPresent, SoundFacts
<1>2. \A reply : Row(x, Keep(x, reply))
  BY KeepRow
<1>3. Row(x, renew(x, k))
  <2> DEFINE e == IF AttemptStatus(x) \in {"leased", "running"}
                  THEN Keep([x EXCEPT !.ttl = LeaseTTL], "ok")
                  ELSE Keep(x, "invalid_transition")
  <2>1. ASSUME x.ttl > 0 PROVE Row(x, e)
    <3> DEFINE y == [x EXCEPT !.ttl = LeaseTTL]
    <3>1. Sound(y) /\ Changed(x, y) /\ Holder(y) = Holder(x)
      BY <1>1, <2>1, TtlRow, ConstantsAssumption
    <3> HIDE DEF y
    <3>2. Row(x, Keep(y, "ok"))
      BY <3>1, EffectParts DEF Row, Moves, Settles
    <3> QED
      BY <1>2, <3>2 DEF y
  <2> HIDE DEF e
  <2>2. Row(x, authorize(x, k, e))
    BY <1>1, <2>1, AuthorizeRow
  <2> QED
    BY <2>2 DEF renew, e
<1>4. x.status = "cancelling" => Row(x, finalizeCancellation(x))
                                 /\ Row(x, Cancels(x))
  <2>1. SUFFICES ASSUME x.status = "cancelling"
                 PROVE  Row(x, finalizeCancellation(x)) /\ Row(x, Cancels(x))
    OBVIOUS
  <2>2. Row(x, finalizeCancellation(x))
    BY <1>1, <2>1, FinalizeRow
  <2>3. /\ Cancels(x).run = finalizeCancellation(x).run
        /\ Cancels(x).released = finalizeCancellation(x).released
    BY <2>1 DEF Cancels, finalizeCancellation, Effect
  <2> QED
    BY <2>2, <2>3 DEF Row
<1>5. Row(x, acknowledge(x, k))
  <2> DEFINE e == IF x.status = "cancelled" THEN Keep(x, "ok")
                  ELSE IF x.status # "cancelling"
                       THEN Keep(x, "invalid_transition")
                  ELSE finalizeCancellation(x)
  <2>1. Row(x, e)
    BY <1>2, <1>4
  <2> HIDE DEF e
  <2>2. Row(x, authorize(x, k, e))
    BY <1>1, <2>1, AuthorizeRow
  <2> QED
    BY <2>2 DEF acknowledge, e
<1>6. Row(x, start(x, k))
  <2> DEFINE s == Keep([x EXCEPT
                          !.status   = "running",
                          !.attempts = SetAttempt(x, "running"),
                          !.log = appendEvents(x, "attempt.started",
                                                  "run.started")], "ok")
             e == IF AttemptStatus(x) # "leased"
                  THEN Keep(x, "invalid_transition")
                  ELSE IF x.status = "cancelling" THEN Cancels(x)
                  ELSE s
  <2>1. AttemptStatus(x) = "leased" /\ x.status # "cancelling" => Row(x, s)
    BY <1>1, StartedRow, SoundStatuses
  <2> HIDE DEF s
  <2>2. Row(x, e)
    BY <1>2, <1>4, <2>1
  <2> HIDE DEF e
  <2>3. Row(x, authorize(x, k, e))
    BY <1>1, <2>2, AuthorizeRow
  <2> QED
    BY <2>3 DEF start, e, s
<1>7. Row(x, record(x, k))
  BY <1>1, <1>2, AuthorizeRow DEF record
<1>8. /\ "attempt.succeeded" \in
            EventTypes \ (Announcing \union {"attempt.started"})
      /\ "attempt.failed" \in
            EventTypes \ (Announcing \union {"attempt.started"})
      /\ "run.succeeded" \in Announcing \ {"attempt.queued"}
      /\ "run.failed" \in Announcing \ {"attempt.queued"}
      /\ RunStatusOf["run.succeeded"] = "succeeded"
      /\ RunStatusOf["run.failed"] = "failed"
      /\ "succeeded" \in CurrentAttemptOf["succeeded"]
      /\ "failed" \in CurrentAttemptOf["failed"]
  BY DEF EventTypes, Announcing, RunStatusOf, CurrentAttemptOf, RunStatuses
<1>9. ASSUME NEW v \in Results PROVE Row(x, complete(x, k, v))
  <2> DEFINE e == Effect(Written(x, "succeeded", v, "succeeded",
                                 "attempt.succeeded", "run.succeeded"),
                         x.node, "ok")
  <2>1. ASSUME Holds(x, k), AttemptStatus(x) = "running",
               x.status # "cancelling"
        PROVE  Row(x, e)
    <3>1. x.status = "running" /\ x.token > 0
      BY <1>1, <2>1, SoundStatuses
    <3> QED
      BY <1>1, <1>8, <3>1, EndRow
  <2> HIDE DEF e
  <2>2. \/ \E reply : complete(x, k, v) = Keep(x, reply)
        \/ /\ Holds(x, k) /\ AttemptStatus(x) = "running"
           /\ x.status # "cancelling" /\ complete(x, k, v) = e
    BY DEF complete, e, Written
  <2> QED
    BY <1>2, <2>1, <2>2
<1>10. ASSUME NEW v \in Causes PROVE Row(x, fail(x, k, v))
  <2> DEFINE e == Effect(Written(x, "failed", v, "failed",
                                 "attempt.failed", "run.failed"),
                         x.node, "ok")
  <2>1. ASSUME Holds(x, k), AttemptStatus(x) \in {"running", "leased"},
               x.status # "cancelling"
        PROVE  Row(x, e)
    <3>1. x.status \in {"queued", "running"} /\ x.token > 0
      BY <1>1, <2>1, SoundStatuses
    <3> QED
      BY <1>1, <1>8, <3>1, EndRow
  <2> HIDE DEF e
  <2>2. \/ \E reply : fail(x, k, v) = Keep(x, reply)
        \/ x.status = "cancelling" /\ fail(x, k, v) = Cancels(x)
        \/ /\ Holds(x, k) /\ AttemptStatus(x) \in {"running", "leased"}
           /\ x.status # "cancelling" /\ fail(x, k, v) = e
    BY DEF fail, e, Written
  <2> QED
    BY <1>2, <1>4, <2>1, <2>2
<1> QED
  BY <1>3, <1>5, <1>6, <1>7, <1>9, <1>10

-----------------------------------------------------------------------------
(* Claim and Reconcile.                                                    *)

(* A Run that is asked to cancel and whose lease has expired is cancelled  *)
(* in the same call.                                                       *)
LEMMA CancelThenFinalize ==
  ASSUME NEW x, Sound(x), Present(x), NEW z, Sound(z), Present(z),
         Settles(x, z, NoValue), z = x \/ CancelledOf(x, z),
         z.status = "cancelling"
  PROVE  Row(x, finalizeCancellation(z))
<1> DEFINE e == finalizeCancellation(z)
<1>1. Row(z, e) /\ e.run.status = "cancelled" /\ Advanced(z, e.run)
  BY FinalizeRow
<1> HIDE DEF e
<1>2. Advanced(x, e.run)
  BY <1>1 DEF Advanced, CancelledOf
<1>3. Holder(z) = Holder(x)
  BY ConstantsAssumption DEF Settles
<1>4. Settles(x, e.run, e.released)
  BY <1>1, <1>3 DEF Row, Settles
<1> QED
  BY <1>1, <1>2, <1>4 DEF Row, Moves, Changed, e

(* What Claim does to a Run before it looks for one.  A Run it leaves in   *)
(* the queue was there, or its lease is given back.                        *)
LEMMA SweptRow ==
  ASSUME NEW x, Sound(x)
  PROVE  LET e == swept(x) IN
         /\ Row(x, e)
         /\ e.run.status = "queued" => e.run = x \/ Returned(x, e.run)
<1> DEFINE e   == swept(x)
           due == IF x.deadline = "passed" /\ ~x.cancelRequested
                  THEN cancelRunLocked(x) ELSE Keep(x, "ok")
           y   == due.run
<1>1. CASE ~Present(x)
  <2>1. e = Keep(x, "ok")
    BY <1>1 DEF swept, Present
  <2> QED
    BY <2>1, KeepRow, EffectParts
<1>2. CASE Present(x)
  <2>1. /\ Row(x, due) /\ Present(y) /\ due.released = NoValue
        /\ y = x \/ CancelledOf(x, y)
    BY <1>2, CancelRow, KeepRow, EffectParts
  <2>2. Sound(y) /\ Settles(x, y, NoValue)
    BY <2>1 DEF Row
  <2>3. e = IF /\ y.status = "cancelling"
               /\ AttemptStatus(y) \in {"leased", "running"}
               /\ y.ttl = 0
            THEN finalizeCancellation(y)
            ELSE IF Unstarted(y) THEN requeueExpired(y)
            ELSE due
    BY <1>2 DEF swept, Present
  <2> HIDE DEF e, due
  <2>4. CASE /\ y.status = "cancelling"
             /\ AttemptStatus(y) \in {"leased", "running"}
             /\ y.ttl = 0
    <3>1. e = finalizeCancellation(y)
      BY <2>3, <2>4
    <3>2. e.run.status = "cancelled"
      BY <2>1, <2>2, <2>4, <3>1, FinalizeRow
    <3> QED
      BY <1>2, <2>1, <2>2, <2>4, <3>1, <3>2, CancelThenFinalize DEF e
  <2>5. CASE /\ ~(/\ y.status = "cancelling"
                  /\ AttemptStatus(y) \in {"leased", "running"}
                  /\ y.ttl = 0)
             /\ Unstarted(y)
    <3>1. e = requeueExpired(y)
      BY <2>3, <2>5
    <3>2. y.status = "queued"
      BY <2>1, <2>2, <2>5, SoundStatuses DEF Unstarted
    <3>3. y = x
      BY <2>1, <3>2 DEF CancelledOf
    <3>4. Row(x, e)
      BY <1>2, <3>1, <3>3, RequeueRow
    <3>5. Returned(x, e.run)
      <4> DEFINE as  == SetAttempt(x, "queued")
                 log == appendEvent(x, "attempt.lease_expired")
                 v   == [x EXCEPT !.attempts = as, !.node = NoValue,
                                  !.token = 0, !.ttl = 0, !.log = log]
      <4>1. e.run = v
        BY <2>5, <3>1, <3>3, EffectParts DEF requeueExpired
      <4>2. /\ x \in Run /\ Len(as) = Number(x) /\ as[Number(x)] = "queued"
        BY <1>2, SoundFacts, SetCurrentAttempt DEF AttemptStatuses
      <4> HIDE DEF as, log
      <4>3. /\ v.status = x.status /\ v.outcome = x.outcome
            /\ v.attempts = as /\ v.token = 0 /\ v.grants = x.grants
        BY <4>2 DEF Run
      <4> HIDE DEF v
      <4> QED
        BY <2>5, <3>2, <3>3, <4>1, <4>2, <4>3
           DEF Returned, Unstarted, AttemptStatus, Number
    <3> QED
      BY <3>4, <3>5 DEF e
  <2>6. CASE /\ ~(/\ y.status = "cancelling"
                  /\ AttemptStatus(y) \in {"leased", "running"}
                  /\ y.ttl = 0)
             /\ ~Unstarted(y)
    <3>1. e = due
      BY <2>3, <2>6
    <3> QED
      BY <2>1, <3>1 DEF CancelledOf, e
  <2> QED
    BY <2>4, <2>5, <2>6
<1> QED
  BY <1>1, <1>2

(* The Run Claim takes, with what it did to it before.                     *)
LEMMA ClaimedRow ==
  ASSUME NEW x, Sound(x), NEW n \in Nodes, claimable(swept(x).run)
  PROVE  LET z == swept(x).run
             y == leased(z, n)
         IN  Sound(y) /\ Moves(x, y) /\ Holder(y) = n /\ Holder(z) = NoValue
<1> DEFINE z == swept(x).run
           y == leased(z, n)
<1>1. /\ Sound(z) /\ z.status = "queued" /\ AttemptStatus(z) = "queued"
      /\ z = x \/ Returned(x, z)
  BY SweptRow DEF claimable, Row
<1>2. Waiting(z) /\ Holder(z) = NoValue
  BY <1>1 DEF Waiting, Present, Holder, Working
<1>3. Sound(y) /\ Holder(y) = n /\ Granted(z, y)
  BY <1>1, <1>2, LeasedSound
<1> HIDE DEF z, y
<1>4. Granted(x, y)
  BY <1>1, <1>3 DEF Granted, Returned
<1> QED
  BY <1>2, <1>3, <1>4 DEF Moves, Changed, y, z

(* The Attempt of a running Run is lost and another one is allowed.        *)
LEMMA RetriedRow ==
  ASSUME NEW x, Sound(x), Present(x), x.status = "running", x.ttl = 0,
         Number(x) < MaxAttempts
  PROVE  Row(x, Effect(retried(x), x.node, "ok"))
<1> DEFINE l   == SetAttempt(x, "lost")
           as  == Append(l, "queued")
           log == Append(appendEvent(x, "attempt.lost"),
                         Event("attempt.queued", Number(x) + 1))
           y   == retried(x)
<1>1. /\ x \in Run /\ Numbered(x) /\ Number(x) \in Nat
      /\ ~x.cancelRequested /\ x.outcome = NoValue
      /\ AttemptStatus(x) = "running" /\ Working(x)
      /\ ~terminalRunStatus(x.status) /\ LogGood(x)
  BY SoundFacts, SoundStatuses DEF Sound, Story, Working, terminalRunStatus
<1>2. /\ l \in Seq(AttemptStatuses) /\ Len(l) = Number(x)
      /\ l[Number(x)] = "lost" /\ \A i \in 1 .. Number(x) - 1 : l[i] = "lost"
  BY <1>1, SetCurrentAttempt DEF AttemptStatuses
<1> HIDE DEF l
<1>3. /\ as \in Seq(AttemptStatuses) /\ Len(as) = Number(x) + 1
      /\ \A i \in 1 .. Number(x) : as[i] = l[i]
      /\ as[Number(x) + 1] = "queued"
  BY <1>2, AppendProperties DEF AttemptStatuses
<1>4. log \in Seq([type : EventTypes, attempt : Nat])
  BY <1>1, AppendEventFacts DEF EventTypes, RunStatusOf
<1>5. y = [x EXCEPT !.status = "queued", !.attempts = as, !.available = FALSE,
                    !.node = NoValue, !.token = 0, !.ttl = 0, !.log = log]
  BY DEF retried, l
<1> HIDE DEF as, log, y
<1>6. /\ y \in Run /\ y.status = "queued" /\ y.attempts = as
      /\ y.node = NoValue /\ y.token = 0 /\ y.ttl = 0 /\ y.log = log
      /\ ~y.cancelRequested /\ y.outcome = x.outcome /\ y.grants = x.grants
  BY <1>1, <1>3, <1>4, <1>5 DEF Run, RunStatuses
<1>7. /\ Number(y) = Number(x) + 1 /\ AttemptStatus(y) = "queued"
      /\ Present(y) /\ ~Working(y) /\ Waiting(y) /\ ~Begun(y)
  BY <1>3, <1>6 DEF Number, AttemptStatus, Present, Working, Waiting, Begun
<1>8. as[Number(x)] = "lost" /\ \A i \in 1 .. Number(x) : as[i] = "lost"
  <2>1. /\ Number(x) \in 1 .. Number(x)
        /\ \A i \in 1 .. Number(x) : i \in 1 .. Number(x) - 1 \/ i = Number(x)
    BY <1>1 DEF Numbered
  <2> QED
    BY <1>2, <1>3, <2>1
<1>9. Story(y)
  <2>1. Number(y) \in 1 .. MaxAttempts /\ Number(y) - 1 = Number(x)
    BY <1>1, <1>7, ConstantsAssumption
  <2>2. "queued" \in CurrentAttemptOf["queued"]
    BY DEF CurrentAttemptOf, RunStatuses
  <2> QED
    BY <1>1, <1>6, <1>7, <1>8, <2>1, <2>2 DEF Story
<1>10. Fenced(y) /\ Owned(y)
  BY <1>6, <1>7 DEF Fenced, Owned
<1>11. LogGood(y)
  BY <1>1, <1>6, <1>7, RetryLogged DEF log
<1>12. Sound(y)
  BY <1>6, <1>7, <1>9, <1>10, <1>11 DEF Sound
<1>13. Repeated(x, y)
  BY <1>1, <1>3, <1>6, <1>7, <1>8 DEF Repeated, Number
<1>14. Settles(x, y, x.node)
  BY <1>1, <1>7, EndSettles
<1> QED
  BY <1>12, <1>13, <1>14, EffectParts DEF Row, Moves, Changed, y

(* An expired Run is cancelled, retried or given up.                       *)
LEMMA RecoveredRow ==
  ASSUME NEW x, Sound(x), Present(x), Expired(x)
  PROVE  Row(x, recovered(x))
<1>1. CASE x.status = "cancelling"
  BY <1>1, FinalizeRow DEF recovered
<1>2. CASE x.status = "running"
  <2>1. recovered(x) = Effect(lost(x), x.node, "ok") /\ x.ttl = 0
    BY <1>2 DEF recovered, Expired
  <2>2. Number(x) \in 1 .. MaxAttempts
    BY DEF Sound, Story
  <2>3. CASE Number(x) >= MaxAttempts
    <3>1. Number(x) = MaxAttempts
      BY <2>2, <2>3, ConstantsAssumption
    <3>2. lost(x) = Written(x, "failed", LeaseExpired, "lost",
                            "attempt.lost", "run.failed")
      BY <2>3 DEF lost, givenUp, Written
    <3>3. /\ "attempt.lost" \in
               EventTypes \ (Announcing \union {"attempt.started"})
          /\ "run.failed" \in Announcing \ {"attempt.queued"}
          /\ RunStatusOf["run.failed"] = "failed"
          /\ "lost" \in CurrentAttemptOf["failed"]
      BY DEF EventTypes, Announcing, RunStatusOf, CurrentAttemptOf, RunStatuses
    <3> QED
      BY <1>2, <2>1, <3>1, <3>2, <3>3, EndRow
  <2>4. CASE ~(Number(x) >= MaxAttempts)
    <3>1. Number(x) < MaxAttempts
      BY <2>2, <2>4, ConstantsAssumption
    <3> QED
      BY <1>2, <2>1, <2>4, <3>1, RetriedRow DEF lost
  <2> QED
    BY <2>3, <2>4
<1> QED
  BY <1>1, <1>2 DEF Expired

-----------------------------------------------------------------------------
(* All Runs at once.                                                       *)

(* The Runs that Node n works on, and that every counter counts them.  The *)
(* set is finite because it starts empty and a step adds one Run to it:    *)
(* nothing is assumed of Runs.                                             *)
HeldBy(f, n) == {r \in Runs : Holder(f[r]) = n}

Counted(f, counts) ==
  \A n \in Nodes : /\ IsFiniteSet(HeldBy(f, n))
                   /\ counts[n] = Cardinality(HeldBy(f, n))

(* The inductive invariant.                                                *)
MemoryInv ==
  /\ TypeOK
  /\ \A r \in Runs : Sound(runs[r])
  /\ Counted(runs, active)

(* What a step does to each Run.                                           *)
MovesAll(f, g) == \A r \in Runs : Moves(f[r], g[r])

(* The effects that release a Node are those of the Runs it stops working  *)
(* on, so there are no more of them than Runs it works on.                 *)
LEMMA ReleasedRuns ==
  ASSUME NEW f, NEW g, NEW effects, NEW n \in Nodes, IsFiniteSet(HeldBy(f, n)),
         \A r \in Runs : Settles(f[r], g[r], effects[r].released)
  PROVE  LET released == {r \in Runs : effects[r].released = n} IN
         /\ Cardinality(released) \in Nat
         /\ Cardinality(HeldBy(f, n)) \in Nat
         /\ Cardinality(released) <= Cardinality(HeldBy(f, n))
         /\ IsFiniteSet(HeldBy(g, n))
         /\ Cardinality(HeldBy(g, n)) =
              Cardinality(HeldBy(f, n)) - Cardinality(released)
<1> DEFINE released == {r \in Runs : effects[r].released = n}
           held     == HeldBy(f, n)
<1>1. n # NoValue
  BY ConstantsAssumption
<1>2. released \subseteq held
  BY <1>1 DEF HeldBy, Settles
<1>3. HeldBy(g, n) = held \ released
  BY <1>1 DEF HeldBy, Settles
<1>4. held \cap released = released
  BY <1>2
<1> HIDE DEF released, held
<1>5. IsFiniteSet(held)
  BY DEF held
<1>6. IsFiniteSet(released) /\ Cardinality(released) <= Cardinality(held)
  BY <1>2, <1>5, FS_Subset
<1>7. Cardinality(released) \in Nat /\ Cardinality(held) \in Nat
  BY <1>5, <1>6, FS_CardinalityType
<1>8. /\ IsFiniteSet(held \ released)
      /\ Cardinality(held \ released) = Cardinality(held) - Cardinality(released)
  BY <1>4, <1>5, FS_Difference
<1> QED
  BY <1>3, <1>6, <1>7, <1>8 DEF released, held

(* releaseNode never stops at zero: each counter it leaves is the number   *)
(* of Runs the Node still works on.                                        *)
LEMMA ReleaseCounts ==
  ASSUME MemoryInv, NEW g, NEW effects,
         \A r \in Runs : Settles(runs[r], g[r], effects[r].released)
  PROVE  /\ releaseNode(effects) \in [Nodes -> Nat]
         /\ Counted(g, releaseNode(effects))
<1>1. ASSUME NEW n \in Nodes
      PROVE  /\ IsFiniteSet(HeldBy(g, n))
             /\ releaseNode(effects)[n] = Cardinality(HeldBy(g, n))
             /\ Cardinality(HeldBy(g, n)) \in Nat
  <2> DEFINE k == Cardinality({r \in Runs : effects[r].released = n})
             a == Cardinality(HeldBy(runs, n))
  <2>1. active[n] = a /\ IsFiniteSet(HeldBy(runs, n))
    BY DEF MemoryInv, Counted
  <2>2. /\ k \in Nat /\ a \in Nat /\ k <= a
        /\ IsFiniteSet(HeldBy(g, n)) /\ Cardinality(HeldBy(g, n)) = a - k
    BY <2>1, ReleasedRuns
  <2>3. releaseNode(effects)[n] = IF active[n] > k THEN active[n] - k ELSE 0
    BY DEF releaseNode
  <2> HIDE DEF k, a
  <2> QED
    BY <2>1, <2>2, <2>3
<1>2. DOMAIN releaseNode(effects) = Nodes
      /\ releaseNode(effects) =
           [n \in Nodes |-> releaseNode(effects)[n]]
  BY DEF releaseNode
<1> QED
  BY <1>1, <1>2 DEF Counted

(* A method whose effects are those of Row keeps the invariant.            *)
LEMMA ApplyStep ==
  ASSUME MemoryInv, NEW effects, \A r \in Runs : Row(runs[r], effects[r]),
         Apply(effects)
  PROVE  MemoryInv' /\ MovesAll(runs, runs')
<1> DEFINE g == [r \in Runs |-> effects[r].run]
<1>1. /\ runs' = g /\ active' = releaseNode(effects) /\ capacity' = capacity
  BY DEF Apply
<1>2. ASSUME NEW r \in Runs
      PROVE  /\ Sound(g[r]) /\ g[r] \in Run /\ Moves(runs[r], g[r])
             /\ Settles(runs[r], g[r], effects[r].released)
  BY DEF Row, Sound
<1>3. g \in [Runs -> Run]
  BY <1>2
<1> HIDE DEF g
<1>4. /\ releaseNode(effects) \in [Nodes -> Nat]
      /\ Counted(g, releaseNode(effects))
  BY <1>2, ReleaseCounts
<1>5. TypeOK'
  BY <1>1, <1>3, <1>4 DEF MemoryInv, TypeOK
<1>6. Counted(runs, active)'
  BY <1>1, <1>4 DEF Counted, HeldBy
<1> QED
  BY <1>1, <1>2, <1>5, <1>6 DEF MemoryInv, MovesAll

(* A method that reaches one Run.                                          *)
LEMMA OnlyStep ==
  ASSUME MemoryInv, NEW r \in Runs, NEW effect, Row(runs[r], effect),
         Apply(Only(r, effect))
  PROVE  MemoryInv' /\ MovesAll(runs, runs')
<1>1. ASSUME NEW q \in Runs PROVE Row(runs[q], Only(r, effect)[q])
  <2>1. Sound(runs[q])
    BY DEF MemoryInv
  <2> QED
    BY <2>1, KeepRow DEF Only
<1> QED
  BY <1>1, ApplyStep

(* A step that changes the record of one Run and no counter.               *)
LEMMA RecordStep ==
  ASSUME MemoryInv, NEW r \in Runs, NEW y, Sound(y), Changed(runs[r], y),
         Holder(y) = Holder(runs[r]), runs' = [runs EXCEPT ![r] = y],
         active' = active, capacity' = capacity
  PROVE  MemoryInv' /\ MovesAll(runs, runs')
<1>1. runs \in [Runs -> Run] /\ y \in Run
  BY DEF MemoryInv, TypeOK, Sound
<1>2. ASSUME NEW q \in Runs
      PROVE  /\ Sound(runs'[q]) /\ Changed(runs[q], runs'[q])
             /\ Holder(runs'[q]) = Holder(runs[q])
  BY <1>1 DEF MemoryInv, Changed, Kept
<1>3. TypeOK'
  BY <1>1 DEF MemoryInv, TypeOK
<1>4. \A n \in Nodes : HeldBy(runs', n) = HeldBy(runs, n)
  BY <1>2 DEF HeldBy
<1>5. Counted(runs', active')
  BY <1>4 DEF MemoryInv, Counted
<1> QED
  BY <1>2, <1>3, <1>5 DEF MemoryInv, MovesAll, Moves, Counted, HeldBy

(* Submit inserts a sound record.                                          *)
LEMMA SubmittedSound ==
  ASSUME NEW d \in {"none", "ahead"}
  PROVE  /\ Sound(Submitted(d)) /\ Inserted(AbsentRun, Submitted(d))
         /\ Holder(Submitted(d)) = NoValue /\ Holder(AbsentRun) = NoValue
<1> DEFINE y == Submitted(d)
<1>1. Good(y) /\ LogGood(y)
  BY SubmittedGood, FirstLog
<1>2. /\ y.status = "queued" /\ y.attempts = <<"queued">> /\ y.token = 0
      /\ y.node = NoValue /\ y.outcome = NoValue /\ y.grants = <<>>
  BY DEF Submitted
<1>3. Number(y) = 1 /\ AttemptStatus(y) = "queued" /\ Len(y.attempts) = 1
  BY <1>2 DEF Number, AttemptStatus
<1>4. AbsentRun.grants = <<>> /\ AbsentRun.status = "absent"
  BY DEF AbsentRun
<1> HIDE DEF y
<1>5. Present(y) /\ ~Working(y) /\ Waiting(y) /\ Owned(y)
  BY <1>2, <1>3 DEF Present, Working, Waiting, Owned
<1>6. Story(y)
  BY <1>1, <1>5 DEF Good, Coherent, Story, Present
<1>7. Sound(y)
  BY <1>1, <1>2, <1>5, <1>6 DEF Sound, Good
<1>8. Inserted(AbsentRun, y)
  BY <1>2, <1>3, <1>4 DEF Inserted
<1> QED
  BY <1>4, <1>5, <1>7, <1>8 DEF Holder, Working, Present, y

(* Claim: the sweep releases Nodes, and one Run may then be leased.        *)
LEMMA ClaimStep ==
  ASSUME MemoryInv, NEW n \in Nodes, Claim(n)
  PROVE  MemoryInv' /\ MovesAll(runs, runs')
<1> DEFINE effects == [r \in Runs |-> swept(runs[r])]
           free    == {r \in Runs : /\ claimable(effects[r].run)
                                    /\ <<n, r>> \in Compatible}
<1>1. ASSUME NEW r \in Runs
      PROVE  /\ Sound(runs[r]) /\ effects[r] = swept(runs[r])
             /\ Row(runs[r], effects[r])
  BY SweptRow DEF MemoryInv
<1>2. CASE Apply(effects)
  <2> HIDE DEF effects
  <2> QED
    BY <1>1, <1>2, ApplyStep
<1>3. ASSUME NEW r \in free,
             runs' = [q \in Runs |-> IF q = r THEN leased(effects[r].run, n)
                                     ELSE effects[q].run],
             active' = [releaseNode(effects) EXCEPT ![n] = @ + 1],
             capacity' = capacity
      PROVE  MemoryInv' /\ MovesAll(runs, runs')
  <2> DEFINE g == [q \in Runs |-> effects[q].run]
             y == leased(effects[r].run, n)
             a == releaseNode(effects)
  <2>1. r \in Runs /\ claimable(swept(runs[r]).run)
    OBVIOUS
  <2>2. /\ Sound(y) /\ Moves(runs[r], y) /\ Holder(y) = n
        /\ Holder(effects[r].run) = NoValue
    BY <1>1, <2>1, ClaimedRow
  <2> HIDE DEF effects, y
  <2>3. ASSUME NEW q \in Runs
        PROVE  /\ Settles(runs[q], g[q], effects[q].released)
               /\ Sound(g[q]) /\ Moves(runs[q], g[q])
    BY <1>1 DEF Row
  <2>4. Holder(g[r]) = NoValue
    BY <2>1, <2>2
  <2>5. runs' = [q \in Runs |-> IF q = r THEN y ELSE g[q]]
    BY <1>3 DEF y
  <2> HIDE DEF g, a
  <2>6. a \in [Nodes -> Nat] /\ Counted(g, a)
    BY <2>3, ReleaseCounts DEF a
  <2>7. active' = [a EXCEPT ![n] = a[n] + 1]
    BY <1>3 DEF a
  <2>8. ASSUME NEW q \in Runs
        PROVE  /\ Sound(runs'[q]) /\ runs'[q] \in Run
               /\ Moves(runs[q], runs'[q])
               /\ Holder(runs'[q]) = IF q = r THEN n ELSE Holder(g[q])
    BY <2>2, <2>3, <2>5 DEF Sound
  <2>9. TypeOK'
    <3>1. active' \in [Nodes -> Nat]
      BY <2>6, <2>7
    <3>2. runs' \in [Runs -> Run]
      BY <2>5, <2>8
    <3> QED
      BY <1>3, <3>1, <3>2 DEF MemoryInv, TypeOK
  <2>10. n # NoValue
    BY ConstantsAssumption
  <2>11. ASSUME NEW m \in Nodes
         PROVE  /\ IsFiniteSet(HeldBy(runs', m))
                /\ active'[m] = Cardinality(HeldBy(runs', m))
    <3>1. IsFiniteSet(HeldBy(g, m)) /\ a[m] = Cardinality(HeldBy(g, m))
      BY <2>6 DEF Counted
    <3>2. m # NoValue
      BY ConstantsAssumption
    <3>3. CASE m = n
      <4>1. HeldBy(runs', m) = HeldBy(g, m) \cup {r}
        BY <2>1, <2>8, <3>3 DEF HeldBy
      <4>2. r \notin HeldBy(g, m)
        BY <2>4, <3>2 DEF HeldBy
      <4>3. active'[m] = a[m] + 1
        BY <2>6, <2>7, <3>3
      <4> QED
        BY <3>1, <4>1, <4>2, <4>3, FS_AddElement
    <3>4. CASE m # n
      <4>1. HeldBy(runs', m) = HeldBy(g, m)
        BY <2>4, <2>8, <3>2, <3>4 DEF HeldBy
      <4>2. active'[m] = a[m]
        BY <2>6, <2>7, <3>4
      <4> QED
        BY <3>1, <4>1, <4>2
    <3> QED
      BY <3>3, <3>4
  <2>12. Counted(runs', active')
    BY <2>11 DEF Counted
  <2> QED
    BY <2>8, <2>9, <2>12 DEF MemoryInv, MovesAll, Counted, HeldBy
<1>4. \/ Apply(effects)
      \/ \E r \in free :
           /\ runs' = [q \in Runs |-> IF q = r THEN leased(effects[r].run, n)
                                      ELSE effects[q].run]
           /\ active' = [releaseNode(effects) EXCEPT ![n] = @ + 1]
           /\ capacity' = capacity
  BY DEF Claim
<1> QED
  BY <1>2, <1>3, <1>4

(* Reconcile cancels overdue Runs, then recovers expired ones: a Run may   *)
(* be among both.                                                          *)
LEMMA ReconcileRow ==
  ASSUME NEW x, Sound(x), NEW due,
         \/ due = Keep(x, "ok")
         \/ Overdue(x) /\ due = cancelRunLocked(x)
  PROVE  /\ Row(x, due)
         /\ Expired(due.run) => Row(x, recovered(due.run))
<1>1. CASE due = Keep(x, "ok")
  <2>1. Row(x, due) /\ due.run = x
    BY <1>1, KeepRow, EffectParts
  <2>2. Expired(x) => Present(x)
    BY DEF Expired, Present
  <2> QED
    BY <2>1, <2>2, RecoveredRow
<1>2. CASE Overdue(x) /\ due = cancelRunLocked(x)
  <2>1. Present(x)
    BY <1>2 DEF Overdue, Sound, Present, AbsentRun
  <2>2. /\ Row(x, due) /\ Present(due.run) /\ due.released = NoValue
        /\ due.run = x \/ CancelledOf(x, due.run)
    BY <1>2, <2>1, CancelRow
  <2>3. ASSUME Expired(due.run) PROVE Row(x, recovered(due.run))
    <3>1. Sound(due.run) /\ Settles(x, due.run, NoValue)
      BY <2>2 DEF Row
    <3>2. CASE due.run = x
      BY <2>1, <2>3, <3>2, RecoveredRow
    <3>3. CASE due.run.status = "cancelling"
      <4>1. recovered(due.run) = finalizeCancellation(due.run)
        BY <3>3 DEF recovered
      <4> QED
        BY <2>1, <2>2, <3>1, <3>3, <4>1, CancelThenFinalize
    <3>4. due.run = x \/ due.run.status = "cancelling"
      BY <2>2, <2>3 DEF CancelledOf, Expired
    <3> QED
      BY <3>2, <3>3, <3>4
  <2> QED
    BY <2>2, <2>3
<1> QED
  BY <1>1, <1>2

(* Reconcile keeps the invariant.                                          *)
LEMMA ReconcileStep ==
  ASSUME MemoryInv, Reconcile
  PROVE  MemoryInv' /\ MovesAll(runs, runs')
<1>1. PICK D \in First(ReconcileLimit, {r \in Runs : Overdue(runs[r])}) :
        LET due == [r \in Runs |-> IF r \in D THEN cancelRunLocked(runs[r])
                                              ELSE Keep(runs[r], "ok")]
        IN  \E E \in First(ReconcileLimit - Cardinality(D),
                           {r \in Runs : Expired(due[r].run)}) :
              Apply([r \in Runs |-> IF r \in E THEN recovered(due[r].run)
                                               ELSE due[r]])
  BY DEF Reconcile
<1> DEFINE due == [r \in Runs |-> IF r \in D THEN cancelRunLocked(runs[r])
                                             ELSE Keep(runs[r], "ok")]
<1>2. PICK E \in First(ReconcileLimit - Cardinality(D),
                       {r \in Runs : Expired(due[r].run)}) :
        Apply([r \in Runs |-> IF r \in E THEN recovered(due[r].run)
                                         ELSE due[r]])
  BY <1>1
<1> DEFINE effects == [r \in Runs |-> IF r \in E THEN recovered(due[r].run)
                                                 ELSE due[r]]
<1>3. /\ \A r \in D : Overdue(runs[r])
      /\ \A r \in E : Expired(due[r].run)
  BY DEF First
<1>4. ASSUME NEW r \in Runs
      PROVE  /\ \/ due[r] = Keep(runs[r], "ok")
                \/ Overdue(runs[r]) /\ due[r] = cancelRunLocked(runs[r])
             /\ effects[r] = IF r \in E THEN recovered(due[r].run) ELSE due[r]
  BY <1>3
<1> HIDE DEF due
<1>5. ASSUME NEW r \in Runs PROVE Row(runs[r], effects[r])
  <2>1. Sound(runs[r])
    BY DEF MemoryInv
  <2>2. Row(runs[r], due[r])
        /\ (Expired(due[r].run) => Row(runs[r], recovered(due[r].run)))
    BY <1>4, <2>1, ReconcileRow
  <2> QED
    BY <1>3, <1>4, <2>2
<1>6. Apply(effects)
  BY <1>2
<1> HIDE DEF effects
<1> QED
  BY <1>5, <1>6, ApplyStep

(* The clocks.                                                             *)
LEMMA ClockStep ==
  ASSUME MemoryInv, NEW r \in Runs,
         LeaseTicks(r) \/ DeadlinePasses(r) \/ BackoffElapses(r)
  PROVE  MemoryInv' /\ MovesAll(runs, runs')
<1> DEFINE x == runs[r]
<1>1. Sound(x) /\ x \in Run /\ AbsentRun.ttl = 0 /\ AbsentRun.deadline = "none"
      /\ (~Present(x) => x = AbsentRun)
  BY DEF MemoryInv, Sound, AbsentRun
<1>2. CASE LeaseTicks(r)
  <2> DEFINE y == [x EXCEPT !.ttl = x.ttl - 1]
  <2>1. x.ttl > 0 /\ x.ttl \in Nat /\ Passes(r, y)
    BY <1>1, <1>2 DEF LeaseTicks, Run
  <2>2. Present(x) /\ x.ttl - 1 \in Nat
    BY <1>1, <2>1
  <2>3. Sound(y) /\ Changed(x, y) /\ Holder(y) = Holder(x)
    BY <1>1, <2>1, <2>2, TtlRow
  <2> HIDE DEF y
  <2> QED
    BY <2>1, <2>3, RecordStep DEF Passes
<1>3. ASSUME NEW y \in Run, Present(x), Passes(r, y),
             y.status = x.status, y.attempts = x.attempts,
             y.cancelRequested = x.cancelRequested, y.outcome = x.outcome,
             y.token = x.token, y.grants = x.grants, y.node = x.node,
             y.log = x.log, y.ttl = x.ttl
      PROVE  MemoryInv' /\ MovesAll(runs, runs')
  <2>1. Sound(y) /\ Changed(x, y) /\ Holder(y) = Holder(x)
    BY <1>1, <1>3, ClockRow
  <2> QED
    BY <1>3, <2>1, RecordStep DEF Passes
<1>4. CASE DeadlinePasses(r)
  <2> DEFINE y == [x EXCEPT !.deadline = "passed"]
  <2>1. Present(x) /\ Passes(r, y)
    BY <1>1, <1>4 DEF DeadlinePasses
  <2>2. /\ y \in Run /\ y.status = x.status /\ y.attempts = x.attempts
        /\ y.cancelRequested = x.cancelRequested /\ y.outcome = x.outcome
        /\ y.token = x.token /\ y.grants = x.grants /\ y.node = x.node
        /\ y.log = x.log /\ y.ttl = x.ttl
    BY <1>1 DEF Run
  <2> HIDE DEF y
  <2> QED
    BY <1>3, <2>1, <2>2
<1>5. CASE BackoffElapses(r)
  <2> DEFINE y == [x EXCEPT !.available = TRUE]
  <2>1. Present(x) /\ Passes(r, y)
    BY <1>5 DEF BackoffElapses, Present
  <2>2. /\ y \in Run /\ y.status = x.status /\ y.attempts = x.attempts
        /\ y.cancelRequested = x.cancelRequested /\ y.outcome = x.outcome
        /\ y.token = x.token /\ y.grants = x.grants /\ y.node = x.node
        /\ y.log = x.log /\ y.ttl = x.ttl
    BY <1>1 DEF Run
  <2> HIDE DEF y
  <2> QED
    BY <1>3, <2>1, <2>2
<1> QED
  BY <1>2, <1>4, <1>5

(* Every step keeps the invariant and moves each Run in one of the ways    *)
(* named above.                                                            *)
LEMMA MemoryStep ==
  ASSUME MemoryInv, [Next]_vars
  PROVE  MemoryInv' /\ MovesAll(runs, runs')
<1>1. ASSUME NEW r \in Runs PROVE Sound(runs[r])
  BY DEF MemoryInv
<1>2. CASE UNCHANGED vars
  <2>1. MemoryInv'
    BY <1>2 DEF vars, MemoryInv, TypeOK, Counted, HeldBy
  <2> QED
    BY <1>2, <2>1 DEF vars, MovesAll, Moves, Changed, Kept
<1>3. ASSUME NEW n \in Nodes, NEW c \in Capacities, RegisterNode(n, c)
      PROVE  MemoryInv' /\ MovesAll(runs, runs')
  <2>1. capacity' \in [Nodes -> Nat]
    BY <1>3, ConstantsAssumption DEF RegisterNode, MemoryInv, TypeOK
  <2>2. runs' = runs /\ active' = active
    BY <1>3 DEF RegisterNode
  <2>3. MemoryInv'
    BY <2>1, <2>2 DEF MemoryInv, TypeOK, Counted, HeldBy
  <2> QED
    BY <2>2, <2>3 DEF MovesAll, Moves, Changed, Kept
<1>4. ASSUME NEW r \in Runs, NEW d \in {"none", "ahead"}, Submit(r, d)
      PROVE  MemoryInv' /\ MovesAll(runs, runs')
  <2>1. runs[r] = AbsentRun
    BY <1>1, <1>4 DEF Submit, Sound, Present
  <2>2. Changed(runs[r], Submitted(d))
    BY <2>1, SubmittedSound DEF Changed
  <2> QED
    BY <1>4, <2>1, <2>2, SubmittedSound, RecordStep DEF Submit
<1>5. ASSUME NEW r \in Runs, CancelRun(r)
      PROVE  MemoryInv' /\ MovesAll(runs, runs')
  <2>1. Row(runs[r], cancelRunLocked(runs[r]))
    BY <1>1, <1>5, CancelRow DEF CancelRun, Present
  <2> QED
    BY <1>5, <2>1, OnlyStep DEF CancelRun
<1>6. ASSUME NEW r \in Runs, NEW k \in DOMAIN runs[r].grants, NodeCall(r, k)
      PROVE  MemoryInv' /\ MovesAll(runs, runs')
  <2> DEFINE x == runs[r]
  <2>1. /\ Row(x, renew(x, k)) /\ Row(x, acknowledge(x, k))
        /\ Row(x, start(x, k)) /\ Row(x, record(x, k))
        /\ \A v \in Results : Row(x, complete(x, k, v))
        /\ \A v \in Causes : Row(x, fail(x, k, v))
    BY <1>1, NodeCallRow
  <2>2. PICK effect : Row(x, effect) /\ Apply(Only(r, effect))
    BY <1>6, <2>1 DEF NodeCall, Renew, Start, AcknowledgeCancellation,
                      RecordCall, Complete, Fail
  <2> QED
    BY <2>2, OnlyStep
<1> QED
  BY <1>2, <1>3, <1>4, <1>5, <1>6, ClaimStep, ReconcileStep, ClockStep
     DEF Next, RunStep

(* The invariant holds in every state.                                     *)
LEMMA AlwaysMemoryInv == Spec => []MemoryInv
<1>1. Init => MemoryInv
  <2> SUFFICES ASSUME Init PROVE MemoryInv
    OBVIOUS
  <2>1. Sound(AbsentRun) /\ Holder(AbsentRun) = NoValue
    <3>1. AbsentRun.status = "absent" /\ AbsentRun.token = 0
      BY DEF AbsentRun
    <3>2. ~Present(AbsentRun) /\ ~Working(AbsentRun) /\ ~Waiting(AbsentRun)
          /\ Owned(AbsentRun)
      BY <3>1 DEF Present, Working, Waiting, Owned
    <3> QED
      BY <3>2, AbsentGood, FirstLog DEF Good, Sound, Holder
  <2>2. \A r \in Runs : Sound(runs[r]) /\ Holder(runs[r]) = NoValue
    BY <2>1 DEF Init
  <2>3. \A n \in Nodes : HeldBy(runs, n) = {} /\ active[n] = 0
    BY <2>2, ConstantsAssumption DEF HeldBy, Init
  <2>4. Counted(runs, active)
    BY <2>3, FS_EmptySet DEF Counted
  <2>5. TypeOK
    BY <2>1 DEF Init, TypeOK, Sound
  <2> QED
    BY <2>2, <2>4, <2>5 DEF MemoryInv
<1>2. MemoryInv /\ [Next]_vars => MemoryInv'
  BY MemoryStep
<1> QED
  BY <1>1, <1>2, PTL DEF Spec

-----------------------------------------------------------------------------
(* Theorems.                                                               *)

(* The counter of a Node, which Claim increments and six other places      *)
(* decrement, some of them for several Runs in one call, is always the      *)
(* number of Attempts leased to the Node or running on it.                 *)
THEOREM CountersAreExact == Spec => []ActiveIsExact
<1>1. ASSUME MemoryInv, NEW n \in Nodes
      PROVE  active[n] = Cardinality({r \in Runs :
                            /\ runs[r].status # "absent"
                            /\ runs[r].node = n
                            /\ AttemptStatus(runs[r]) \in {"leased", "running"}})
  <2>1. n # NoValue
    BY ConstantsAssumption
  <2>2. HeldBy(runs, n) = {r \in Runs :
                             /\ runs[r].status # "absent"
                             /\ runs[r].node = n
                             /\ AttemptStatus(runs[r]) \in {"leased", "running"}}
    BY <2>1 DEF HeldBy, Holder, Working, Present
  <2> QED
    BY <1>1, <2>2 DEF MemoryInv, Counted
<1>2. MemoryInv => ActiveIsExact
  BY <1>1 DEF ActiveIsExact
<1> QED
  BY <1>2, AlwaysMemoryInv, PTL

(* The in-process store keeps the promises of the database store: leases   *)
(* are fenced, the log of a Run tells its status, announces each Attempt   *)
(* once and starts it at most once, and a final report whose response was  *)
(* lost can be repeated.                                                   *)
THEOREM RecordsStaySound == Spec => []RecordsSound
<1>1. ASSUME NEW x, Sound(x)
      PROVE  /\ x.status = "succeeded" =>
                  \A v \in Results :
                    complete(x, x.token, v).reply = "ok" <=> x.outcome = v
             /\ x.status = "failed" /\ AttemptStatus(x) = "failed" =>
                  \A v \in Causes :
                    fail(x, x.token, v).reply = "ok" <=> x.outcome = v
  <2>1. /\ x.status = "succeeded" => Present(x) /\ AttemptStatus(x) = "succeeded"
    BY <1>1, SoundStatuses DEF Present
  <2>2. x.token > 0 => Holds(x, x.token)
    BY <1>1 DEF Sound, Fenced, Holds
  <2>3. /\ x.status = "succeeded" => Holds(x, x.token)
        /\ x.status = "failed" /\ AttemptStatus(x) = "failed"
             => Holds(x, x.token)
    BY <1>1, <2>2 DEF Sound, Owned
  <2>4. ASSUME x.status = "succeeded", NEW v \in Results
        PROVE  complete(x, x.token, v).reply = "ok" <=> x.outcome = v
    BY <2>1, <2>3, <2>4, EffectParts DEF complete
  <2>5. ASSUME x.status = "failed", AttemptStatus(x) = "failed",
               NEW v \in Causes
        PROVE  fail(x, x.token, v).reply = "ok" <=> x.outcome = v
    BY <2>3, <2>5, EffectParts DEF fail
  <2> QED
    BY <2>4, <2>5
<1>2. ASSUME MemoryInv PROVE RecordsSound
  <2>1. \A r \in Runs : Sound(runs[r])
    BY <1>2 DEF MemoryInv
  <2>2. LeasesFenced
    BY <2>1 DEF Sound, LeasesFenced
  <2>3. LogIsFaithful
    BY <2>1, FaithfulLogs DEF Sound
  <2>4. RepeatedReportAccepted
    BY <1>1, <2>1 DEF RepeatedReportAccepted
  <2> QED
    BY <1>2, <2>2, <2>3, <2>4 DEF MemoryInv, RecordsSound
<1> QED
  BY <1>2, AlwaysMemoryInv, PTL

(* The in-process store implements the lifecycle promised to clients: a    *)
(* client cannot tell it from the database, although it gives leases back  *)
(* from within other calls.                                                *)
THEOREM MemoryImplementsLifecycle == Spec => RefinesLifecycle
<1> DEFINE job == [r \in Runs |-> View(runs[r])]
<1>1. Init => Lifecycle!Init
  <2>1. View(AbsentRun) = Lifecycle!Absent
    BY DEF View, AbsentRun, Number, Lifecycle!Absent
  <2> QED
    BY <2>1 DEF Init, Lifecycle!Init
<1>2. MemoryInv /\ [Next]_vars => [Lifecycle!Next]_job
  <2> SUFFICES ASSUME MemoryInv, [Next]_vars PROVE Lifecycle!Next
    OBVIOUS
  <2>1. MemoryInv' /\ MovesAll(runs, runs')
    BY MemoryStep
  <2>2. ASSUME NEW r \in Runs PROVE PromisedStep(View(runs[r]), View(runs'[r]))
    <3>1. runs[r] \in Run /\ runs'[r] \in Run /\ Moves(runs[r], runs'[r])
      BY <2>1 DEF MemoryInv, TypeOK, MovesAll
    <3>2. CASE Changed(runs[r], runs'[r])
      BY <3>1, <3>2, ViewStep
    <3>3. CASE Returned(runs[r], runs'[r])
      BY <3>3 DEF Returned, View, Number, PromisedStep
    <3> QED
      BY <3>1, <3>2, <3>3 DEF Moves
  <2> QED
    BY <2>2 DEF PromisedStep, Lifecycle!Next
<1> QED
  BY <1>1, <1>2, AlwaysMemoryInv, PTL
     DEF Spec, RefinesLifecycle, Lifecycle!Spec

(* A finished Run is never changed again by a late report, a cancellation, *)
(* a deadline or the recovery of an expired lease.                         *)
THEOREM MemoryTerminalIsFinal == Spec => TerminalIsFinal
<1>1. ASSUME MemoryInv, [Next]_vars, NEW r \in Runs,
             terminalRunStatus(runs[r].status)
      PROVE  /\ runs'[r].status = runs[r].status
             /\ runs'[r].outcome = runs[r].outcome
             /\ runs'[r].attempts = runs[r].attempts
             /\ runs'[r].log = runs[r].log
  <2>1. runs[r].status \in {"succeeded", "failed", "cancelled"}
    BY <1>1 DEF terminalRunStatus
  <2>2. AbsentRun.status = "absent"
    BY DEF AbsentRun
  <2>3. Moves(runs[r], runs'[r])
    BY <1>1, MemoryStep DEF MovesAll
  <2> QED
    BY <2>1, <2>2, <2>3 DEF Moves, Returned,
       Changed, Kept, Inserted, Granted, Repeated, Advanced
<1>2. MemoryInv /\ [Next]_vars => [\A r \in Runs :
        terminalRunStatus(runs[r].status) =>
          /\ runs'[r].status = runs[r].status
          /\ runs'[r].outcome = runs[r].outcome
          /\ runs'[r].attempts = runs[r].attempts
          /\ runs'[r].log = runs[r].log]_runs
  BY <1>1
<1> QED
  BY <1>2, AlwaysMemoryInv, PTL DEF Spec, TerminalIsFinal

(* No lease is taken from its holder before it expires, although refused   *)
(* calls and every Claim give leases back.                                 *)
THEOREM MemoryLeaseNotStolen == Spec => LeaseNotStolen
<1>1. ASSUME MemoryInv, [Next]_vars, NEW r \in Runs,
             runs[r].token # 0, runs'[r].token # runs[r].token
      PROVE  LET x == runs[r]
                 y == runs'[r]
             IN  /\ x.ttl = 0
                 /\ \/ Number(y) = Number(x) /\ AttemptStatus(x) = "leased"
                    \/ Number(y) = Number(x) + 1 /\ AttemptStatus(x) = "running"
                         /\ y.attempts[Number(x)] = "lost"
  <2>1. AbsentRun.token = 0
    BY DEF AbsentRun
  <2>2. Moves(runs[r], runs'[r])
    BY <1>1, MemoryStep DEF MovesAll
  <2> QED
    BY <1>1, <2>1, <2>2 DEF Moves, Returned,
       Changed, Kept, Inserted, Granted, Repeated, Advanced, Number
<1>2. MemoryInv /\ [Next]_vars => [\A r \in Runs :
        LET x == runs[r]
            y == runs'[r]
        IN  x.token # 0 /\ y.token # x.token =>
              /\ x.ttl = 0
              /\ \/ Number(y) = Number(x) /\ AttemptStatus(x) = "leased"
                 \/ Number(y) = Number(x) + 1 /\ AttemptStatus(x) = "running"
                      /\ y.attempts[Number(x)] = "lost"]_runs
  BY <1>1
<1> QED
  BY <1>2, AlwaysMemoryInv, PTL DEF Spec, LeaseNotStolen
=============================================================================
