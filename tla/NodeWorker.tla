----------------------------- MODULE NodeWorker -----------------------------
(***************************************************************************)
(* Nodes at work (node/worker.go, events.go, final.go and outbox.go) on    *)
(* top of the Postgres store: the claim loop, RunOnce with its lease       *)
(* keeper, the delivery of the events of a runtime, the final report, and  *)
(* the outbox that is replayed when a Node comes back after a crash.       *)
(*                                                                         *)
(* A Node calls the store over HTTP.  A call may be lost before it reaches *)
(* the store, or its response may be lost after the transaction committed; *)
(* the Node cannot tell the two apart.  What comes back is what HttpApi    *)
(* makes of the answer.  A Node has one claim loop (its capacity is 1), so *)
(* it is also the slot of its Claim transaction; a process that comes back *)
(* after a crash claims once the server is done with the claim that the    *)
(* crash left behind.                                                      *)
(***************************************************************************)
EXTENDS PostgresStore, HttpApi, SequencesExt

CONSTANTS
  Interrupted,  \* "Node restarted: ... runtime execution was interrupted"
  MaxEvents,    \* bound: events a runtime emits in one execution
  MaxFiles,     \* records that fit the disk limit of an outbox
  MaxFaults     \* bound: crashes, lost messages and timeouts

ASSUME WorkerAssumption ==
  /\ Calls = Nodes
  /\ Interrupted \in Causes
  /\ Results \intersect Causes = {}
  /\ MaxEvents \in Nat /\ MaxFiles \in Nat /\ MaxFaults \in Nat

VARIABLES
  worker,    \* the claim loop of each Node and the RunOnce it is in
  files,     \* the outbox directory of each Node
  recorded,  \* relay_events written by AppendEvent, per Run
  faults     \* faults so far

storeVars == <<runs, capacity, claims>>

nodeVars == <<runs, capacity, claims, worker, files, recorded, faults>>

-----------------------------------------------------------------------------
(* pc says where the loop is.  run and token are the Assignment, keeper    *)
(* what keepLease is doing or has returned, cancelled whether executionCtx *)
(* is, sent is eventSequence, report what the execution came to, reply the *)
(* answer to the final report, and ended what RunOnce returned.            *)
Worker ==
  [pc        : {"down", "recover", "interrupt", "idle", "claim", "prepare",
                "execute", "send", "report", "stop", "acknowledge"},
   run       : Runs \union {NoValue},
   token     : Nat,
   keeper    : {"off", "on", "lost", "cancelled"},
   cancelled : BOOLEAN,
   sent      : Nat,
   eventErr  : BOOLEAN,
   report    : Results \union Causes \union {NoValue},
   reply     : {"ok", "invalid_lease", "invalid_transition", "run_cancelled",
                "unknown"},
   ended     : {"none", "succeeded", "failed", "cancelled"}]

At(pc) ==
  [pc |-> pc, run |-> NoValue, token |-> 0, keeper |-> "off",
   cancelled |-> FALSE, sent |-> 0, eventErr |-> FALSE, report |-> NoValue,
   reply |-> "unknown", ended |-> "none"]

(* A pendingEvent: the Assignment and the position of the event.           *)
Pending(w) == [run |-> w.run, token |-> w.token, id |-> w.sent]

Set(n, w) == worker' = [worker EXCEPT ![n] = w]

(* RunOnce returns a Run or the cause it reported; any other error leaves  *)
(* the loop where it was.                                                  *)
Returns(w, ended) ==
  [At("idle") EXCEPT !.run    = w.run,    !.token = w.token, !.sent = w.sent,
                     !.report = w.report, !.ended = ended]

ReturnsError == At("idle")

(* RunOnce cancels executionCtx, and the runtime is told to stop.          *)
cancelExecution(w) == [w EXCEPT !.cancelled = TRUE]

(* A fault is possible while the bounds allow the system to recover.       *)
Fault ==
  /\ faults < MaxFaults
  /\ \A r \in Runs : Len(runs[r].grants) + 1 < MaxGrants
  /\ faults' = faults + 1

-----------------------------------------------------------------------------
(* AppendEvent of the store: the transaction of transition, and the        *)
(* identity of the event (token and position) recognises a repetition.     *)

AppendReply(x, k) ==
  IF ~transition(x, k) THEN "invalid_lease"
  ELSE IF AttemptStatus(x) # "running" THEN "invalid_transition"
  ELSE "ok"

(* Mutant: every accepted call inserts a row. *)
AppendAgain(f) ==
  recorded' = [recorded EXCEPT ![f.run] =
                 Append(@, [token |-> f.token, id |-> f.id])]

AppendEvent(f) ==
  LET e == [token |-> f.token, id |-> f.id] IN
  recorded' = [recorded EXCEPT ![f.run] =
                 IF e \in ToSet(@) THEN @ ELSE Append(@, e)]

-----------------------------------------------------------------------------
(* Starting and stopping a Node.                                           *)

NodeInit ==
  /\ Init
  /\ worker = [n \in Nodes |-> At("down")]
  /\ files = [n \in Nodes |-> {}]
  /\ recorded = [r \in Runs |-> <<>>]
  /\ faults = 0

(* The process registers the Node and turns to its outbox.                 *)
Boot(n) ==
  /\ worker[n].pc = "down"
  /\ \E c \in Capacities : RegisterNode(n, c)
  /\ Set(n, At("recover"))
  /\ UNCHANGED <<files, recorded, faults>>

(* The process dies; what it published in the outbox stays, and so does a  *)
(* Claim transaction that the server has open for it.                      *)
Crash(n) ==
  /\ worker[n].pc # "down"
  /\ Fault
  /\ Set(n, At("down"))
  /\ UNCHANGED <<runs, capacity, claims, files, recorded>>

remove(n, f) == files' = [files EXCEPT ![n] = @ \ {f}]

(* Mutant: a record the server refuses is kept for the next start. *)
RecoverKeepsStale(n, f) ==
  /\ worker[n].pc = "recover"
  /\ IF AppendReply(runs[f.run], f.token) = "ok"
     THEN /\ AppendEvent(f)
          /\ Set(n, [At("interrupt") EXCEPT !.run   = f.run,
                                            !.token = f.token,
                                            !.sent  = f.id])
          /\ UNCHANGED files
     ELSE Set(n, At("down")) /\ UNCHANGED <<recorded, files>>
  /\ UNCHANGED <<runs, capacity, claims, faults>>

(* Recover sends a saved event again; an event the store refuses is stale. *)
(* The store never answers AppendEvent with ErrRunCancelled, so the branch *)
(* of Recover that acknowledges a cancellation is not taken.               *)
Recover(n, f) ==
  /\ worker[n].pc = "recover"
  /\ IF Answered(AppendReply(runs[f.run], f.token)) = "ok"
     THEN /\ AppendEvent(f)
          /\ Set(n, [At("interrupt") EXCEPT !.run   = f.run,
                                            !.token = f.token,
                                            !.sent  = f.id])
          /\ UNCHANGED files
     ELSE remove(n, f) /\ UNCHANGED <<worker, recorded>>
  /\ UNCHANGED <<runs, capacity, claims, faults>>

(* The Attempt of a replayed event is failed: its runtime is gone.         *)
Interrupt(n) ==
  LET w == worker[n] IN
  /\ w.pc = "interrupt"
  /\ \/ Fail(w.run, w.token, Interrupted)
     \/ /\ FailReply(runs[w.run], w.token, Interrupted) # "ok"
        /\ UNCHANGED storeVars
  /\ remove(n, Pending(w))
  /\ Set(n, At("recover"))
  /\ UNCHANGED <<recorded, faults>>

(* Recover returns the error of an unknown outcome and the process exits.  *)
(* A lost response to AppendEvent or Fail, with its effect.                *)
RecoverFails(n) ==
  /\ \/ /\ worker[n].pc = "recover"
        /\ \E f \in files[n] : /\ AppendReply(runs[f.run], f.token) = "ok"
                               /\ AppendEvent(f)
        /\ UNCHANGED storeVars
     \/ /\ worker[n].pc = "interrupt"
        /\ Fail(worker[n].run, worker[n].token, Interrupted)
        /\ UNCHANGED recorded
  /\ Fault
  /\ Set(n, At("down"))
  /\ UNCHANGED files

(* Something else than the store answers with an error: unless the client  *)
(* takes it for one of the protocol the file is kept and the process exits. *)
RecoverRejected(n, f) ==
  /\ worker[n].pc = "recover"
  /\ Fault
  /\ \E response \in Foreign :
       /\ do(response) # "ok"
       /\ IF do(response) = "unknown"
          THEN Set(n, At("down")) /\ UNCHANGED files
          ELSE remove(n, f) /\ UNCHANGED worker
  /\ UNCHANGED <<runs, capacity, claims, recorded>>

RecoverEnds(n) ==
  /\ worker[n].pc = "recover"
  /\ files[n] = {}
  /\ Set(n, At("idle"))
  /\ UNCHANGED <<runs, capacity, claims, files, recorded, faults>>

-----------------------------------------------------------------------------
(* Claim and Start.                                                        *)

ClaimCall(n) ==
  /\ worker[n].pc = "idle"
  /\ ClaimBegin(n, n)
  /\ Set(n, At("claim"))
  /\ UNCHANGED <<files, recorded, faults>>

Claimed(n, r) ==
  /\ worker[n].pc = "claim"
  /\ ClaimCommit(n, r)
  /\ \/ /\ Set(n, [At("prepare") EXCEPT !.run   = r,
                                         !.token = Len(runs[r].grants) + 1])
        /\ UNCHANGED faults
     \/ Fault /\ Set(n, At("idle"))
  /\ UNCHANGED <<files, recorded>>

NotClaimed(n) ==
  /\ worker[n].pc = "claim"
  /\ ClaimNothing(n)
  /\ Set(n, At("idle"))
  /\ UNCHANGED <<files, recorded, faults>>

(* No executor, no workspace or no instructions: Fail is called once and   *)
(* its error is dropped.                                                   *)
PrepareFails(n, cause) ==
  LET w == worker[n] IN
  /\ w.pc = "prepare"
  /\ \/ Fail(w.run, w.token, cause) /\ UNCHANGED faults
     \/ /\ FailReply(runs[w.run], w.token, cause) # "ok"
        /\ UNCHANGED <<runs, capacity, claims, faults>>
     \/ Fault /\ UNCHANGED storeVars
  /\ Set(n, ReturnsError)
  /\ UNCHANGED <<files, recorded>>

StartCall(n) ==
  LET w     == worker[n]
      reply == Answered(StartReply(runs[w.run], w.token))
  IN  /\ w.pc = "prepare"
      /\ \/ /\ Start(w.run, w.token)
            /\ Set(n, [w EXCEPT !.pc = "execute", !.keeper = "on"])
            /\ UNCHANGED faults
         \/ /\ reply = "run_cancelled"
            /\ Set(n, [w EXCEPT !.pc = "acknowledge", !.reply = reply])
            /\ UNCHANGED <<runs, capacity, claims, faults>>
         \/ /\ reply \notin {"ok", "run_cancelled"}
            /\ Set(n, ReturnsError)
            /\ UNCHANGED <<runs, capacity, claims, faults>>
         \/ /\ Fault
            /\ Set(n, ReturnsError)
            /\ Start(w.run, w.token) \/ UNCHANGED storeVars
      /\ UNCHANGED <<files, recorded>>

-----------------------------------------------------------------------------
(* keepLease, a goroutine of its own.                                      *)

(* Mutant: the request to cancel in the answer is not looked at. *)
RenewedRegardless(w, x) == w

(* What keepLease makes of the answer to Renew.                            *)
Renewed(w, x) ==
  IF x.cancelRequested
  THEN cancelExecution([w EXCEPT !.keeper = "cancelled"])
  ELSE w

(* Mutant: a refused renewal is tried again like an unknown one. *)
KeepLeaseRetries(n) ==
  LET w == worker[n] IN
  /\ w.keeper = "on"
  /\ Renew(w.run, w.token)
  /\ Set(n, Renewed(w, runs[w.run]))
  /\ UNCHANGED <<files, recorded, faults>>

(* The lease is lost when the store says so, or when the local deadline    *)
(* passes before a renewal was answered.  The deadline is an instant of    *)
(* the server's clock that the Node compares with its own clock, and the   *)
(* two clocks are not tied to each other here: the second may happen at    *)
(* any time.                                                               *)
keepLease(n) ==
  LET w == worker[n] IN
  /\ w.keeper = "on"
  /\ \/ /\ Renew(w.run, w.token)
        /\ \/ Set(n, Renewed(w, runs[w.run])) /\ UNCHANGED faults
           \/ Fault /\ UNCHANGED worker
     \/ /\ Set(n, cancelExecution([w EXCEPT !.keeper = "lost"]))
        /\ UNCHANGED <<runs, capacity, claims, faults>>
  /\ UNCHANGED <<files, recorded>>

-----------------------------------------------------------------------------
(* The runtime emits events, one in flight at a time, and returns.         *)

(* Events are no longer delivered once one of them failed.                 *)
EventFails(w) ==
  cancelExecution([w EXCEPT !.pc = "execute", !.eventErr = TRUE])

(* emit: the event is saved before it is sent, unless the disk limit is    *)
(* reached.                                                                *)
Emit(n) ==
  LET w    == worker[n]
      next == [w EXCEPT !.pc = "send", !.sent = w.sent + 1]
  IN  /\ w.pc = "execute"
      /\ ~w.eventErr
      /\ w.sent < MaxEvents
      /\ IF Cardinality(files[n]) < MaxFiles
         THEN /\ files' = [files EXCEPT ![n] = @ \union {Pending(next)}]
              /\ Set(n, next)
         ELSE Set(n, EventFails(next)) /\ UNCHANGED files
      /\ UNCHANGED <<runs, capacity, claims, recorded, faults>>

(* deliver: the event is sent until it is answered, refused or too late;   *)
(* only then, when it was accepted, is its file removed.                   *)
Deliver(n) ==
  LET w     == worker[n]
      f     == Pending(w)
      reply == Answered(AppendReply(runs[w.run], w.token))
  IN  /\ w.pc = "send"
      /\ \/ /\ reply = "ok"
            /\ AppendEvent(f)
            /\ \/ /\ Set(n, [w EXCEPT !.pc = "execute"])
                  /\ remove(n, f)
                  /\ UNCHANGED faults
               \/ Fault /\ UNCHANGED <<worker, files>>
         \/ /\ reply # "ok"
            /\ Set(n, EventFails(w))
            /\ UNCHANGED <<files, recorded, faults>>
      /\ UNCHANGED storeVars

(* The delivery deadline passes, or the context of the execution ends;     *)
(* the request that was in flight may still have been carried out.         *)
DeliveryTimesOut(n) ==
  LET w == worker[n] IN
  /\ w.pc = "send"
  /\ \/ w.cancelled /\ UNCHANGED faults
     \/ Fault
  /\ \/ AppendReply(runs[w.run], w.token) = "ok" /\ AppendEvent(Pending(w))
     \/ UNCHANGED recorded
  /\ Set(n, EventFails(w))
  /\ UNCHANGED <<runs, capacity, claims, files>>

(* What an execution can come to: an error that is its own, that of the    *)
(* event delivery or that of an artifact upload, or else a result.         *)
Reports(w) ==
  (IF w.eventErr THEN {} ELSE Results) \union (Causes \ {Interrupted})

ExecuteReturns(n, v) ==
  LET w == worker[n] IN
  /\ w.pc = "execute"
  /\ v \in Reports(w)
  /\ Set(n, [w EXCEPT !.pc = "report", !.report = v])
  /\ UNCHANGED <<runs, capacity, claims, files, recorded, faults>>

-----------------------------------------------------------------------------
(* The final report and the end of RunOnce.                                *)

(* retryFinalReport: unknown outcomes are retried until the deadline.      *)
Report(n) ==
  LET w     == worker[n]
      done  == w.report \in Results
      reply == Answered(IF done THEN CompleteReply(runs[w.run], w.token, w.report)
                                ELSE FailReply(runs[w.run], w.token, w.report))
  IN  /\ w.pc = "report"
      /\ IF reply # "ok" THEN UNCHANGED storeVars
         ELSE IF done THEN Complete(w.run, w.token, w.report)
         ELSE Fail(w.run, w.token, w.report)
      /\ \/ /\ Set(n, [w EXCEPT !.pc = "stop", !.reply = reply])
            /\ UNCHANGED faults
         \/ Fault /\ UNCHANGED worker
      /\ UNCHANGED <<files, recorded>>

ReportTimesOut(n) ==
  /\ worker[n].pc = "report"
  /\ Fault
  /\ Set(n, [worker[n] EXCEPT !.pc = "stop"])
  /\ UNCHANGED <<runs, capacity, claims, files, recorded>>

(* What RunOnce returns for a report that was accepted or not.             *)
EndOf(w) ==
  IF w.reply # "ok" THEN ReturnsError
  ELSE Returns(w, IF w.report \in Results THEN "succeeded" ELSE "failed")

(* stopLease ends the keeper and waits for what it returns.                *)
stopLease(n) ==
  LET w == worker[n]
  IN  /\ w.pc = "stop"
      /\ Set(n, IF w.reply = "run_cancelled" \/ w.keeper = "cancelled"
                THEN [w EXCEPT !.pc = "acknowledge", !.keeper = "off"]
                ELSE EndOf(w))
      /\ UNCHANGED <<runs, capacity, claims, files, recorded, faults>>

(* Mutant: an acknowledgement that fails is taken for a cancellation. *)
AcknowledgeAnyway(n) ==
  LET w == worker[n] IN
  /\ w.pc = "acknowledge"
  /\ \/ AcknowledgeCancellation(w.run, w.token)
     \/ /\ AcknowledgeReply(runs[w.run], w.token) # "ok"
        /\ UNCHANGED storeVars
  /\ Set(n, Returns(w, "cancelled"))
  /\ UNCHANGED <<files, recorded, faults>>

(* After an execution ErrInvalidTransition counts as acknowledged; a Run   *)
(* that was cancelled before Start has no report yet, and there it is an   *)
(* error.                                                                  *)
Acknowledge(n) ==
  LET w     == worker[n]
      reply == Answered(AcknowledgeReply(runs[w.run], w.token))
  IN  /\ w.pc = "acknowledge"
      /\ \/ /\ AcknowledgeCancellation(w.run, w.token)
            /\ Set(n, Returns(w, "cancelled"))
            /\ UNCHANGED faults
         \/ /\ reply # "ok"
            /\ Set(n, IF reply = "invalid_transition" /\ w.report # NoValue
                      THEN Returns(w, "cancelled") ELSE ReturnsError)
            /\ UNCHANGED <<runs, capacity, claims, faults>>
         \/ /\ Fault
            /\ Set(n, ReturnsError)
            /\ AcknowledgeCancellation(w.run, w.token) \/ UNCHANGED storeVars
      /\ UNCHANGED <<files, recorded>>

-----------------------------------------------------------------------------
(* Answers that are not the store's.                                       *)

(* What a loop does next when it believes that its call succeeded.         *)
Believes(w) ==
  CASE w.pc = "prepare"     -> [w EXCEPT !.pc = "execute", !.keeper = "on"]
    [] w.pc = "send"        -> [w EXCEPT !.pc = "execute"]
    [] w.pc = "report"      -> [w EXCEPT !.pc = "stop", !.reply = "ok"]
    [] w.pc = "acknowledge" -> Returns(w, "cancelled")
    [] w.pc = "interrupt"   -> At("recover")

(* The request never reached the handler, and the client takes what came   *)
(* back for a success: nothing is recorded, and the Node goes on as if it  *)
(* were.                                                                   *)
Misled(n) ==
  LET w == worker[n] IN
  /\ Fault
  /\ \E response \in Foreign : do(response) = "ok"
  /\ \/ /\ w.pc \in {"prepare", "report", "acknowledge"}
        /\ Set(n, Believes(w))
        /\ UNCHANGED files
     \/ /\ w.pc \in {"send", "interrupt"}
        /\ Set(n, Believes(w))
        /\ remove(n, Pending(w))
     \/ /\ w.pc = "recover"
        /\ \E f \in files[n] :
             Set(n, [At("interrupt") EXCEPT !.run   = f.run,
                                            !.token = f.token,
                                            !.sent  = f.id])
        /\ UNCHANGED files
  /\ UNCHANGED <<runs, capacity, claims, recorded>>

-----------------------------------------------------------------------------
(* The control plane as in PostgresStore; its clients are the Nodes.       *)

Idle == UNCHANGED <<worker, files, recorded, faults>>

(* The server ends a Claim whose process crashed: it commits, and nobody   *)
(* receives the Assignment, or it is rolled back.                          *)
OrphanClaimEnds(n) ==
  /\ worker[n].pc # "claim"
  /\ ClaimNothing(n) \/ \E r \in Runs : ClaimCommit(n, r)
  /\ Idle

ServerStep(r) ==
  /\ \/ Submit(r, "none")
     \/ CancelRun(r)
     \/ LeaseTicks(r)
     \/ BackoffElapses(r)
  /\ Idle

Reconciles == \E D, E \in SUBSET Runs : Reconcile(D, E) /\ Idle

(* The runtime of Node n returns.                                          *)
Executed(n) == \E v \in Results \union Causes : ExecuteReturns(n, v)

(* What a live Node does without waiting for anybody.                      *)
Progress(n) ==
  \/ Boot(n)
  \/ \E f \in files[n] : Recover(n, f)
  \/ Interrupt(n)
  \/ RecoverEnds(n)
  \/ NotClaimed(n)
  \/ StartCall(n)
  \/ Deliver(n)
  \/ Report(n)
  \/ stopLease(n)
  \/ Acknowledge(n)

NodeStep(n) ==
  \/ Progress(n)
  \/ keepLease(n)
  \/ ClaimCall(n)
  \/ \E r \in Runs : Claimed(n, r)
  \/ \E cause \in Causes \ {Interrupted} : PrepareFails(n, cause)
  \/ Emit(n)
  \/ Executed(n)
  \/ DeliveryTimesOut(n)
  \/ ReportTimesOut(n)
  \/ RecoverFails(n)
  \/ \E f \in files[n] : RecoverRejected(n, f)
  \/ Misled(n)
  \/ Crash(n)
  \/ OrphanClaimEnds(n)

NodeNext ==
  \/ \E r \in Runs : ServerStep(r)
  \/ Reconciles
  \/ \E n \in Nodes : NodeStep(n)

NodeSpec == NodeInit /\ [][NodeNext]_nodeVars

(* Fairness.  The server as in PostgresStore, and it ends the Claim of a   *)
(* client that is gone.  A service manager restarts a Node that exited;    *)
(* the loop and the keeper of a live Node go on; a runtime returns when    *)
(* its context is cancelled, and may run forever otherwise.  That a        *)
(* cancelling Run is renewed only finitely often, which PostgresStore      *)
(* assumes of its callers, is not assumed here.                            *)
NodeFairness ==
  /\ \A r \in Runs :
       /\ WF_nodeVars(LeaseTicks(r) /\ Idle)
       /\ WF_nodeVars(BackoffElapses(r) /\ Idle)
       /\ WF_nodeVars(ReconcileRun(r) /\ Idle)
       /\ SF_nodeVars(\E n \in Nodes : Claimed(n, r))
  /\ \A n \in Nodes :
       /\ WF_nodeVars(OrphanClaimEnds(n))
       /\ WF_nodeVars(Progress(n))
       /\ WF_nodeVars(keepLease(n))
       /\ WF_nodeVars(worker[n].cancelled /\ Executed(n))
       /\ SF_nodeVars(ClaimCall(n))

FairNodeSpec == NodeSpec /\ NodeFairness

-----------------------------------------------------------------------------
(* Properties.                                                             *)

(* Type invariant, with an outbox within its disk limit.                   *)
NodeTypeOK ==
  /\ worker \in [Nodes -> Worker]
  /\ \A n \in Nodes : Cardinality(files[n]) <= MaxFiles
  /\ faults \in 0 .. MaxFaults

(* The positions of the events of token k among the first m on record.     *)
EventIds(events, k, m) ==
  {events[i].id : i \in {j \in 1 .. m : events[j].token = k}}

(* The events on record of the execution that token k was granted for.      *)
Recorded(events, k) == EventIds(events, k, Len(events))

(* The events the store keeps of one execution are the first ones it        *)
(* emitted, each once and in order, whatever was lost, repeated, replayed  *)
(* from the outbox by a later process or refused in between: when the      *)
(* event at position id is written, exactly those at 1 .. id - 1 have been. *)
InOrder(events) ==
  \A i \in DOMAIN events :
    EventIds(events, events[i].token, i - 1) = 1 .. events[i].id - 1

EventsInOrder == \A r \in Runs : InOrder(recorded[r])

(* Completion cannot overtake events: a Run only succeeds with all the     *)
(* events of its execution on record; an event that could not be delivered *)
(* prevents success.                                                       *)
CompletionAfterEvents ==
  \A n \in Nodes :
    LET w == worker[n] IN
    /\ w.pc \in {"stop", "idle"} /\ w.report \in Results
    /\ runs[w.run].status = "succeeded" /\ runs[w.run].token = w.token
    => Recorded(recorded[w.run], w.token) = 1 .. w.sent

(* What the store has of an execution is what its runtime emitted, and all  *)
(* of it when the Run succeeded; the outbox stays within its disk limit.   *)
DeliverySound == NodeTypeOK /\ EventsInOrder /\ CompletionAfterEvents

(* A saved event leaves the outbox only when it is on record or when the   *)
(* store itself would refuse it: not because of an error that does not     *)
(* come from the store, nor because the outcome of a call is unknown.  A   *)
(* success that is not the store's does remove it.                         *)
PendingRetained ==
  [][\A n \in Nodes : \A f \in files[n] \ files'[n] :
       \/ [token |-> f.token, id |-> f.id] \in ToSet(recorded'[f.run])
       \/ AppendReply(runs[f.run], f.token) # "ok"]_nodeVars

(* What RunOnce tells its caller is what the store has recorded: success   *)
(* and failure of this very report, or a cancelled Run.                    *)
ReturnIsTrue ==
  \A n \in Nodes :
    LET w == worker[n]
        x == runs[w.run]
    IN  CASE w.ended \in {"succeeded", "failed"} ->
               x.status = w.ended /\ x.token = w.token /\ x.outcome = w.report
          [] w.ended = "cancelled" -> x.status = "cancelled"
          [] OTHER -> TRUE

(* A Node whose lease was lost stops its runtime: an execution does not go *)
(* on forever next to the one that replaced it.                            *)
LostLeaseStops ==
  \A n \in Nodes :
    (/\ worker[n].keeper = "on"
     /\ runs[worker[n].run].token # worker[n].token)
    ~> (worker[n].cancelled \/ worker[n].pc \notin {"execute", "send"})

(* A Node that restarts gets through its outbox and claims again.          *)
RecoveryEnds ==
  \A n \in Nodes : worker[n].pc = "down" ~> worker[n].pc = "idle"
=============================================================================
