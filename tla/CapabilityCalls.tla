--------------------------- MODULE CapabilityCalls ---------------------------
(***************************************************************************)
(* Capability calls of one Run: scopedCapabilities.Call (capability.go),   *)
(* which joins concurrent calls with the same idempotency key, and the     *)
(* reservations that ReserveCapability and FinishCapability keep in the    *)
(* store so that a later Attempt replays a call instead of repeating it.   *)
(*                                                                         *)
(* Each Attempt has its own invoker, in the process of its Node.  A Node    *)
(* that lost its lease is not stopped: its callers go on next to those of  *)
(* the following Attempt.  A response of the control plane may be lost     *)
(* after the transaction was committed; the HTTP client does not retry.    *)
(***************************************************************************)
EXTENDS Naturals, Sequences

CONSTANTS
  Keys,         \* idempotency keys
  Callers,      \* concurrent callers within an Attempt
  Targets,      \* name, version and resource of a call
  Inputs,       \* input of a call
  MaxAttempts,  \* retry policy
  Store         \* "postgres" or "memory"

ASSUME CapabilityAssumption ==
  /\ MaxAttempts \in Nat \ {0}
  /\ Store \in {"postgres", "memory"}

Attempts == 1 .. MaxAttempts

Requests == [target : Targets, input : Inputs]

VARIABLES
  current,     \* number of the current Attempt
  lease,       \* whether its lease is valid
  over,        \* whether the Run has ended
  rows,        \* the reservations, by key
  calls,       \* scopedCapabilities.calls, by Attempt and key
  callers,     \* the callers, by Attempt
  executions   \* the binding invocations so far; the n-th one returns n

vars == <<current, lease, over, rows, calls, callers, executions>>

NoRequest == [target |-> "none", input |-> "none"]

(* An answer is the result of an execution, or 0 for an error.             *)
NoRow == [status |-> "absent", request |-> NoRequest, answer |-> 0]

NoCall == [status |-> "absent", request |-> NoRequest, answer |-> 0]

Caller(pc, key, request, answer) ==
  [pc |-> pc, key |-> key, request |-> request, answer |-> answer]

Init ==
  /\ current = 1 /\ lease = TRUE /\ over = FALSE
  /\ rows = [key \in Keys |-> NoRow]
  /\ calls = [a \in Attempts |-> [key \in Keys |-> NoCall]]
  /\ callers = [a \in Attempts |-> [c \in Callers |->
                  [pc |-> "idle", key |-> "none",
                   request |-> NoRequest, answer |-> 0]]]
  /\ executions = <<>>

-----------------------------------------------------------------------------
Set(a, c, x) == callers' = [callers EXCEPT ![a][c] = x]

(* Mutant: the waiters of a call that failed are not woken. *)
finishOnlySuccess(a, c, answer) ==
  LET x == callers[a][c] IN
  /\ Set(a, c, [x EXCEPT !.pc = "returned", !.answer = answer])
  /\ calls' = IF answer = 0 THEN calls
              ELSE [calls EXCEPT ![a][x.key].status = "done",
                                 ![a][x.key].answer = answer]

(* finishCall: the answer is kept and the waiters are woken.               *)
finishCall(a, c, answer) ==
  LET x == callers[a][c] IN
  /\ Set(a, c, [x EXCEPT !.pc = "returned", !.answer = answer])
  /\ calls' = [calls EXCEPT ![a][x.key].status = "done",
                            ![a][x.key].answer = answer]

(* Call compares name, version and resource with the call it would join.   *)
Joins(previous, request) == previous.request.target = request.target

Call(a, c, key, request) ==
  LET previous == calls[a][key] IN
  /\ a <= current
  /\ callers[a][c].pc = "idle"
  /\ IF previous = NoCall
     THEN /\ Set(a, c, Caller("reserve", key, request, 0))
          /\ calls' = [calls EXCEPT
                         ![a][key] = [NoCall EXCEPT !.status  = "open",
                                                    !.request = request]]
     ELSE /\ Set(a, c, Caller(IF Joins(previous, request)
                              THEN "joined" ELSE "returned", key, request, 0))
          /\ UNCHANGED calls
  /\ UNCHANGED <<current, lease, over, rows, executions>>

(* A caller that joined an earlier call returns with its answer.           *)
Wake(a, c) ==
  LET x == callers[a][c] IN
  /\ x.pc = "joined"
  /\ calls[a][x.key].status = "done"
  /\ Set(a, c, [x EXCEPT !.pc = "returned", !.answer = calls[a][x.key].answer])
  /\ UNCHANGED <<current, lease, over, rows, calls, executions>>

(* A waiting caller gives up: its context is cancelled.                    *)
Abandon(a, c) ==
  /\ callers[a][c].pc = "joined"
  /\ Set(a, c, [callers[a][c] EXCEPT !.pc = "returned"])
  /\ UNCHANGED <<current, lease, over, rows, calls, executions>>

(* The Postgres transaction lifts the expiry check once the Run has ended  *)
(* and never looks at the status of the Attempt; the memory store demands  *)
(* a valid lease and, for a reservation, a running Attempt.                *)
ReserveAllowed(a) ==
  a = current /\ IF Store = "postgres" THEN lease \/ over ELSE lease /\ ~over

FinishAllowed(a) ==
  a = current /\ (lease \/ (Store = "postgres" /\ over))

(* Mutant: a pending reservation is handed out again. *)
ExecutePending(key) == rows[key].status \in {"absent", "pending"}

(* CapabilityReservation.Execute.  Postgres gives it to the transaction    *)
(* that inserted the row; the memory store repeats the stored reservation. *)
Execute(key) ==
  \/ rows[key] = NoRow
  \/ Store = "memory" /\ rows[key].status = "pending"

(* Mutant: the digest leaves out the input. *)
SameTarget(row, request) == row.request.target = request.target

(* The digest that is stored with a reservation covers the whole request.  *)
SameRequest(row, request) == row.request = request

Reserve(a, c) ==
  LET x   == callers[a][c]
      row == rows[x.key]
  IN  /\ x.pc = "reserve"
      /\ IF /\ ReserveAllowed(a)
            /\ row = NoRow \/ SameRequest(row, x.request)
         THEN /\ rows' = [rows EXCEPT ![x.key] =
                            IF row = NoRow
                            THEN [NoRow EXCEPT !.status  = "pending",
                                               !.request = x.request]
                            ELSE row]
              /\ \/ /\ Execute(x.key)
                    /\ Set(a, c, [x EXCEPT !.pc = "invoke"])
                    /\ UNCHANGED calls
                 \/ /\ ~Execute(x.key)
                    /\ finishCall(a, c, row.answer)
                 \/ finishCall(a, c, 0)        \* the response is lost
         ELSE /\ finishCall(a, c, 0)
              /\ UNCHANGED rows
      /\ UNCHANGED <<current, lease, over, executions>>

(* provider.Invoke: the side effect happens; the call may still fail.      *)
Invoke(a, c) ==
  LET x == callers[a][c] IN
  /\ x.pc = "invoke"
  /\ executions' = Append(executions, [key |-> x.key, request |-> x.request])
  /\ \E answer \in {0, Len(executions) + 1} :
       Set(a, c, [x EXCEPT !.pc = "finish", !.answer = answer])
  /\ UNCHANGED <<current, lease, over, rows, calls>>

Finish(a, c) ==
  LET x   == callers[a][c]
      row == rows[x.key]
  IN  /\ x.pc = "finish"
      /\ IF FinishAllowed(a) /\ (row.status = "pending" \/ Store = "memory")
         THEN /\ rows' = [rows EXCEPT
                            ![x.key].status = IF x.answer = 0 THEN "failed"
                                                              ELSE "succeeded",
                            ![x.key].answer = x.answer]
              /\ \/ finishCall(a, c, x.answer)
                 \/ finishCall(a, c, 0)        \* the response is lost
         ELSE finishCall(a, c, 0) /\ UNCHANGED rows
      /\ UNCHANGED <<current, lease, over, executions>>

(* The Run as seen from here: the lease of the Attempt expires, the        *)
(* reconciler starts another Attempt, and the Run ends.                    *)
LeaseExpires ==
  /\ lease
  /\ lease' = FALSE
  /\ UNCHANGED <<current, over, rows, calls, callers, executions>>

NextAttempt ==
  /\ ~lease /\ ~over
  /\ current < MaxAttempts
  /\ current' = current + 1
  /\ lease' = TRUE
  /\ UNCHANGED <<over, rows, calls, callers, executions>>

RunEnds ==
  /\ ~over
  /\ over' = TRUE
  /\ UNCHANGED <<current, lease, rows, calls, callers, executions>>

CallerStep(a, c) == Wake(a, c) \/ Reserve(a, c) \/ Invoke(a, c) \/ Finish(a, c)

Next ==
  \/ \E a \in Attempts, c \in Callers :
       \/ \E key \in Keys, request \in Requests : Call(a, c, key, request)
       \/ CallerStep(a, c)
       \/ Abandon(a, c)
  \/ LeaseExpires
  \/ NextAttempt
  \/ RunEnds

Spec == Init /\ [][Next]_vars

(* A goroutine that can take a step takes it.  That bindings return is an  *)
(* assumption: the program of an exec binding has no timeout of its own.   *)
FairSpec ==
  Spec /\ \A a \in Attempts, c \in Callers : WF_vars(CallerStep(a, c))

-----------------------------------------------------------------------------
(* Properties.                                                             *)

(* The binding behind a key is invoked at most once per Run: by no retry,  *)
(* no second Attempt and no old Node that is still alive, even when the     *)
(* outcome of the first invocation is unknown.                             *)
SideEffectOnce ==
  \A i, j \in DOMAIN executions : executions[i].key = executions[j].key => i = j

(* A result is only given to the request it was computed for: reusing an    *)
(* idempotency key for a different request is refused.  The design says so, *)
(* and it does not hold: a caller that joins may have another input.       *)
DifferentRequestRefused ==
  \A a \in Attempts, c \in Callers :
    LET x == callers[a][c] IN
    x.pc = "returned" /\ x.answer # 0 =>
      executions[x.answer].request = x.request

(* What an Attempt gets for a key is the answer to the request with which   *)
(* it first used the key, input included, also when another Attempt, with  *)
(* a request of its own, had it computed; and a caller that joined asked   *)
(* for the same capability and resource.                                   *)
ReplayFitsRequest ==
  \A a \in Attempts, c \in Callers :
    LET x     == callers[a][c]
        first == calls[a][x.key].request
    IN  x.pc = "returned" /\ x.answer # 0 =>
          /\ executions[x.answer].request = first
          /\ first.target = x.request.target

(* Lease fencing: an Attempt whose lease has expired changes nothing the    *)
(* control plane keeps about capability calls.  The Postgres store has this *)
(* only while the Run is not over: transition skips the expiry check then.  *)
ExpiredAttemptFenced == [][~lease => UNCHANGED rows]_vars

(* Every call returns: a caller that joined another one is woken whichever *)
(* way that one ends.                                                      *)
EveryCallReturns ==
  \A a \in Attempts, c \in Callers :
    callers[a][c].pc # "idle" ~> callers[a][c].pc = "returned"
=============================================================================
