------------------------------- MODULE Engine -------------------------------
(***************************************************************************)
(* The embedded engine: Execute runs a request in the process of its       *)
(* caller, with the MemoryStore of the root package and an Observer.       *)
(* Several callers may use one engine, also with one idempotency key, and   *)
(* the executor of a Run emits events from several goroutines.             *)
(*                                                                         *)
(* The store locks every operation; the observer is called after the event *)
(* was appended, outside the lock.                                         *)
(***************************************************************************)
EXTENDS Naturals, Sequences, FiniteSets, SequencesExt

CONSTANTS
  Callers,   \* calls of Execute; the Run a call creates is named after it
  Keys,      \* idempotency keys
  Threads,   \* goroutines of an executor
  MaxEmits   \* bound: events the executor of a Run emits

ASSUME EngineAssumption ==
  /\ "absent" \notin Callers
  /\ "main" \notin Threads
  /\ MaxEmits \in Nat

VARIABLES
  call,       \* Execute: its phase, its key and what is left to do in it
  runs,       \* status of the Run a call created
  byRequest,  \* the Run of each key
  events,     \* the events of each Run, by type
  emitting,   \* sequence numbers appended and not yet observed, per thread
  observed,   \* sequence numbers the observer was given, in order
  executed    \* how often the executor was called for each key

vars == <<call, runs, byRequest, events, emitting, observed, executed>>

Terminal == {"succeeded", "failed"}

Absent == "absent"

(* The goroutine of Execute emits too.                                     *)
Emitters == Threads \union {"main"}

Init ==
  /\ call = [c \in Callers |-> [pc |-> "new", key |-> Absent, todo |-> <<>>,
                                run |-> Absent, reply |-> Absent]]
  /\ runs = [c \in Callers |-> Absent]
  /\ byRequest = [k \in Keys |-> Absent]
  /\ events = [c \in Callers |-> <<>>]
  /\ emitting = [c \in Callers |-> [t \in Emitters |-> 0]]
  /\ observed = [c \in Callers |-> <<>>]
  /\ executed = [k \in Keys |-> 0]

-----------------------------------------------------------------------------
(* What Execute has to do next: save a status or emit an event.             *)
Save(status) == [op |-> "save", arg |-> status]
Emit(type) == [op |-> "emit", arg |-> type]

Continue(c, pc, todo) ==
  call' = [call EXCEPT ![c].pc = pc, ![c].todo = todo]

(* Mutant: a failed Run does not stand in the way of another try. *)
TakenUnlessFailed(k) == byRequest[k] # Absent /\ runs[byRequest[k]] # "failed"

Taken(k) == byRequest[k] # Absent

(* store.Create finds the Run of the key, which is returned as it is, or   *)
(* inserts this one.                                                       *)
Create(c, k) ==
  /\ call[c].pc = "new"
  /\ IF Taken(k)
     THEN /\ call' = [call EXCEPT ![c].pc = "returned", ![c].key = k,
                                  ![c].run = byRequest[k],
                                  ![c].reply = runs[byRequest[k]]]
          /\ UNCHANGED <<runs, byRequest>>
     ELSE /\ call' = [call EXCEPT ![c].pc = "compile", ![c].key = k,
                                  ![c].run = c,
                                  ![c].todo = <<Emit("run.created")>>]
          /\ runs' = [runs EXCEPT ![c] = "queued"]
          /\ byRequest' = [byRequest EXCEPT ![k] = c]
  /\ UNCHANGED <<events, emitting, observed, executed>>

Ready(c, pc) ==
  call[c].pc = pc /\ call[c].todo = <<>> /\ emitting[c]["main"] = 0

LastEvents(status) ==
  IF status = "succeeded" THEN <<Emit("attempt.succeeded"), Emit("run.succeeded")>>
                          ELSE <<Emit("attempt.failed"), Emit("run.failed")>>

(* Mutant: a failure is told and not saved. *)
FinishUnsaved(status) ==
  IF status = "failed" THEN LastEvents(status)
                       ELSE <<Save(status)>> \o LastEvents(status)

(* The end of Execute, and fail.                                           *)
Finish(status) == <<Save(status)>> \o LastEvents(status)

Compile(c) ==
  /\ Ready(c, "compile")
  /\ \/ Continue(c, "execute", <<Save("running"), Emit("attempt.started"),
                                 Emit("run.started")>>)
     \/ Continue(c, "returning", Finish("failed"))
  /\ UNCHANGED <<runs, byRequest, events, emitting, observed, executed>>

ExecutorBegins(c) ==
  /\ Ready(c, "execute")
  /\ Continue(c, "executing", <<>>)
  /\ executed' = [executed EXCEPT ![call[c].key] = @ + 1]
  /\ UNCHANGED <<runs, byRequest, events, emitting, observed>>

(* An executor returns when its goroutines have.                           *)
ExecutorReturns(c) ==
  /\ call[c].pc = "executing"
  /\ \A t \in Threads : emitting[c][t] = 0
  /\ \E status \in Terminal : Continue(c, "returning", Finish(status))
  /\ UNCHANGED <<runs, byRequest, events, emitting, observed, executed>>

Return(c) ==
  /\ Ready(c, "returning")
  /\ call' = [call EXCEPT ![c].pc = "returned", ![c].reply = runs[c]]
  /\ UNCHANGED <<runs, byRequest, events, emitting, observed, executed>>

-----------------------------------------------------------------------------
(* store.Update.                                                           *)
Update(c) ==
  /\ call[c].todo # <<>> /\ emitting[c]["main"] = 0
  /\ Head(call[c].todo).op = "save"
  /\ runs' = [runs EXCEPT ![c] = Head(call[c].todo).arg]
  /\ Continue(c, call[c].pc, Tail(call[c].todo))
  /\ UNCHANGED <<byRequest, events, emitting, observed, executed>>

(* emit: store.AppendEvent gives the event its number.                     *)
AppendEvent(c, t, type) ==
  /\ emitting[c][t] = 0
  /\ events' = [events EXCEPT ![c] = Append(@, type)]
  /\ emitting' = [emitting EXCEPT ![c][t] = Len(events[c]) + 1]

EmitNext(c) ==
  /\ call[c].todo # <<>>
  /\ Head(call[c].todo).op = "emit"
  /\ AppendEvent(c, "main", Head(call[c].todo).arg)
  /\ Continue(c, call[c].pc, Tail(call[c].todo))
  /\ UNCHANGED <<runs, byRequest, observed, executed>>

RuntimeEmits(c, t) ==
  /\ call[c].pc = "executing"
  /\ Len(events[c]) < 3 + MaxEmits
  /\ AppendEvent(c, t, "runtime.output")
  /\ UNCHANGED <<call, runs, byRequest, observed, executed>>

(* emit: observer.OnEvent, which other goroutines may overtake.            *)
Observe(c, t) ==
  /\ emitting[c][t] # 0
  /\ observed' = [observed EXCEPT ![c] = Append(@, emitting[c][t])]
  /\ emitting' = [emitting EXCEPT ![c][t] = 0]
  /\ UNCHANGED <<call, runs, byRequest, events, executed>>

Step(c) ==
  \/ Compile(c) \/ ExecutorBegins(c) \/ ExecutorReturns(c) \/ Return(c)
  \/ Update(c) \/ EmitNext(c)
  \/ \E t \in Threads : RuntimeEmits(c, t)
  \/ \E t \in Emitters : Observe(c, t)

Next == \E c \in Callers : Step(c) \/ \E k \in Keys : Create(c, k)

Spec == Init /\ [][Next]_vars

-----------------------------------------------------------------------------
(* Properties.                                                             *)

(* Type invariant.                                                         *)
TypeOK ==
  /\ \A c \in Callers :
       /\ call[c].pc \in {"new", "compile", "execute", "executing", "returning",
                          "returned"}
       /\ runs[c] \in {Absent, "queued", "running"} \union Terminal
       /\ Len(events[c]) <= 5 + MaxEmits
       /\ \A t \in Emitters : emitting[c][t] \in 0 .. Len(events[c])
  /\ \A k \in Keys : byRequest[k] \in Callers \union {Absent}

(* An idempotency key is executed at most once, by whichever of the        *)
(* concurrent calls came first, and not again when it failed.              *)
ExecutedOnce == \A k \in Keys : executed[k] <= 1

(* Whoever learns from an event that a Run has ended finds it so: the log   *)
(* never runs ahead of the stored status.                                  *)
LogFollowsStatus ==
  \A c \in Callers :
    /\ Contains(events[c], "run.succeeded") => runs[c] = "succeeded"
    /\ Contains(events[c], "run.failed") => runs[c] = "failed"
    /\ Contains(events[c], "run.started") => runs[c] # "queued"

(* The Run that Execute returns has ended and its log is complete, or      *)
(* another call is still at work on it: no call is left with a Run nobody  *)
(* will finish.                                                            *)
TerminalOrInProgress ==
  [][\A c \in Callers :
       call[c].pc # "returned" /\ call'[c].pc = "returned" =>
         LET r == call'[c].run IN
         \/ call'[c].reply \in Terminal
         \/ call[r].pc # "returned"]_vars

(* When Execute returns, the observer was given every event of its Run     *)
(* exactly once, although not always in order.                             *)
ObservedCompletely ==
  \A c \in Callers :
    call[c].pc = "returned" /\ call[c].run = c =>
      /\ Len(observed[c]) = Len(events[c])
      /\ ToSet(observed[c]) = 1 .. Len(events[c])

(* What concurrent calls of one engine may rely on: a key is executed      *)
(* once, the log follows the stored status and the observer misses nothing. *)
EngineSound == TypeOK /\ ExecutedOnce /\ LogFollowsStatus /\ ObservedCompletely
=============================================================================
