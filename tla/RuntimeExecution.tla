-------------------------- MODULE RuntimeExecution --------------------------
(***************************************************************************)
(* Runtimes at work on one Node: Execute of the codex executor and its      *)
(* forks, for both protocols, the process it supervises, the FileBridge it  *)
(* serves and the relay-tool processes the runtime starts to make           *)
(* capability calls.                                                       *)
(*                                                                         *)
(* Bridge and tools share a mailbox of files below the work directory:     *)
(* a request is published by renaming it, taken by reading and then        *)
(* removing it, and answered by a file of the same name.  The bridge knows *)
(* its own requests by their token, which is named here by the execution.  *)
(***************************************************************************)
EXTENDS Naturals, Sequences, FiniteSets

CONSTANTS
  Executions,  \* Attempts this Node executes
  Calls,       \* tool calls the runtimes make, by request ID
  AppServers,  \* executions with protocol "app-server"; the others use "exec"
  Spawners,    \* executions whose runtime may leave other processes behind
  MaxExecutions, \* bound on the executions that are started
  Workspace    \* kind of the workspace: "temp", "git" or "local"; without one
               \* "", or "config" when the configuration has a WorkDir

VARIABLES
  run,     \* Execute of each execution
  proc,    \* its process
  group,   \* the process group: another process that holds the output of the
           \* runtime, and what was done to the group to end it
  turn,    \* what an App Server has told it
  bridge,  \* its FileBridge
  caller,  \* the relay-tool process of each call
  files,   \* requests, responses and final message of each directory
  invoked  \* how often the invoker was called for each call

vars == <<run, proc, group, turn, bridge, caller, files, invoked>>

(* Prepare gives every Attempt a directory of its own, except for a local  *)
(* workspace.  With no workspace the executor uses the one it is configured *)
(* with, or the one of the Run, of which the executions here are Attempts. *)
WorkDir(e) ==
  CASE Workspace \in {"temp", "git"} -> <<"runs", e>>
    [] Workspace = "local"           -> <<"source">>
    [] Workspace = "config"          -> <<"config">>
    [] OTHER                         -> <<"root", "run">>

Dirs == {WorkDir(e) : e \in Executions}

EmptyDir == [requests |-> {}, responses |-> {}, final |-> "none"]

(* A FileBridge that looks at the next request, if any.                    *)
Serving(batch) == [pc |-> "serving", batch |-> batch, call |-> "none"]

Init ==
  /\ run = [e \in Executions |->
              [pc |-> "idle", cancelled |-> FALSE, result |-> "none", final |-> "none"]]
  /\ proc = [e \in Executions |-> "none"]
  /\ group = [e \in Executions |-> [child |-> "none", term |-> "no"]]
  /\ turn = [e \in Executions |-> [stage |-> 0, said |-> {}]]
  /\ bridge = [e \in Executions |-> [Serving({}) EXCEPT !.pc = "off"]]
  /\ caller = [c \in Calls |-> [pc |-> "idle", owner |-> "none", answer |-> "none"]]
  /\ files = [d \in Dirs |-> EmptyDir]
  /\ invoked = [c \in Calls |-> 0]

Alive(e) == proc[e] \in {"running", "signalled"}

Ended(e) == proc[e] \in {"exited", "died"}

-----------------------------------------------------------------------------
(* Execute, up to the start of the process.  The bridge is running then,   *)
(* also when the process cannot be started.                                *)
StartFile(e) ==
  bridge' = [bridge EXCEPT ![e] = Serving({})]

Execute(e) ==
  /\ run[e].pc = "idle"
  /\ Cardinality({f \in Executions : run[f].pc # "idle"}) < MaxExecutions
  /\ StartFile(e)
  /\ \/ /\ run' = [run EXCEPT ![e].pc = "reading"]
        /\ proc' = [proc EXCEPT ![e] = "running"]
     \/ /\ run' = [run EXCEPT ![e].pc = "closing", ![e].result = "error"]
        /\ UNCHANGED proc
  /\ UNCHANGED <<group, turn, caller, files, invoked>>

(* The context of the execution ends: lease lost, cancellation, or an      *)
(* event that could not be delivered.                                      *)
Cancel(e) ==
  /\ run[e].pc \in {"reading", "draining", "stopping"}
  /\ ~run[e].cancelled
  /\ run' = [run EXCEPT ![e].cancelled = TRUE]
  /\ UNCHANGED <<proc, group, turn, bridge, caller, files, invoked>>

Group(e) == {c \in Calls : caller[c].pc = "waiting" /\ caller[c].owner = e}

KillGroup(e) ==
  caller' = [c \in Calls |-> IF c \in Group(e) THEN [caller[c] EXCEPT !.pc = "killed"]
                                               ELSE caller[c]]

(* command.Cancel, once, when the context ends before Wait has returned:   *)
(* SIGTERM to the process group.  The runtime and its children may handle  *)
(* it, its tools do not.  Wait fails then, also for a process that had     *)
(* exited before.                                                          *)
Signal(e) ==
  /\ run[e].pc \in {"reading", "draining", "stopping"}
  /\ run[e].cancelled \/ run[e].pc = "stopping"
  /\ group[e].term = "no"
  /\ proc' = [proc EXCEPT ![e] = IF Alive(e) THEN "signalled" ELSE "died"]
  /\ group' = [group EXCEPT ![e].term = "sent"]
  /\ KillGroup(e)
  /\ UNCHANGED <<run, turn, bridge, files, invoked>>

Members(e) == Alive(e) \/ group[e].child = "member" \/ Group(e) # {}

(* Three seconds later, SIGKILL to what is left of the group, whether       *)
(* Execute still waits or not.                                             *)
Kill(e) ==
  /\ group[e].term # "no" /\ Members(e)
  /\ proc' = [proc EXCEPT ![e] = IF Alive(e) THEN "died" ELSE @]
  /\ group' = [group EXCEPT ![e].child = IF @ = "member" THEN "none" ELSE @]
  /\ KillGroup(e)
  /\ UNCHANGED <<run, turn, bridge, files, invoked>>

(* Mutant: no WaitDelay, so that os/exec waits for whoever holds the pipe. *)
WaitsForPipes(e) ==
  /\ run[e].pc = "reading"
  /\ group[e] = [child |-> "none", term |-> "sent"] /\ ~Members(e)
  /\ group' = [group EXCEPT ![e].term = "closed"]
  /\ UNCHANGED <<run, proc, turn, bridge, caller, files, invoked>>

(* WaitDelay, four seconds after the signal and thus after SIGKILL:         *)
(* os/exec closes the pipes.                                               *)
ClosePipes(e) ==
  /\ run[e].pc = "reading"
  /\ group[e].term = "sent" /\ ~Members(e)
  /\ group' = [group EXCEPT ![e].term = "closed"]
  /\ UNCHANGED <<run, proc, turn, bridge, caller, files, invoked>>

(* The runtime ends; tools it started may go on.  Once it was signalled it *)
(* counts as failed however it ends.                                       *)
Exits(e) ==
  /\ \/ proc[e] = "running" /\ proc' = [proc EXCEPT ![e] = "exited"]
     \/ Alive(e) /\ proc' = [proc EXCEPT ![e] = "died"]
  /\ UNCHANGED <<run, group, turn, bridge, caller, files, invoked>>

(* It may leave another process behind that has its output open, in its    *)
(* process group or out of it.                                             *)
Spawns(e) ==
  /\ e \in Spawners /\ Alive(e) /\ group[e].child = "none"
  /\ \E child \in {"member", "away"} : group' = [group EXCEPT ![e].child = child]
  /\ UNCHANGED <<run, proc, turn, bridge, caller, files, invoked>>

ChildExits(e) ==
  /\ group[e].child # "none"
  /\ group' = [group EXCEPT ![e].child = "none"]
  /\ UNCHANGED <<run, proc, turn, bridge, caller, files, invoked>>

(* What the scanner takes for the end: nobody can write any more, or the   *)
(* pipe was closed.                                                        *)
EndOfOutput(e) ==
  Ended(e) /\ (group[e].child = "none" \/ group[e].term = "closed")

-----------------------------------------------------------------------------
(* codex exec: events are passed on until the output ends, then the status *)
(* of the process and the file it left decide.                             *)
WritesFinal(e) ==
  /\ Alive(e) /\ e \notin AppServers
  /\ files' = [files EXCEPT ![WorkDir(e)].final = e]
  /\ UNCHANGED <<run, proc, group, turn, bridge, caller, invoked>>

ReadFinal(e) ==
  LET final == files[WorkDir(e)].final
      ok    == proc[e] = "exited" /\ final # "none"
  IN  /\ run[e].pc = "reading" /\ e \notin AppServers
      /\ EndOfOutput(e)
      /\ run' = [run EXCEPT ![e].pc = "closing",
                            ![e].result = IF ok THEN "success" ELSE "error",
                            ![e].final = IF ok THEN final ELSE "none"]
      /\ UNCHANGED <<proc, group, turn, bridge, caller, files, invoked>>

(* A line beyond the limit of the scanner ends the reading.  The executor   *)
(* then waits for a process nobody reads from; for what the process leaves *)
(* behind, Wait does not wait longer than WaitDelay.                       *)
LineTooLong(e) ==
  /\ run[e].pc = "reading" /\ e \notin AppServers /\ Alive(e)
  /\ run' = [run EXCEPT ![e].pc = "draining", ![e].result = "error"]
  /\ UNCHANGED <<proc, group, turn, bridge, caller, files, invoked>>

Drained(e) ==
  /\ run[e].pc = "draining" /\ Ended(e)
  /\ run' = [run EXCEPT ![e].pc = "closing"]
  /\ UNCHANGED <<proc, group, turn, bridge, caller, files, invoked>>

-----------------------------------------------------------------------------
(* codex app-server: the responses to initialize, thread/start and         *)
(* turn/start are awaited one at a time, then the events of the turn are   *)
(* read until turn/completed.  Lines are named by what they carry; they    *)
(* can be read when the process that wrote them has ended.                 *)
AppServerFails(e) ==
  /\ run' = [run EXCEPT ![e].pc = "stopping", ![e].result = "error"]
  /\ UNCHANGED files

TurnSucceeds(e) ==
  /\ run' = [run EXCEPT ![e].pc = "stopping", ![e].result = "success", ![e].final = e]
  /\ files' = [files EXCEPT ![WorkDir(e)].final = e]

Started(e) == turn[e].stage = 3

(* Mutant: a message is enough. *)
AnyMessage(e, said) ==
  IF "delta" \in said THEN TurnSucceeds(e) ELSE AppServerFails(e)

(* What is asked after the loop: was the turn started, completed, and was  *)
(* there a message.                                                        *)
LoopEnds(e, said) ==
  IF Started(e) /\ {"delta", "completed"} \subseteq said
  THEN TurnSucceeds(e) ELSE AppServerFails(e)

(* waitRPCResponse: everything else is passed on.  The third response is   *)
(* awaited within the loop.                                                *)
ReadResponse(e) ==
  /\ turn[e].stage < 3
  /\ \/ turn' = [turn EXCEPT ![e].stage = @ + 1] /\ UNCHANGED <<run, files>>
     \/ AppServerFails(e) /\ UNCHANGED turn

(* The loop over the turn, which begins when thread/start is answered.     *)
ReadTurn(e) ==
  /\ turn[e].stage >= 2
  /\ \/ /\ turn' = [turn EXCEPT ![e].said = @ \union {"delta"}]
        /\ UNCHANGED <<run, files>>
     \/ /\ turn' = [turn EXCEPT ![e].said = @ \union {"completed"}]
        /\ LoopEnds(e, turn'[e].said)
     \/ AppServerFails(e) /\ UNCHANGED turn   \* a failed turn, a line too long

ReadLine(e) ==
  /\ run[e].pc = "reading" /\ e \in AppServers
  /\ ReadResponse(e) \/ ReadTurn(e)
  /\ UNCHANGED <<proc, group, bridge, caller, invoked>>

(* The output ends.                                                        *)
OutputEnds(e) ==
  /\ run[e].pc = "reading" /\ e \in AppServers
  /\ EndOfOutput(e)
  /\ LoopEnds(e, turn[e].said)
  /\ UNCHANGED <<proc, group, turn, bridge, caller, invoked>>

(* The deferred stopProcess and Wait.                                      *)
Stopped(e) ==
  /\ run[e].pc = "stopping" /\ Ended(e)
  /\ run' = [run EXCEPT ![e].pc = "closing",
               ![e].result = IF proc[e] = "died" /\ run[e].cancelled THEN "error" ELSE @]
  /\ UNCHANGED <<proc, group, turn, bridge, caller, files, invoked>>

-----------------------------------------------------------------------------
(* FileBridge.Close, deferred: cancel and wait for serve.                  *)
Close(e) ==
  /\ run[e].pc = "closing" /\ bridge[e].pc = "off"
  /\ run' = [run EXCEPT ![e].pc = "returned"]
  /\ UNCHANGED <<proc, group, turn, bridge, caller, files, invoked>>

(* The deferred Cleanup of the workspace, once RunOnce is done with the    *)
(* result.                                                                 *)
Cleanup(e) ==
  /\ run[e].pc = "returned" /\ Workspace \in {"temp", "git"}
  /\ files[WorkDir(e)] # EmptyDir
  /\ files' = [files EXCEPT ![WorkDir(e)] = EmptyDir]
  /\ UNCHANGED <<run, proc, group, turn, bridge, caller, invoked>>

-----------------------------------------------------------------------------
(* CallFile of a relay-tool: the request is published ...                  *)
Publish(c, e) ==
  /\ caller[c].pc = "idle" /\ Alive(e)
  /\ caller' = [caller EXCEPT ![c].pc = "waiting", ![c].owner = e]
  /\ files' = [files EXCEPT ![WorkDir(e)].requests = @ \union {c}]
  /\ UNCHANGED <<run, proc, group, turn, bridge, invoked>>

(* ... and its response awaited ...                                        *)
CallReturns(c) ==
  /\ caller[c].pc = "waiting"
  /\ \E r \in files[WorkDir(caller[c].owner)].responses :
       /\ r.call = c
       /\ caller' = [caller EXCEPT ![c].pc = "returned", ![c].answer = r.answer]
       /\ files' = [files EXCEPT ![WorkDir(caller[c].owner)].responses = @ \ {r}]
  /\ UNCHANGED <<run, proc, group, turn, bridge, invoked>>

(* ... for thirty seconds.                                                 *)
CallTimesOut(c) ==
  /\ caller[c].pc = "waiting"
  /\ caller' = [caller EXCEPT ![c].pc = "returned", ![c].answer = "timeout"]
  /\ files' = [files EXCEPT ![WorkDir(caller[c].owner)].requests = @ \ {c}]
  /\ UNCHANGED <<run, proc, group, turn, bridge, invoked>>

-----------------------------------------------------------------------------
Select(e) == bridge[e].pc = "serving" /\ bridge[e].batch = {}

(* serve: the names of the requests are read once per tick.                *)
ReadDir(e) ==
  /\ Select(e)
  /\ files[WorkDir(e)].requests # {}
  /\ bridge' = [bridge EXCEPT ![e] = Serving(files[WorkDir(e)].requests)]
  /\ UNCHANGED <<run, proc, group, turn, caller, files, invoked>>

ServeStops(e) ==
  /\ Select(e) /\ run[e].pc = "closing"
  /\ bridge' = [bridge EXCEPT ![e].pc = "off"]
  /\ UNCHANGED <<run, proc, group, turn, caller, files, invoked>>

Readable(e, c) == c \in files[WorkDir(e)].requests

(* process: the request is read, if it is still there, and its token       *)
(* compared; what comes of it is decided before it is removed.             *)
ReadRequest(e, c) ==
  /\ bridge[e].pc = "serving" /\ c \in bridge[e].batch
  /\ bridge' = [bridge EXCEPT
       ![e] = [pc    |-> IF Readable(e, c) /\ caller[c].owner = e THEN "taking"
                                                               ELSE "refusing",
               batch |-> @.batch \ {c},
               call  |-> c]]
  /\ UNCHANGED <<run, proc, group, turn, caller, files, invoked>>

(* The response replaces one of the same name.                             *)
Respond(e, answer, requests) ==
  LET call == bridge[e].call IN
  /\ bridge' = [bridge EXCEPT ![e] = Serving(@.batch)]
  /\ files' = [files EXCEPT
       ![WorkDir(e)].requests = requests,
       ![WorkDir(e)].responses = {r \in @ : r.call # call}
                                 \union {[call |-> call, answer |-> answer]}]

(* Mutant: the request is left for the next tick. *)
RemainingAll(e) == files[WorkDir(e)].requests

(* os.Remove is taken to succeed, as in every directory the bridge created. *)
Remaining(e) == files[WorkDir(e)].requests \ {bridge[e].call}

(* Removed, and not authorized or not readable.                            *)
Refuse(e) ==
  /\ bridge[e].pc = "refusing"
  /\ Respond(e, "refused", Remaining(e))
  /\ UNCHANGED <<run, proc, group, turn, caller, invoked>>

(* Removed, and put to the invoker.                                        *)
Invoke(e) ==
  /\ bridge[e].pc = "taking"
  /\ bridge' = [bridge EXCEPT ![e].pc = "calling"]
  /\ files' = [files EXCEPT ![WorkDir(e)].requests = Remaining(e)]
  /\ invoked' = [invoked EXCEPT ![bridge[e].call] = @ + 1]
  /\ UNCHANGED <<run, proc, group, turn, caller>>

(* Mutant: an error is not written. *)
AnswerResult(e) ==
  /\ bridge[e].pc = "calling"
  /\ \/ Respond(e, "result", files[WorkDir(e)].requests)
     \/ bridge' = [bridge EXCEPT ![e] = Serving(@.batch)] /\ UNCHANGED files
  /\ UNCHANGED <<run, proc, group, turn, caller, invoked>>

(* The invoker returns a result or an error, if it returns: an exec        *)
(* binding is given no time.  Requests that came with this one wait.       *)
Answer(e) ==
  /\ bridge[e].pc = "calling"
  /\ \E answer \in {"result", "error"} :
       Respond(e, answer, files[WorkDir(e)].requests)
  /\ UNCHANGED <<run, proc, group, turn, caller, invoked>>

-----------------------------------------------------------------------------
ServeStep(e) ==
  \/ ReadDir(e)
  \/ \E c \in Calls : ReadRequest(e, c)
  \/ Refuse(e) \/ Invoke(e)

(* What the executor and os/exec do by themselves.                         *)
ExecuteStep(e) ==
  \/ ReadFinal(e) \/ Drained(e) \/ OutputEnds(e) \/ Stopped(e) \/ Close(e)
  \/ Signal(e) \/ Kill(e) \/ ClosePipes(e)

RuntimeStep(e) ==
  \/ ReadLine(e) \/ LineTooLong(e)
  \/ WritesFinal(e)
  \/ Exits(e)
  \/ Spawns(e) \/ ChildExits(e)
  \/ \E c \in Calls : Publish(c, e)

Next ==
  \/ \E e \in Executions :
       \/ Execute(e)
       \/ ExecuteStep(e)
       \/ Cancel(e) \/ Cleanup(e)
       \/ RuntimeStep(e)
       \/ ServeStep(e) \/ Answer(e) \/ ServeStops(e)
  \/ \E c \in Calls : CallReturns(c) \/ CallTimesOut(c)

Spec == Init /\ [][Next]_vars

(* Close has cancelled the context of the call.                            *)
AnswerClosing(e) == run[e].pc = "closing" /\ Answer(e)

(* Execute, serve and the signals go on, and select does not ignore for    *)
(* ever a context that has ended; a tool polls.  An invoker returns when   *)
(* its context is cancelled.  What a runtime does, when a binding answers, *)
(* and when a child ends is left open, and no timeout of a tool is waited  *)
(* for.                                                                    *)
FairSpec ==
  /\ Spec
  /\ \A e \in Executions :
       /\ WF_vars(ExecuteStep(e))
       /\ WF_vars(ServeStep(e)) /\ WF_vars(AnswerClosing(e)) /\ SF_vars(ServeStops(e))
  /\ \A c \in Calls : WF_vars(CallReturns(c))

-----------------------------------------------------------------------------
(* Properties.                                                             *)

(* Type invariant.                                                         *)
TypeOK ==
  /\ \A e \in Executions :
       /\ run[e].pc \in {"idle", "reading", "draining", "stopping", "closing", "returned"}
       /\ proc[e] \in {"none", "running", "signalled", "exited", "died"}
       /\ group[e].child \in {"none", "member", "away"}
       /\ group[e].term \in {"no", "sent", "closed"}
       /\ bridge[e].pc \in {"off", "serving", "taking", "refusing", "calling"}
       /\ turn[e].stage \in 0 .. 3
       /\ run[e].final \in Executions \union {"none"}
  /\ \A c \in Calls : caller[c].pc \in {"idle", "waiting", "returned", "killed"}

(* The mailbox is private: a tool that is answered gets what the invoker    *)
(* of its own execution returned.  A bridge that took the request of        *)
(* another execution, or found it gone, answers nobody.                    *)
MailboxIsPrivate == \A c \in Calls : caller[c].answer # "refused"

(* A request that was published once is put to the invoker at most once,   *)
(* however its tool, the runtime and the bridge end meanwhile.             *)
InvokedOnce == \A c \in Calls : invoked[c] <= 1

(* After Execute has returned nothing is done in its name any more: no     *)
(* capability call is under way or can begin, and its process is gone.     *)
QuietAfterReturn ==
  \A e \in Executions :
    run[e].pc = "returned" => bridge[e].pc = "off" /\ ~Alive(e)

(* Capability calls keep within their execution: each is made at most once *)
(* and none outlives Execute.                                              *)
CallsSound == TypeOK /\ InvokedOnce /\ QuietAfterReturn

(* Execute succeeds only with the last message of its own runtime; an App  *)
(* Server must have started and completed its turn, so that output that    *)
(* ends early is a failure whatever was said before.                       *)
SuccessIsEarned ==
  \A e \in Executions :
    run[e].result = "success" =>
      /\ run[e].final = e
      /\ e \in AppServers =>
           turn[e].stage = 3 /\ turn[e].said = {"delta", "completed"}

(* A cancelled execution returns, also when its runtime hangs, ignores the *)
(* signal, blocks on output that nobody reads any more, leaves a child     *)
(* behind that holds its output, or has a capability call under way.       *)
CancelledReturns ==
  \A e \in Executions : run[e].cancelled ~> run[e].pc = "returned"

(* Unless a binding keeps the bridge for ever, every tool call is answered *)
(* without waiting for its timeout, as long as the execution goes on: the  *)
(* bridge, which serves one request at a time, gets round to all of them.  *)
CallServed ==
  \A e \in Executions :
    []<>(bridge[e].pc # "calling") =>
      \A c \in Calls :
        caller[c].pc = "waiting" /\ caller[c].owner = e ~>
          caller[c].pc # "waiting" \/ run[e].pc # "reading"
=============================================================================
