----------------------- MODULE RuntimeExecutionProofs -----------------------
(***************************************************************************)
(* Proofs about RuntimeExecution, for any number of executions and tool    *)
(* calls and for either protocol.                                          *)
(*                                                                         *)
(* That a call is made at most once and that nothing outlives Execute      *)
(* holds for every workspace.  That a mailbox is private and that a success *)
(* is earned needs a directory for every Attempt, which the workspace      *)
(* manager gives to "temp" and "git" and not to "local".                   *)
(***************************************************************************)
EXTENDS RuntimeExecution, TLAPS

RunRecord ==
  [pc        : {"idle", "reading", "draining", "stopping", "closing", "returned"},
   cancelled : BOOLEAN,
   result    : {"none", "error", "success"},
   final     : Executions \union {"none"}]

ProcState == {"none", "running", "signalled", "exited", "died"}

GroupRecord ==
  [child : {"none", "member", "away"}, term : {"no", "sent", "closed"}]

TurnRecord == [stage : 0 .. 3, said : SUBSET {"delta", "completed"}]

BridgeRecord ==
  [pc    : {"off", "serving", "taking", "refusing", "calling"},
   batch : SUBSET Calls,
   call  : Calls \union {"none"}]

Answers == {"none", "refused", "result", "error", "timeout"}

CallerRecord ==
  [pc     : {"idle", "waiting", "returned", "killed"},
   owner  : Executions \union {"none"},
   answer : Answers]

DirRecord ==
  [requests  : SUBSET Calls,
   responses : SUBSET [call : Calls \union {"none"}, answer : Answers],
   final     : Executions \union {"none"}]

Types ==
  /\ run \in [Executions -> RunRecord]
  /\ proc \in [Executions -> ProcState]
  /\ group \in [Executions -> GroupRecord]
  /\ turn \in [Executions -> TurnRecord]
  /\ bridge \in [Executions -> BridgeRecord]
  /\ caller \in [Calls -> CallerRecord]
  /\ files \in [Dirs -> DirRecord]
  /\ invoked \in [Calls -> Nat]

(* The directory of an execution is one of the directories.                *)
LEMMA DirOfExecution == \A e \in Executions : WorkDir(e) \in Dirs
BY DEF Dirs

(* With a workspace of its own no two Attempts share a directory.          *)
LEMMA OwnDirectory ==
  ASSUME Workspace \in {"temp", "git"}
  PROVE  \A e, f \in Executions : WorkDir(e) = WorkDir(f) => e = f
BY DEF WorkDir

(* A caller that has published its request has an owner.                   *)
Owners == \A c \in Calls : caller[c].pc # "idle" => caller[c].owner \in Executions

-----------------------------------------------------------------------------
(* What the steps do to the mailbox of a directory.                         *)

(* A response is written over one of the same name; the bridge goes on.    *)
LEMMA RespondFacts ==
  ASSUME Types, NEW e \in Executions, NEW answer \in Answers,
         NEW requests \in SUBSET Calls, Respond(e, answer, requests)
  PROVE  LET d == WorkDir(e) IN
         /\ files' \in [Dirs -> DirRecord]
         /\ bridge' \in [Executions -> BridgeRecord]
         /\ \A g \in Dirs : g # d => files'[g] = files[g]
         /\ files'[d].requests = requests
         /\ files'[d].final = files[d].final
         /\ \A r \in files'[d].responses :
              \/ r \in files[d].responses
              \/ r.call = bridge[e].call /\ r.answer = answer
         /\ \A f \in Executions : f # e => bridge'[f] = bridge[f]
         /\ bridge'[e].pc = "serving" /\ bridge'[e].batch = bridge[e].batch
<1> DEFINE d == WorkDir(e)
           x == files[d]
           responses == {r \in x.responses : r.call # bridge[e].call}
                          \union {[call |-> bridge[e].call, answer |-> answer]}
           y == [x EXCEPT !.requests = requests, !.responses = responses]
<1>1. d \in Dirs /\ x \in DirRecord /\ bridge[e] \in BridgeRecord
  BY DirOfExecution DEF Types
<1>2. files' = [files EXCEPT ![d] = y]
  BY <1>1 DEF Respond, Types, DirRecord
<1>3. responses \in SUBSET [call : Calls \union {"none"}, answer : Answers]
  BY <1>1 DEF DirRecord, BridgeRecord
<1>4. \A r \in responses : \/ r \in x.responses
                           \/ r.call = bridge[e].call /\ r.answer = answer
  OBVIOUS
<1> HIDE DEF responses
<1>5. /\ y \in DirRecord /\ y.requests = requests /\ y.responses = responses
      /\ y.final = x.final
  BY <1>1, <1>3 DEF DirRecord
<1> HIDE DEF y
<1>6. /\ files' \in [Dirs -> DirRecord] /\ files'[d] = y
      /\ \A g \in Dirs : g # d => files'[g] = files[g]
  BY <1>1, <1>2, <1>5 DEF Types
<1>7. /\ bridge' \in [Executions -> BridgeRecord]
      /\ \A f \in Executions : f # e => bridge'[f] = bridge[f]
      /\ bridge'[e].pc = "serving" /\ bridge'[e].batch = bridge[e].batch
  BY <1>1 DEF Respond, Types, BridgeRecord, Serving
<1> QED
  BY <1>4, <1>5, <1>6, <1>7

(* A request is published.                                                 *)
LEMMA PublishFacts ==
  ASSUME Types, NEW e \in Executions, NEW c \in Calls, Publish(c, e)
  PROVE  LET d == WorkDir(e) IN
         /\ files' \in [Dirs -> DirRecord]
         /\ caller' \in [Calls -> CallerRecord]
         /\ \A g \in Dirs : g # d => files'[g] = files[g]
         /\ files'[d].requests = files[d].requests \union {c}
         /\ files'[d].responses = files[d].responses
         /\ files'[d].final = files[d].final
         /\ \A b \in Calls : b # c => caller'[b] = caller[b]
         /\ caller[c].pc = "idle" /\ caller'[c].pc = "waiting"
         /\ caller'[c].owner = e /\ caller'[c].answer = caller[c].answer
<1>1. WorkDir(e) \in Dirs
  BY DirOfExecution
<1>2. /\ files' \in [Dirs -> DirRecord]
      /\ \A g \in Dirs : g # WorkDir(e) => files'[g] = files[g]
      /\ files'[WorkDir(e)].requests = files[WorkDir(e)].requests \union {c}
      /\ files'[WorkDir(e)].responses = files[WorkDir(e)].responses
      /\ files'[WorkDir(e)].final = files[WorkDir(e)].final
  BY <1>1 DEF Types, Publish, DirRecord
<1>3. /\ caller' \in [Calls -> CallerRecord]
      /\ \A b \in Calls : b # c => caller'[b] = caller[b]
      /\ caller[c].pc = "idle" /\ caller'[c].pc = "waiting"
      /\ caller'[c].owner = e /\ caller'[c].answer = caller[c].answer
  BY DEF Types, Publish, CallerRecord
<1> QED
  BY <1>2, <1>3

(* A tool takes its response, or withdraws its request.                    *)
LEMMA ToolFacts ==
  ASSUME Types, Owners, NEW c \in Calls, CallReturns(c) \/ CallTimesOut(c)
  PROVE  LET d == WorkDir(caller[c].owner) IN
         /\ d \in Dirs
         /\ files' \in [Dirs -> DirRecord]
         /\ caller' \in [Calls -> CallerRecord]
         /\ \A g \in Dirs : g # d => files'[g] = files[g]
         /\ files'[d].requests \in {files[d].requests, files[d].requests \ {c}}
         /\ files'[d].responses \subseteq files[d].responses
         /\ files'[d].final = files[d].final
         /\ \A b \in Calls : b # c => caller'[b] = caller[b]
         /\ caller[c].pc = "waiting" /\ caller'[c].pc = "returned"
         /\ caller'[c].owner = caller[c].owner
         /\ \/ caller'[c].answer = "timeout"
            \/ \E r \in files[d].responses :
                 r.call = c /\ caller'[c].answer = r.answer
<1> DEFINE o == caller[c].owner
           d == WorkDir(o)
<1>1. caller[c].pc = "waiting" /\ o \in Executions
  BY DEF CallReturns, CallTimesOut, Owners
<1>2. d \in Dirs /\ files[d] \in DirRecord /\ caller[c] \in CallerRecord
  BY <1>1, DirOfExecution DEF Types
<1>3. CASE CallTimesOut(c)
  <2>1. /\ files' \in [Dirs -> DirRecord]
        /\ \A g \in Dirs : g # d => files'[g] = files[g]
        /\ files'[d].requests = files[d].requests \ {c}
        /\ files'[d].responses = files[d].responses
        /\ files'[d].final = files[d].final
    BY <1>2, <1>3 DEF Types, CallTimesOut, DirRecord
  <2>2. /\ caller' \in [Calls -> CallerRecord]
        /\ \A b \in Calls : b # c => caller'[b] = caller[b]
        /\ caller'[c].pc = "returned"
        /\ caller'[c].owner = caller[c].owner /\ caller'[c].answer = "timeout"
    BY <1>2, <1>3 DEF Types, CallTimesOut, CallerRecord, Answers
  <2> QED
    BY <1>1, <1>2, <2>1, <2>2
<1>4. CASE CallReturns(c)
  <2>1. PICK r \in files[d].responses :
          /\ r.call = c
          /\ caller' = [caller EXCEPT ![c].pc = "returned", ![c].answer = r.answer]
          /\ files' = [files EXCEPT ![d].responses = @ \ {r}]
    BY <1>4 DEF CallReturns
  <2>2. r.answer \in Answers
    BY <1>2, <2>1 DEF DirRecord
  <2>3. /\ files' \in [Dirs -> DirRecord]
        /\ \A g \in Dirs : g # d => files'[g] = files[g]
        /\ files'[d].requests = files[d].requests
        /\ files'[d].responses \subseteq files[d].responses
        /\ files'[d].final = files[d].final
    BY <1>2, <2>1 DEF Types, DirRecord
  <2>4. /\ caller' \in [Calls -> CallerRecord]
        /\ \A b \in Calls : b # c => caller'[b] = caller[b]
        /\ caller'[c].pc = "returned"
        /\ caller'[c].owner = caller[c].owner /\ caller'[c].answer = r.answer
    BY <1>2, <2>1, <2>2 DEF Types, CallerRecord
  <2> QED
    BY <1>1, <1>2, <2>1, <2>3, <2>4
<1> QED
  BY <1>3, <1>4

(* The bridge puts a request to the invoker.                               *)
LEMMA InvokeFacts ==
  ASSUME Types, NEW e \in Executions, bridge[e].call \in Calls, Invoke(e)
  PROVE  LET d == WorkDir(e)
             c == bridge[e].call
         IN
         /\ files' \in [Dirs -> DirRecord]
         /\ bridge' \in [Executions -> BridgeRecord]
         /\ invoked' \in [Calls -> Nat]
         /\ \A g \in Dirs : g # d => files'[g] = files[g]
         /\ files'[d].requests = files[d].requests \ {c}
         /\ files'[d].responses = files[d].responses
         /\ files'[d].final = files[d].final
         /\ \A f \in Executions : f # e => bridge'[f] = bridge[f]
         /\ bridge[e].pc = "taking" /\ bridge'[e].pc = "calling"
         /\ bridge'[e].batch = bridge[e].batch
         /\ \A b \in Calls : b # c => invoked'[b] = invoked[b]
         /\ invoked'[c] = invoked[c] + 1
         /\ caller' = caller
<1>1. WorkDir(e) \in Dirs
  BY DirOfExecution
<1>2. /\ files' \in [Dirs -> DirRecord]
      /\ \A g \in Dirs : g # WorkDir(e) => files'[g] = files[g]
      /\ files'[WorkDir(e)].requests = files[WorkDir(e)].requests \ {bridge[e].call}
      /\ files'[WorkDir(e)].responses = files[WorkDir(e)].responses
      /\ files'[WorkDir(e)].final = files[WorkDir(e)].final
  BY <1>1 DEF Types, Invoke, Remaining, DirRecord
<1>3. /\ bridge' \in [Executions -> BridgeRecord]
      /\ \A f \in Executions : f # e => bridge'[f] = bridge[f]
      /\ bridge[e].pc = "taking" /\ bridge'[e].pc = "calling"
      /\ bridge'[e].batch = bridge[e].batch
  BY DEF Types, Invoke, BridgeRecord
<1>4. /\ invoked' \in [Calls -> Nat] /\ caller' = caller
      /\ \A b \in Calls : b # bridge[e].call => invoked'[b] = invoked[b]
      /\ invoked'[bridge[e].call] = invoked[bridge[e].call] + 1
  BY DEF Types, Invoke
<1> QED
  BY <1>2, <1>3, <1>4

(* The bridge reads a request: it takes what it can read and owns.         *)
LEMMA ReadRequestFacts ==
  ASSUME Types, NEW e \in Executions, NEW c \in Calls, ReadRequest(e, c)
  PROVE  /\ bridge' \in [Executions -> BridgeRecord]
         /\ \A f \in Executions : f # e => bridge'[f] = bridge[f]
         /\ bridge[e].pc = "serving" /\ c \in bridge[e].batch
         /\ bridge'[e].pc = IF Readable(e, c) /\ caller[c].owner = e
                            THEN "taking" ELSE "refusing"
         /\ bridge'[e].batch = bridge[e].batch \ {c}
         /\ bridge'[e].call = c
         /\ files' = files /\ caller' = caller /\ invoked' = invoked
BY DEF Types, ReadRequest, BridgeRecord

(* A signal ends the waiting tools of an execution.                        *)
LEMMA KillFacts ==
  ASSUME Types, NEW e \in Executions, KillGroup(e)
  PROVE  /\ caller' \in [Calls -> CallerRecord]
         /\ \A c \in Calls :
              /\ caller'[c].owner = caller[c].owner
              /\ caller'[c].answer = caller[c].answer
              /\ \/ caller'[c].pc = caller[c].pc
                 \/ caller[c].pc = "waiting" /\ caller'[c].pc = "killed"
BY DEF Types, KillGroup, Group, CallerRecord

(* A runtime leaves its last message, or the executor writes it.           *)
LEMMA FinalFacts ==
  ASSUME Types, NEW e \in Executions,
         files' = [files EXCEPT ![WorkDir(e)].final = e]
  PROVE  /\ files' \in [Dirs -> DirRecord]
         /\ \A g \in Dirs : /\ files'[g].requests = files[g].requests
                            /\ files'[g].responses = files[g].responses
                            /\ g # WorkDir(e) => files'[g] = files[g]
         /\ files'[WorkDir(e)].final = e
BY DirOfExecution DEF Types, DirRecord

(* The workspace is removed.                                               *)
LEMMA CleanupFacts ==
  ASSUME Types, NEW e \in Executions, Cleanup(e)
  PROVE  /\ run[e].pc = "returned" /\ files' \in [Dirs -> DirRecord]
         /\ UNCHANGED <<run, proc, group, turn, bridge, caller, invoked>>
         /\ \A g \in Dirs : g # WorkDir(e) => files'[g] = files[g]
         /\ files'[WorkDir(e)].requests = {} /\ files'[WorkDir(e)].responses = {}
         /\ files'[WorkDir(e)].final = "none"
<1>1. /\ EmptyDir \in DirRecord /\ EmptyDir.requests = {}
      /\ EmptyDir.responses = {} /\ EmptyDir.final = "none"
  BY DEF EmptyDir, DirRecord
<1> QED
  BY <1>1, DirOfExecution DEF Types, Cleanup

(* The processes left behind come and go, and the pipes are closed.        *)
LEMMA GroupFacts ==
  ASSUME Types, NEW e \in Executions, Spawns(e) \/ ChildExits(e) \/ ClosePipes(e)
  PROVE  /\ UNCHANGED <<run, proc, turn, bridge, caller, files, invoked>>
         /\ group' \in [Executions -> GroupRecord]
BY DEF Types, GroupRecord, Spawns, ChildExits, ClosePipes

-----------------------------------------------------------------------------
(* What the steps do to Execute, its process and its turn.                  *)

(* Execute of e moves to p; the other executions are left alone.           *)
Moves(e, p) ==
  /\ run' \in [Executions -> RunRecord]
  /\ \A f \in Executions : f # e => run'[f] = run[f]
  /\ run'[e].pc = p

(* Execute begins, is cancelled, stops reading or drains.                  *)
LEMMA EarlyFacts ==
  ASSUME Types, NEW e \in Executions
  PROVE  /\ Execute(e) =>
              \/ Moves(e, "reading") /\ run'[e].result = run[e].result
              \/ Moves(e, "closing") /\ run'[e].result = "error"
         /\ Cancel(e) =>
              /\ Moves(e, run[e].pc)
              /\ run'[e].result = run[e].result /\ run'[e].final = run[e].final
         /\ LineTooLong(e) => Moves(e, "draining") /\ run'[e].result = "error"
         /\ Drained(e) => Moves(e, "closing") /\ run'[e].result = run[e].result
                          /\ run'[e].final = run[e].final
         /\ Close(e) => Moves(e, "returned") /\ run'[e].result = run[e].result
                        /\ run'[e].final = run[e].final
<1>1. run \in [Executions -> RunRecord]
  BY DEF Types
<1>2. ASSUME Execute(e)
      PROVE  \/ Moves(e, "reading") /\ run'[e].result = run[e].result
             \/ Moves(e, "closing") /\ run'[e].result = "error"
  BY <1>1, <1>2 DEF Execute, Moves, RunRecord
<1>3. ASSUME Cancel(e)
      PROVE  /\ Moves(e, run[e].pc)
             /\ run'[e].result = run[e].result /\ run'[e].final = run[e].final
  BY <1>1, <1>3 DEF Cancel, Moves, RunRecord
<1>4. ASSUME LineTooLong(e)
      PROVE  Moves(e, "draining") /\ run'[e].result = "error"
  BY <1>1, <1>4 DEF LineTooLong, Moves, RunRecord
<1>5. ASSUME Drained(e)
      PROVE  /\ Moves(e, "closing") /\ run'[e].result = run[e].result
             /\ run'[e].final = run[e].final
  BY <1>1, <1>5 DEF Drained, Moves, RunRecord
<1>6. ASSUME Close(e)
      PROVE  /\ Moves(e, "returned") /\ run'[e].result = run[e].result
             /\ run'[e].final = run[e].final
  BY <1>1, <1>6 DEF Close, Moves, RunRecord
<1> QED
  BY <1>2, <1>3, <1>4, <1>5, <1>6

(* codex exec is over: the status of the process and its file decide.      *)
LEMMA ReadFinalFacts ==
  ASSUME Types, NEW e \in Executions, ReadFinal(e)
  PROVE  /\ Moves(e, "closing")
         /\ run'[e].result = "success" =>
              /\ files[WorkDir(e)].final # "none"
              /\ run'[e].final = files[WorkDir(e)].final
<1> DEFINE final == files[WorkDir(e)].final
           ok == proc[e] = "exited" /\ final # "none"
           result == IF ok THEN "success" ELSE "error"
           last == IF ok THEN final ELSE "none"
<1>1. run \in [Executions -> RunRecord] /\ final \in Executions \union {"none"}
  BY DirOfExecution DEF Types, DirRecord
<1>2. run' = [run EXCEPT ![e].pc = "closing", ![e].result = result,
                         ![e].final = last]
  BY DEF ReadFinal
<1>3. /\ result \in {"success", "error"} /\ last \in Executions \union {"none"}
      /\ result = "success" => final # "none" /\ last = final
  BY <1>1
<1> HIDE DEF result, last
<1> QED
  BY <1>1, <1>2, <1>3 DEF Moves, RunRecord

(* The process of an App Server was stopped.                               *)
LEMMA StoppedFacts ==
  ASSUME Types, NEW e \in Executions, Stopped(e)
  PROVE  /\ Moves(e, "closing") /\ run'[e].final = run[e].final
         /\ run'[e].result \in {"error", run[e].result}
<1> DEFINE result == IF proc[e] = "died" /\ run[e].cancelled
                     THEN "error" ELSE run[e].result
<1>1. run \in [Executions -> RunRecord]
  BY DEF Types
<1>2. run' = [run EXCEPT ![e].pc = "closing", ![e].result = result]
  BY DEF Stopped
<1>3. result \in {"error", run[e].result}
  OBVIOUS
<1> HIDE DEF result
<1> QED
  BY <1>1, <1>2, <1>3 DEF Moves, RunRecord

(* An App Server fails or succeeds; what it said is not forgotten.         *)
TurnOver(e) ==
  /\ Moves(e, "stopping")
  /\ run'[e].result = "success" =>
       /\ run'[e].final = e
       /\ turn[e].stage = 3 /\ turn'[e].stage = 3
       /\ turn'[e].said = {"delta", "completed"}

(* What the last message of a directory may become.                        *)
FinalWritten(e) ==
  \/ files' = files
  \/ files' = [files EXCEPT ![WorkDir(e)].final = e]

(* The questions asked after the loop over the turn.                       *)
LEMMA LoopEndsFacts ==
  ASSUME Types, NEW e \in Executions, NEW said \in SUBSET {"delta", "completed"},
         LoopEnds(e, said), turn'[e].said = said, turn'[e].stage = turn[e].stage
  PROVE  TurnOver(e) /\ FinalWritten(e)
<1>1. run \in [Executions -> RunRecord]
  BY DEF Types
<1>2. CASE /\ Started(e) /\ {"delta", "completed"} \subseteq said
           /\ TurnSucceeds(e)
  <2>1. Moves(e, "stopping") /\ run'[e].final = e
    BY <1>1, <1>2 DEF TurnSucceeds, Moves, RunRecord
  <2>2. said = {"delta", "completed"} /\ turn[e].stage = 3
    BY <1>2 DEF Started
  <2>3. FinalWritten(e)
    BY <1>2 DEF TurnSucceeds, FinalWritten
  <2> QED
    BY <2>1, <2>2, <2>3 DEF TurnOver
<1>3. CASE AppServerFails(e)
  <2>1. Moves(e, "stopping") /\ run'[e].result = "error"
    BY <1>1, <1>3 DEF AppServerFails, Moves, RunRecord
  <2>2. FinalWritten(e)
    BY <1>3 DEF AppServerFails, FinalWritten
  <2> QED
    BY <2>1, <2>2 DEF TurnOver
<1> QED
  BY <1>2, <1>3 DEF LoopEnds

(* A line of an App Server.                                                *)
LEMMA ReadLineFacts ==
  ASSUME Types, NEW e \in Executions, ReadLine(e) \/ OutputEnds(e)
  PROVE  /\ turn' \in [Executions -> TurnRecord]
         /\ \A f \in Executions : f # e => turn'[f] = turn[f]
         /\ run[e].pc = "reading" /\ e \in AppServers
         /\ FinalWritten(e)
         /\ run' = run \/ TurnOver(e)
<1>1. /\ turn \in [Executions -> TurnRecord] /\ turn[e] \in TurnRecord
      /\ run \in [Executions -> RunRecord]
  BY DEF Types
<1>2. run[e].pc = "reading" /\ e \in AppServers
  BY DEF ReadLine, OutputEnds
<1>3. ASSUME AppServerFails(e)
      PROVE  TurnOver(e) /\ FinalWritten(e)
  <2>1. Moves(e, "stopping") /\ run'[e].result = "error"
    BY <1>1, <1>3 DEF AppServerFails, Moves, RunRecord
  <2> QED
    BY <1>3, <2>1 DEF AppServerFails, FinalWritten, TurnOver
<1>4. CASE OutputEnds(e)
  <2>1. turn[e].said \in SUBSET {"delta", "completed"} /\ turn' = turn
    BY <1>1, <1>4 DEF TurnRecord, OutputEnds
  <2>2. TurnOver(e) /\ FinalWritten(e)
    BY <1>4, <2>1, LoopEndsFacts DEF OutputEnds
  <2> QED
    BY <1>1, <1>2, <2>1, <2>2
<1>5. CASE ReadLine(e) /\ ReadResponse(e)
  <2>1. CASE turn' = [turn EXCEPT ![e].stage = @ + 1] /\ UNCHANGED <<run, files>>
    <3>1. turn[e].stage < 3
      BY <1>5 DEF ReadResponse
    <3> QED
      BY <1>1, <1>2, <2>1, <3>1 DEF TurnRecord, FinalWritten
  <2>2. CASE AppServerFails(e) /\ UNCHANGED turn
    BY <1>1, <1>2, <1>3, <2>2
  <2> QED
    BY <1>5, <2>1, <2>2 DEF ReadResponse
<1>6. CASE ReadLine(e) /\ ReadTurn(e)
  <2>1. CASE /\ turn' = [turn EXCEPT ![e].said = @ \union {"delta"}]
             /\ UNCHANGED <<run, files>>
    BY <1>1, <1>2, <2>1 DEF TurnRecord, FinalWritten
  <2>2. CASE /\ turn' = [turn EXCEPT ![e].said = @ \union {"completed"}]
             /\ LoopEnds(e, turn'[e].said)
    <3>1. /\ turn' \in [Executions -> TurnRecord]
          /\ \A f \in Executions : f # e => turn'[f] = turn[f]
          /\ turn'[e].stage = turn[e].stage
          /\ turn'[e].said \in SUBSET {"delta", "completed"}
      BY <1>1, <2>2 DEF TurnRecord
    <3>2. TurnOver(e) /\ FinalWritten(e)
      BY <2>2, <3>1, LoopEndsFacts
    <3> QED
      BY <1>2, <3>1, <3>2
  <2>3. CASE AppServerFails(e) /\ UNCHANGED turn
    BY <1>1, <1>2, <1>3, <2>3
  <2> QED
    BY <1>6, <2>1, <2>2, <2>3 DEF ReadTurn
<1> QED
  BY <1>4, <1>5, <1>6 DEF ReadLine

-----------------------------------------------------------------------------
(* Types.                                                                  *)

(* Every step keeps the types of the variables.                            *)
LEMMA TypesKept ==
  ASSUME Types, Owners, [Next]_vars
  PROVE  Types' /\ Owners'
<1>1. ASSUME NEW e \in Executions,
             \/ Execute(e) \/ Cancel(e) \/ LineTooLong(e) \/ Drained(e) \/ Close(e)
             \/ ReadFinal(e) \/ Stopped(e)
      PROVE  Types' /\ Owners'
  <2>1. run' \in [Executions -> RunRecord]
    BY <1>1, EarlyFacts, ReadFinalFacts, StoppedFacts DEF Moves
  <2>2. proc' \in [Executions -> ProcState]
    BY <1>1 DEF Types, ProcState, Execute, Cancel, LineTooLong, Drained, Close,
                ReadFinal, Stopped
  <2>3. bridge' \in [Executions -> BridgeRecord]
    BY <1>1 DEF Types, BridgeRecord, Execute, StartFile, Serving, Cancel,
                LineTooLong, Drained, Close, ReadFinal, Stopped
  <2>4. UNCHANGED <<group, turn, caller, files, invoked>>
    BY <1>1 DEF Execute, Cancel, LineTooLong, Drained, Close, ReadFinal, Stopped
  <2> QED
    BY <2>1, <2>2, <2>3, <2>4 DEF Types, Owners
<1>2. ASSUME NEW e \in Executions, Signal(e) \/ Kill(e)
      PROVE  Types' /\ Owners'
  <2>1. KillGroup(e) /\ UNCHANGED <<run, turn, bridge, files, invoked>>
    BY <1>2 DEF Signal, Kill
  <2>2. proc' \in [Executions -> ProcState]
    BY <1>2 DEF Types, ProcState, Signal, Kill
  <2>3. group' \in [Executions -> GroupRecord]
    BY <1>2 DEF Types, GroupRecord, Signal, Kill
  <2> QED
    BY <2>1, <2>2, <2>3, KillFacts DEF Types, Owners
<1>3. ASSUME NEW e \in Executions, ReadLine(e) \/ OutputEnds(e)
      PROVE  Types' /\ Owners'
  <2>1. UNCHANGED <<proc, group, bridge, caller, invoked>>
    BY <1>3 DEF ReadLine, OutputEnds
  <2>2. run' \in [Executions -> RunRecord]
    BY <1>3, ReadLineFacts DEF TurnOver, Moves, Types
  <2>3. files' \in [Dirs -> DirRecord]
    BY <1>3, ReadLineFacts, FinalFacts DEF FinalWritten, Types
  <2> QED
    BY <1>3, <2>1, <2>2, <2>3, ReadLineFacts DEF Types, Owners
<1>4. ASSUME NEW e \in Executions, WritesFinal(e)
      PROVE  Types' /\ Owners'
  BY <1>4, FinalFacts DEF WritesFinal, Types, Owners
<1>5. ASSUME NEW e \in Executions, Exits(e)
      PROVE  Types' /\ Owners'
  BY <1>5 DEF Exits, Types, Owners, ProcState
<1>6. ASSUME NEW e \in Executions, NEW c \in Calls, Publish(c, e)
      PROVE  Types' /\ Owners'
  <2>1. UNCHANGED <<run, proc, group, turn, bridge, invoked>>
    BY <1>6 DEF Publish
  <2> QED
    BY <1>6, <2>1, PublishFacts DEF Types, Owners
<1>7. ASSUME NEW e \in Executions, ReadDir(e) \/ ServeStops(e)
      PROVE  Types' /\ Owners'
  <2>1. bridge' \in [Executions -> BridgeRecord]
    <3>1. /\ files[WorkDir(e)].requests \in SUBSET Calls
          /\ bridge \in [Executions -> BridgeRecord]
      BY DirOfExecution DEF Types, DirRecord
    <3>2. CASE ReadDir(e)
      <4>1. Serving(files[WorkDir(e)].requests) \in BridgeRecord
        BY <3>1 DEF Serving, BridgeRecord
      <4> QED
        BY <3>1, <3>2, <4>1 DEF ReadDir
    <3>3. CASE ServeStops(e)
      BY <3>1, <3>3 DEF ServeStops, BridgeRecord
    <3> QED
      BY <1>7, <3>2, <3>3
  <2> QED
    BY <1>7, <2>1 DEF Types, Owners, ReadDir, ServeStops
<1>8. ASSUME NEW e \in Executions, NEW c \in Calls, ReadRequest(e, c)
      PROVE  Types' /\ Owners'
  <2>1. UNCHANGED <<run, proc, group, turn, caller, files, invoked>>
    BY <1>8 DEF ReadRequest
  <2> QED
    BY <1>8, <2>1, ReadRequestFacts DEF Types, Owners
<1>9. ASSUME NEW e \in Executions, Refuse(e) \/ Answer(e)
      PROVE  Types' /\ Owners'
  <2>1. UNCHANGED <<run, proc, group, turn, caller, invoked>>
    BY <1>9 DEF Refuse, Answer
  <2>2. \E answer \in Answers, requests \in SUBSET Calls :
          Respond(e, answer, requests)
    BY <1>9, DirOfExecution DEF Refuse, Answer, Remaining, Types, DirRecord, Answers
  <2> QED
    BY <2>1, <2>2, RespondFacts DEF Types, Owners
<1>10. ASSUME NEW e \in Executions, Invoke(e)
       PROVE  Types' /\ Owners'
  <2>1. UNCHANGED <<run, proc, group, turn, caller>>
    BY <1>10 DEF Invoke
  <2>2. /\ files' \in [Dirs -> DirRecord]
        /\ bridge' \in [Executions -> BridgeRecord]
    BY <1>10, DirOfExecution
       DEF Invoke, Remaining, Types, DirRecord, BridgeRecord
  <2>3. invoked' \in [Calls -> Nat]
    <3>1. invoked \in [Calls -> Nat]
      BY DEF Types
    <3>2. CASE bridge[e].call \in Calls
      BY <1>10, <3>1, <3>2 DEF Invoke
    <3>3. CASE bridge[e].call \notin Calls
      BY <1>10, <3>1, <3>3 DEF Invoke
    <3> QED
      BY <3>2, <3>3
  <2> QED
    BY <2>1, <2>2, <2>3 DEF Types, Owners
<1>11. ASSUME NEW c \in Calls, CallReturns(c) \/ CallTimesOut(c)
       PROVE  Types' /\ Owners'
  <2>1. UNCHANGED <<run, proc, group, turn, bridge, invoked>>
    BY <1>11 DEF CallReturns, CallTimesOut
  <2> QED
    BY <1>11, <2>1, ToolFacts DEF Types, Owners
<1>12. ASSUME NEW e \in Executions,
              Spawns(e) \/ ChildExits(e) \/ ClosePipes(e) \/ Cleanup(e)
       PROVE  Types' /\ Owners'
  BY <1>12, GroupFacts, CleanupFacts DEF Types, Owners
<1>13. UNCHANGED vars => Types' /\ Owners'
  BY DEF Types, Owners, vars
<1> QED
  BY <1>1, <1>2, <1>3, <1>4, <1>5, <1>6, <1>7, <1>8, <1>9, <1>10, <1>11, <1>12,
     <1>13
     DEF Next, ExecuteStep, RuntimeStep, ServeStep

-----------------------------------------------------------------------------
(* Nothing outlives Execute.                                               *)

(* A process lives only while Execute reads, drains or stops it, and the   *)
(* bridge serves from its start until Execute returns.                     *)
Supervised(e) ==
  /\ run[e].pc = "idle" => proc[e] = "none" /\ bridge[e].pc = "off"
  /\ Alive(e) => run[e].pc \in {"reading", "draining", "stopping"}
  /\ run[e].pc = "returned" => bridge[e].pc = "off"

Quiet == \A e \in Executions : Supervised(e)

(* A step of one execution leaves the others supervised.                   *)
LEMMA OthersSupervised ==
  ASSUME Quiet, NEW e \in Executions,
         \A f \in Executions :
           f # e => /\ run'[f] = run[f] /\ proc'[f] = proc[f]
                    /\ bridge'[f] = bridge[f],
         Supervised(e)'
  PROVE  Quiet'
BY DEF Quiet, Supervised, Alive

(* Every step keeps executions supervised.                                 *)
LEMMA QuietKept ==
  ASSUME Types, Owners, Quiet, [Next]_vars
  PROVE  Quiet'
<1>1. /\ run \in [Executions -> RunRecord] /\ proc \in [Executions -> ProcState]
      /\ bridge \in [Executions -> BridgeRecord]
  BY DEF Types
<1>2. ASSUME NEW e \in Executions, Execute(e)
      PROVE  Quiet'
  <2>1. /\ Moves(e, "reading") \/ (Moves(e, "closing") /\ proc' = proc)
        /\ \A f \in Executions :
             f # e => proc'[f] = proc[f] /\ bridge'[f] = bridge[f]
        /\ proc[e] = "none"
    <3>1. run[e].pc = "idle" /\ proc[e] = "none"
      BY <1>2 DEF Execute, Quiet, Supervised
    <3>2. \A f \in Executions :
            f # e => proc'[f] = proc[f] /\ bridge'[f] = bridge[f]
      BY <1>1, <1>2 DEF Execute, StartFile
    <3>3. CASE /\ run' = [run EXCEPT ![e].pc = "reading"]
               /\ proc' = [proc EXCEPT ![e] = "running"]
      <4>1. Moves(e, "reading")
        BY <1>1, <3>3 DEF Moves, RunRecord
      <4> QED
        BY <3>1, <3>2, <4>1
    <3>4. CASE /\ run' = [run EXCEPT ![e].pc = "closing", ![e].result = "error"]
               /\ UNCHANGED proc
      <4>1. Moves(e, "closing")
        BY <1>1, <3>4 DEF Moves, RunRecord
      <4> QED
        BY <3>1, <3>2, <3>4, <4>1
    <3> QED
      BY <1>2, <3>3, <3>4 DEF Execute
  <2> QED
    BY <2>1, OthersSupervised DEF Moves, Supervised, Alive
<1>3. ASSUME NEW e \in Executions,
             \/ Cancel(e) \/ LineTooLong(e) \/ Drained(e) \/ ReadFinal(e)
             \/ Stopped(e) \/ Close(e)
      PROVE  Quiet'
  <2>1. UNCHANGED <<proc, bridge>>
    BY <1>3 DEF Cancel, LineTooLong, Drained, ReadFinal, Stopped, Close
  <2>2. /\ \A f \in Executions : f # e => run'[f] = run[f]
        /\ run[e].pc \in {"reading", "draining", "stopping", "closing"}
        /\ \/ run'[e].pc \in {"reading", "draining", "stopping"}
           \/ run'[e].pc = "closing" /\ Ended(e)
           \/ run'[e].pc = "returned" /\ run[e].pc = "closing"
                /\ bridge[e].pc = "off"
    BY <1>3, EarlyFacts, ReadFinalFacts, StoppedFacts
       DEF Moves, Cancel, LineTooLong, Drained, ReadFinal, Stopped, Close, EndOfOutput
  <2>3. Supervised(e)
    BY DEF Quiet
  <2> QED
    BY <2>1, <2>2, <2>3, OthersSupervised DEF Supervised, Alive, Ended
<1>4. ASSUME NEW e \in Executions, Signal(e) \/ Kill(e) \/ Exits(e)
      PROVE  Quiet'
  <2>1. /\ UNCHANGED <<run, bridge>>
        /\ \A f \in Executions : f # e => proc'[f] = proc[f]
        /\ Alive(e)' => Alive(e)
        /\ run[e].pc = "idle" => proc'[e] = proc[e] \/ Alive(e)
    BY <1>1, <1>4 DEF Signal, Kill, Exits, Alive, ProcState
  <2>2. Supervised(e)
    BY DEF Quiet
  <2> QED
    BY <2>1, <2>2, OthersSupervised DEF Supervised, Alive
<1>5. ASSUME NEW e \in Executions, ReadLine(e) \/ OutputEnds(e)
      PROVE  Quiet'
  <2>1. UNCHANGED <<proc, bridge>>
    BY <1>5 DEF ReadLine, OutputEnds
  <2>2. /\ \A f \in Executions : f # e => run'[f] = run[f]
        /\ run[e].pc = "reading" /\ run'[e].pc \in {"reading", "stopping"}
    BY <1>5, ReadLineFacts DEF TurnOver, Moves
  <2>3. Supervised(e)
    BY DEF Quiet
  <2> QED
    BY <2>1, <2>2, <2>3, OthersSupervised DEF Supervised, Alive
<1>6. ASSUME NEW e \in Executions, ServeStep(e) \/ Answer(e) \/ ServeStops(e)
      PROVE  Quiet'
  <2>1. UNCHANGED <<run, proc>>
    BY <1>6 DEF ServeStep, ReadDir, ReadRequest, Refuse, Invoke, Answer, ServeStops
  <2>2. bridge[e].pc # "off"
    BY <1>6 DEF ServeStep, ReadDir, ReadRequest, Refuse, Invoke, Answer, ServeStops,
                Select
  <2>3. \A f \in Executions : f # e => bridge'[f] = bridge[f]
    BY <1>1, <1>6 DEF ServeStep, ReadDir, ReadRequest, Refuse, Invoke, Answer,
                      ServeStops, Respond
  <2>4. Supervised(e)
    BY DEF Quiet
  <2> QED
    BY <2>1, <2>2, <2>3, <2>4, OthersSupervised DEF Supervised, Alive
<1>7. UNCHANGED <<run, proc, bridge>> => Quiet'
  BY DEF Quiet, Supervised, Alive
<1> QED
  BY <1>2, <1>3, <1>4, <1>5, <1>6, <1>7
     DEF Next, ExecuteStep, RuntimeStep, WritesFinal, Publish, CallReturns,
         CallTimesOut, Spawns, ChildExits, ClosePipes, Cleanup, vars

-----------------------------------------------------------------------------
(* A request is put to the invoker at most once.                           *)

(* A request that is still in a mailbox, or in the hands of the bridge that *)
(* took it, was not put to the invoker.                                    *)
Fresh(c) ==
  /\ \A d \in Dirs :
       c \in files[d].requests =>
         /\ caller[c].pc # "idle" /\ d = WorkDir(caller[c].owner)
         /\ invoked[c] = 0
  /\ \A e \in Executions :
       bridge[e].pc = "taking" /\ bridge[e].call = c =>
         caller[c].pc # "idle" /\ caller[c].owner = e /\ invoked[c] = 0
  /\ caller[c].pc = "idle" => invoked[c] = 0
  /\ invoked[c] <= 1

Once ==
  /\ \A c \in Calls : Fresh(c)
  /\ \A e \in Executions : bridge[e].pc = "taking" => bridge[e].call \in Calls

(* A step that publishes nothing, takes nothing and invokes nothing keeps  *)
(* Once.                                                                   *)
LEMMA NothingTaken ==
  ASSUME Once, invoked' = invoked,
         \A d \in Dirs : files'[d].requests \subseteq files[d].requests,
         \A c \in Calls : /\ caller'[c].owner = caller[c].owner
                          /\ caller'[c].pc = "idle" <=> caller[c].pc = "idle",
         \A e \in Executions :
           bridge'[e].pc = "taking" =>
             bridge[e].pc = "taking" /\ bridge'[e].call = bridge[e].call
  PROVE  Once'
BY DEF Once, Fresh

(* Every step keeps Once.                                                  *)
LEMMA OnceKept ==
  ASSUME Types, Owners, Once, [Next]_vars
  PROVE  Once'
<1>1. bridge \in [Executions -> BridgeRecord]
  BY DEF Types
<1>2. ASSUME NEW e \in Executions, Signal(e) \/ Kill(e)
      PROVE  Once'
  <2>1. KillGroup(e) /\ UNCHANGED <<bridge, files, invoked>>
    BY <1>2 DEF Signal, Kill
  <2> QED
    BY <2>1, KillFacts, NothingTaken
<1>3. ASSUME NEW e \in Executions, ReadLine(e) \/ OutputEnds(e) \/ WritesFinal(e)
      PROVE  Once'
  <2>1. UNCHANGED <<bridge, caller, invoked>>
    BY <1>3 DEF ReadLine, OutputEnds, WritesFinal
  <2>2. \A d \in Dirs : files'[d].requests = files[d].requests
    BY <1>3, ReadLineFacts, FinalFacts DEF WritesFinal, FinalWritten
  <2> QED
    BY <2>1, <2>2, NothingTaken
<1>4. ASSUME NEW e \in Executions, Execute(e) \/ ReadDir(e) \/ ServeStops(e)
      PROVE  Once'
  <2>1. UNCHANGED <<files, caller, invoked>>
    BY <1>4 DEF Execute, ReadDir, ServeStops
  <2>2. /\ \A f \in Executions : f # e => bridge'[f] = bridge[f]
        /\ bridge'[e].pc # "taking"
    BY <1>1, <1>4 DEF Execute, ReadDir, ServeStops, StartFile, Serving, BridgeRecord
  <2> QED
    BY <2>1, <2>2, NothingTaken
<1>5. ASSUME NEW e \in Executions, Refuse(e) \/ Answer(e)
      PROVE  Once'
  <2>1. UNCHANGED <<caller, invoked>>
    BY <1>5 DEF Refuse, Answer
  <2>2. PICK answer \in Answers, requests \in SUBSET files[WorkDir(e)].requests :
          Respond(e, answer, requests)
    BY <1>5 DEF Refuse, Answer, Remaining, Answers
  <2>3. requests \in SUBSET Calls
    BY <2>2, DirOfExecution DEF Types, DirRecord
  <2>4. /\ \A d \in Dirs : files'[d].requests \subseteq files[d].requests
        /\ \A f \in Executions : f # e => bridge'[f] = bridge[f]
        /\ bridge'[e].pc = "serving"
    BY <2>2, <2>3, RespondFacts
  <2> QED
    BY <2>1, <2>4, NothingTaken
<1>6. ASSUME NEW c \in Calls, CallReturns(c) \/ CallTimesOut(c)
      PROVE  Once'
  <2>1. UNCHANGED <<bridge, invoked>>
    BY <1>6 DEF CallReturns, CallTimesOut
  <2>2. /\ \A d \in Dirs : files'[d].requests \subseteq files[d].requests
        /\ \A b \in Calls : /\ caller'[b].owner = caller[b].owner
                            /\ caller'[b].pc = "idle" <=> caller[b].pc = "idle"
    BY <1>6, ToolFacts
  <2> QED
    BY <2>1, <2>2, NothingTaken
<1>7. ASSUME NEW e \in Executions, NEW c \in Calls, Publish(c, e)
      PROVE  Once'
  <2>1. UNCHANGED <<bridge, invoked>>
    BY <1>7 DEF Publish
  <2>2. /\ \A d \in Dirs : \A b \in Calls :
             b \in files'[d].requests =>
               b \in files[d].requests \/ (b = c /\ d = WorkDir(e))
        /\ \A b \in Calls : b # c => caller'[b] = caller[b]
        /\ caller[c].pc = "idle" /\ caller'[c].pc = "waiting"
        /\ caller'[c].owner = e
    BY <1>7, PublishFacts
  <2>3. ASSUME NEW b \in Calls PROVE Fresh(b)'
    <3>1. CASE b # c
      BY <2>1, <2>2, <3>1 DEF Once, Fresh
    <3>2. CASE b = c
      <4>1. Fresh(c)
        BY DEF Once
      <4>2. /\ invoked[c] = 0
            /\ \A d \in Dirs : c \notin files[d].requests
            /\ \A f \in Executions :
                 ~(bridge[f].pc = "taking" /\ bridge[f].call = c)
        BY <2>2, <4>1 DEF Fresh
      <4> QED
        BY <2>1, <2>2, <3>2, <4>2 DEF Fresh
    <3> QED
      BY <3>1, <3>2
  <2> QED
    BY <2>1, <2>3 DEF Once
<1>8. ASSUME NEW e \in Executions, NEW c \in Calls, ReadRequest(e, c)
      PROVE  Once'
  <2>1. /\ files' = files /\ caller' = caller /\ invoked' = invoked
        /\ \A f \in Executions : f # e => bridge'[f] = bridge[f]
        /\ bridge'[e].call = c
        /\ bridge'[e].pc = "taking" => Readable(e, c) /\ caller[c].owner = e
    BY <1>8, ReadRequestFacts
  <2>2. WorkDir(e) \in Dirs
    BY DirOfExecution
  <2>3. bridge'[e].pc = "taking" =>
          caller[c].pc # "idle" /\ caller[c].owner = e /\ invoked[c] = 0
    BY <2>1, <2>2 DEF Once, Fresh, Readable
  <2> QED
    BY <2>1, <2>3 DEF Once, Fresh
<1>9. ASSUME NEW e \in Executions, Invoke(e)
      PROVE  Once'
  <2> DEFINE c == bridge[e].call
  <2>1. bridge[e].pc = "taking" /\ c \in Calls
    BY <1>9 DEF Invoke, Once
  <2>2. /\ caller[c].pc # "idle" /\ caller[c].owner = e /\ invoked[c] = 0
    BY <2>1 DEF Once, Fresh
  <2>3. /\ \A g \in Dirs : g # WorkDir(e) => files'[g] = files[g]
        /\ files'[WorkDir(e)].requests = files[WorkDir(e)].requests \ {c}
        /\ \A f \in Executions : f # e => bridge'[f] = bridge[f]
        /\ bridge'[e].pc = "calling"
        /\ \A b \in Calls : b # c => invoked'[b] = invoked[b]
        /\ invoked'[c] = invoked[c] + 1 /\ caller' = caller
    BY <1>9, <2>1, InvokeFacts
  <2> HIDE DEF c
  <2>4. ASSUME NEW b \in Calls PROVE Fresh(b)'
    <3>1. Fresh(b)
      BY DEF Once
    <3>2. CASE b # c
      BY <2>3, <3>1, <3>2 DEF Fresh
    <3>3. CASE b = c
      <4>1. \A d \in Dirs : c \notin files'[d].requests
        BY <2>2, <2>3, <3>1, <3>3 DEF Fresh
      <4>2. \A f \in Executions : ~(bridge'[f].pc = "taking" /\ bridge'[f].call = c)
        BY <2>2, <2>3, <3>1, <3>3 DEF Fresh
      <4> QED
        BY <2>2, <2>3, <3>3, <4>1, <4>2 DEF Fresh
    <3> QED
      BY <3>2, <3>3
  <2> QED
    BY <2>3, <2>4 DEF Once
<1>10. ASSUME NEW e \in Executions, Cleanup(e)
       PROVE  Once'
  <2>1. \A d \in Dirs : files'[d].requests \subseteq files[d].requests
    BY <1>10, CleanupFacts
  <2> QED
    BY <1>10, <2>1, CleanupFacts, NothingTaken
<1>11. UNCHANGED <<bridge, files, caller, invoked>> => Once'
  BY NothingTaken
<1> QED
  BY <1>2, <1>3, <1>4, <1>5, <1>6, <1>7, <1>8, <1>9, <1>10, <1>11
     DEF Next, ExecuteStep, RuntimeStep, ServeStep, Cancel, ReadFinal, Drained,
         Stopped, Close, LineTooLong, Exits, Spawns, ChildExits, ClosePipes, vars

-----------------------------------------------------------------------------
(* The mailbox of an Attempt with a directory of its own is private.       *)

(* The tool that made the call has ended.                                  *)
Gone(c) == caller[c].pc \in {"returned", "killed"}

(* What the bridge means to look at is there, unless its tool has ended,    *)
(* and only tools that have ended are refused.  A bridge that is off means *)
(* to look at nothing, so that its directory may be removed.               *)
Mailbox(e) ==
  /\ \A c \in bridge[e].batch : Gone(c) \/ c \in files[WorkDir(e)].requests
  /\ bridge[e].pc = "off" => bridge[e].batch = {}
  /\ bridge[e].pc = "refusing" => bridge[e].call \in Calls /\ Gone(bridge[e].call)
  /\ bridge[e].pc \in {"taking", "refusing"} => bridge[e].call \notin bridge[e].batch
  /\ \A r \in files[WorkDir(e)].responses :
       r.answer = "refused" => r.call \in Calls /\ Gone(r.call)

Private == MailboxIsPrivate /\ \A e \in Executions : Mailbox(e)

(* A tool that has ended does not come back.                               *)
LEMMA GoneForGood ==
  ASSUME Types, Owners, [Next]_vars
  PROVE  \A c \in Calls : Gone(c) => Gone(c)'
<1>1. ASSUME NEW e \in Executions, Signal(e) \/ Kill(e)
      PROVE  \A c \in Calls : Gone(c) => Gone(c)'
  BY <1>1, KillFacts DEF Signal, Kill, Gone
<1>2. ASSUME NEW e \in Executions, NEW c \in Calls, Publish(c, e)
      PROVE  \A b \in Calls : Gone(b) => Gone(b)'
  BY <1>2, PublishFacts DEF Gone
<1>3. ASSUME NEW c \in Calls, CallReturns(c) \/ CallTimesOut(c)
      PROVE  \A b \in Calls : Gone(b) => Gone(b)'
  BY <1>3, ToolFacts DEF Gone
<1>4. UNCHANGED caller => \A c \in Calls : Gone(c) => Gone(c)'
  BY DEF Gone
<1> QED
  BY <1>1, <1>2, <1>3, <1>4
     DEF Next, ExecuteStep, RuntimeStep, ServeStep, Execute, Cancel, ReadFinal,
         Drained, OutputEnds, Stopped, Close, ReadLine, LineTooLong, WritesFinal,
         Exits, Spawns, ChildExits, ClosePipes, Cleanup, ReadDir, ReadRequest,
         Refuse, Invoke, Answer, ServeStops, vars

(* A mailbox whose bridge does nothing.                                    *)
LEMMA MailboxLeft ==
  ASSUME Types, NEW e \in Executions, Mailbox(e), bridge'[e] = bridge[e],
         \A c \in Calls : Gone(c) => Gone(c)',
         \A c \in files[WorkDir(e)].requests :
           c \in files'[WorkDir(e)].requests \/ Gone(c)',
         files'[WorkDir(e)].responses \subseteq files[WorkDir(e)].responses
  PROVE  Mailbox(e)'
<1>1. bridge[e].batch \subseteq Calls
  BY DEF Types, BridgeRecord
<1> QED
  BY <1>1 DEF Mailbox, Gone

(* The steps of the bridge.                                                *)
LEMMA MailboxServed ==
  ASSUME Workspace \in {"temp", "git"}, Types, Owners, Once, Private,
         \A c \in Calls : Gone(c) => Gone(c)',
         NEW e \in Executions,
         Execute(e) \/ ServeStep(e) \/ Answer(e) \/ ServeStops(e)
  PROVE  Private'
<1> DEFINE d == WorkDir(e)
<1>1. /\ bridge \in [Executions -> BridgeRecord] /\ d \in Dirs
      /\ files[d] \in DirRecord /\ bridge[e] \in BridgeRecord /\ Mailbox(e)
  BY DirOfExecution DEF Types, Private
<1>2. caller' = caller
  BY DEF Execute, ServeStep, ServeStops, ReadDir, ReadRequest, Refuse, Invoke, Answer
<1>3. MailboxIsPrivate'
  BY <1>2 DEF Private, MailboxIsPrivate
<1>4. ASSUME \A g \in Dirs : g # d => files'[g] = files[g],
             \A f \in Executions : f # e => bridge'[f] = bridge[f],
             Mailbox(e)'
      PROVE  Private'
  <2>1. ASSUME NEW f \in Executions, f # e PROVE Mailbox(f)'
    <3>1. WorkDir(f) \in Dirs /\ WorkDir(f) # d
      BY <2>1, DirOfExecution, OwnDirectory
    <3> QED
      BY <1>4, <2>1, <3>1, MailboxLeft DEF Private
  <2> QED
    BY <1>3, <1>4, <2>1 DEF Private
<1>5. CASE Execute(e) \/ ReadDir(e) \/ ServeStops(e)
  <2>1. files' = files
    BY <1>5 DEF Execute, ReadDir, ServeStops
  <2>2. /\ \A f \in Executions : f # e => bridge'[f] = bridge[f]
        /\ bridge'[e].pc \in {"serving", "off"}
        /\ bridge'[e].batch \subseteq files[d].requests
        /\ bridge'[e].pc = "off" => bridge'[e].batch = {}
    <3>1. CASE Execute(e)
      BY <1>1, <3>1 DEF Execute, StartFile, Serving
    <3>2. CASE ReadDir(e)
      BY <1>1, <3>2 DEF ReadDir, Serving
    <3>3. CASE ServeStops(e)
      BY <1>1, <3>3 DEF ServeStops, Select, BridgeRecord
    <3> QED
      BY <1>5, <3>1, <3>2, <3>3
  <2>3. Mailbox(e)'
    BY <1>1, <1>2, <2>1, <2>2 DEF Mailbox, Gone
  <2> QED
    BY <1>4, <2>1, <2>2, <2>3
<1>6. ASSUME NEW c \in Calls, ReadRequest(e, c) PROVE Private'
  <2>1. /\ files' = files
        /\ \A f \in Executions : f # e => bridge'[f] = bridge[f]
        /\ c \in bridge[e].batch
        /\ bridge'[e].pc = IF Readable(e, c) /\ caller[c].owner = e
                           THEN "taking" ELSE "refusing"
        /\ bridge'[e].batch = bridge[e].batch \ {c}
        /\ bridge'[e].call = c
    BY <1>6, ReadRequestFacts
  <2>2. ~Gone(c) => Readable(e, c) /\ caller[c].owner = e
    <3> SUFFICES ASSUME ~Gone(c) PROVE Readable(e, c) /\ caller[c].owner = e
      OBVIOUS
    <3>1. c \in files[d].requests
      BY <1>1, <2>1 DEF Mailbox
    <3>2. caller[c].pc # "idle" /\ d = WorkDir(caller[c].owner)
      BY <1>1, <3>1 DEF Once, Fresh
    <3>3. caller[c].owner \in Executions
      BY <3>2 DEF Owners
    <3> QED
      BY <3>1, <3>2, <3>3, OwnDirectory DEF Readable
  <2>3. Mailbox(e)'
    BY <1>1, <1>2, <2>1, <2>2 DEF Mailbox, Gone
  <2> QED
    BY <1>4, <2>1, <2>3
<1>7. CASE Refuse(e)
  <2> DEFINE c == bridge[e].call
  <2>1. /\ bridge[e].pc = "refusing" /\ Respond(e, "refused", Remaining(e))
        /\ Remaining(e) = files[d].requests \ {c}
    BY <1>7 DEF Refuse, Remaining
  <2>2. Remaining(e) \in SUBSET Calls /\ "refused" \in Answers
    BY <1>1, <2>1 DEF DirRecord, Answers
  <2>3. c \in Calls /\ Gone(c) /\ c \notin bridge[e].batch
    BY <1>1, <2>1 DEF Mailbox
  <2> HIDE DEF c
  <2>4. /\ \A g \in Dirs : g # d => files'[g] = files[g]
        /\ files'[d].requests = files[d].requests \ {c}
        /\ \A r \in files'[d].responses : r \in files[d].responses \/ r.call = c
        /\ \A f \in Executions : f # e => bridge'[f] = bridge[f]
        /\ bridge'[e].pc = "serving" /\ bridge'[e].batch = bridge[e].batch
    BY <2>1, <2>2, RespondFacts DEF c
  <2>5. Mailbox(e)'
    BY <1>1, <1>2, <2>3, <2>4 DEF Mailbox, Gone
  <2> QED
    BY <1>4, <2>4, <2>5
<1>8. CASE Answer(e)
  <2>1. PICK answer \in {"result", "error"} : Respond(e, answer, files[d].requests)
    BY <1>8 DEF Answer
  <2>2. files[d].requests \in SUBSET Calls /\ answer \in Answers
    BY <1>1, <2>1 DEF DirRecord, Answers
  <2>3. /\ \A g \in Dirs : g # d => files'[g] = files[g]
        /\ files'[d].requests = files[d].requests
        /\ \A r \in files'[d].responses :
             r \in files[d].responses \/ r.answer = answer
        /\ \A f \in Executions : f # e => bridge'[f] = bridge[f]
        /\ bridge'[e].pc = "serving" /\ bridge'[e].batch = bridge[e].batch
    BY <2>1, <2>2, RespondFacts
  <2>4. Mailbox(e)'
    BY <1>1, <1>2, <2>1, <2>3 DEF Mailbox, Gone
  <2> QED
    BY <1>4, <2>3, <2>4
<1>9. CASE Invoke(e)
  <2> DEFINE c == bridge[e].call
  <2>1. bridge[e].pc = "taking" /\ c \in Calls
    BY <1>9 DEF Invoke, Once
  <2>2. c \notin bridge[e].batch
    BY <1>1, <2>1 DEF Mailbox
  <2>3. /\ \A g \in Dirs : g # d => files'[g] = files[g]
        /\ files'[d].requests = files[d].requests \ {c}
        /\ files'[d].responses = files[d].responses
        /\ \A f \in Executions : f # e => bridge'[f] = bridge[f]
        /\ bridge'[e].pc = "calling" /\ bridge'[e].batch = bridge[e].batch
    BY <1>9, <2>1, InvokeFacts
  <2> HIDE DEF c
  <2>4. Mailbox(e)'
    BY <1>1, <1>2, <2>2, <2>3 DEF Mailbox, Gone
  <2> QED
    BY <1>4, <2>3, <2>4
<1> QED
  BY <1>5, <1>6, <1>7, <1>8, <1>9 DEF ServeStep

(* The steps of the tools.                                                 *)
LEMMA MailboxUsed ==
  ASSUME Workspace \in {"temp", "git"}, Types, Owners, Private,
         \A b \in Calls : Gone(b) => Gone(b)',
         NEW c \in Calls,
         \/ \E e \in Executions : Publish(c, e)
         \/ CallReturns(c) \/ CallTimesOut(c)
  PROVE  Private'
<1>1. \A f \in Executions : Mailbox(f) /\ WorkDir(f) \in Dirs
  BY DirOfExecution DEF Private
<1>2. bridge' = bridge
  BY DEF Publish, CallReturns, CallTimesOut
<1>3. /\ \A g \in Dirs :
           /\ \A b \in files[g].requests : b \in files'[g].requests \/ Gone(b)'
           /\ files'[g].responses \subseteq files[g].responses
  BY PublishFacts, ToolFacts DEF Gone
<1>4. \A f \in Executions : Mailbox(f)'
  BY <1>1, <1>2, <1>3, MailboxLeft
<1>5. CASE \E e \in Executions : Publish(c, e)
  <2>1. MailboxIsPrivate'
    BY <1>5, PublishFacts DEF Private, MailboxIsPrivate
  <2> QED
    BY <1>4, <2>1 DEF Private
<1>6. CASE CallReturns(c) \/ CallTimesOut(c)
  <2> DEFINE o == caller[c].owner
  <2>1. /\ caller[c].pc = "waiting"
        /\ \A b \in Calls : b # c => caller'[b] = caller[b]
        /\ \/ caller'[c].answer = "timeout"
           \/ \E r \in files[WorkDir(o)].responses :
                r.call = c /\ caller'[c].answer = r.answer
    BY <1>6, ToolFacts
  <2>2. o \in Executions /\ ~Gone(c)
    BY <2>1 DEF Owners, Gone
  <2>3. \A r \in files[WorkDir(o)].responses : r.call = c => r.answer # "refused"
    BY <1>1, <2>2 DEF Mailbox
  <2>4. MailboxIsPrivate'
    BY <2>1, <2>3 DEF Private, MailboxIsPrivate
  <2> QED
    BY <1>4, <2>4 DEF Private
<1> QED
  BY <1>5, <1>6

(* Every step keeps mailboxes private.                                     *)
LEMMA PrivateKept ==
  ASSUME Workspace \in {"temp", "git"}, Types, Owners, Quiet, Once, Private,
         [Next]_vars
  PROVE  Private'
<1>1. \A c \in Calls : Gone(c) => Gone(c)'
  BY GoneForGood
<1>2. ASSUME bridge' = bridge,
             \A c \in Calls : caller'[c].answer = caller[c].answer,
             \A d \in Dirs : /\ files'[d].requests = files[d].requests
                             /\ files'[d].responses = files[d].responses
      PROVE  Private'
  BY <1>1, <1>2, MailboxLeft, DirOfExecution DEF Private, MailboxIsPrivate
<1>3. ASSUME NEW e \in Executions, Signal(e) \/ Kill(e)
      PROVE  Private'
  <2>1. KillGroup(e) /\ UNCHANGED <<bridge, files>>
    BY <1>3 DEF Signal, Kill
  <2> QED
    BY <1>2, <2>1, KillFacts
<1>4. ASSUME NEW e \in Executions, ReadLine(e) \/ OutputEnds(e) \/ WritesFinal(e)
      PROVE  Private'
  <2>1. UNCHANGED <<bridge, caller>>
    BY <1>4 DEF ReadLine, OutputEnds, WritesFinal
  <2>2. FinalWritten(e)
    BY <1>4, ReadLineFacts DEF WritesFinal, FinalWritten
  <2> QED
    BY <1>2, <2>1, <2>2, FinalFacts DEF FinalWritten
<1>5. ASSUME NEW e \in Executions, Cleanup(e)
      PROVE  Private'
  <2>1. bridge[e].pc = "off" /\ UNCHANGED <<bridge, caller>>
    BY <1>5, CleanupFacts DEF Quiet, Supervised
  <2>2. Mailbox(e)'
    BY <1>5, <2>1, CleanupFacts DEF Private, Mailbox
  <2>3. ASSUME NEW f \in Executions, f # e PROVE Mailbox(f)'
    <3>1. WorkDir(f) \in Dirs /\ WorkDir(f) # WorkDir(e)
      BY <2>3, DirOfExecution, OwnDirectory
    <3> QED
      BY <1>1, <1>5, <2>1, <3>1, CleanupFacts, MailboxLeft DEF Private
  <2> QED
    BY <2>1, <2>2, <2>3 DEF Private, MailboxIsPrivate
<1>6. UNCHANGED <<bridge, caller, files>> => Private'
  BY <1>2
<1> QED
  BY <1>1, <1>3, <1>4, <1>5, <1>6, MailboxServed, MailboxUsed
     DEF Next, ExecuteStep, RuntimeStep, Cancel, ReadFinal, Drained, Stopped,
         Close, LineTooLong, Exits, Spawns, ChildExits, ClosePipes, vars

-----------------------------------------------------------------------------
(* A success is earned.                                                    *)

(* Nothing is a success before it is over, and the last message in the     *)
(* directory of an execution is its own.                                   *)
EarnedBy(e) ==
  /\ run[e].pc \in {"idle", "reading"} => run[e].result # "success"
  /\ run[e].result = "success" =>
       /\ run[e].final = e
       /\ e \in AppServers =>
            turn[e].stage = 3 /\ turn[e].said = {"delta", "completed"}
  /\ files[WorkDir(e)].final \in {"none", e}

Earned == \A e \in Executions : EarnedBy(e)

(* A step of one execution that writes no message but its own leaves the   *)
(* others as they are.                                                     *)
LEMMA OthersEarned ==
  ASSUME Workspace \in {"temp", "git"}, Types, Earned, NEW e \in Executions,
         \A f \in Executions : f # e => run'[f] = run[f] /\ turn'[f] = turn[f],
         FinalWritten(e),
         /\ run'[e].pc \in {"idle", "reading"} => run'[e].result # "success"
         /\ run'[e].result = "success" =>
              /\ run'[e].final = e
              /\ e \in AppServers =>
                   turn'[e].stage = 3 /\ turn'[e].said = {"delta", "completed"}
  PROVE  Earned'
<1>1. files'[WorkDir(e)].final \in {"none", e}
  BY FinalFacts DEF FinalWritten, Earned, EarnedBy
<1>2. ASSUME NEW f \in Executions, f # e PROVE EarnedBy(f)'
  <2>1. WorkDir(f) \in Dirs /\ WorkDir(f) # WorkDir(e)
    BY <1>2, DirOfExecution, OwnDirectory
  <2>2. files'[WorkDir(f)] = files[WorkDir(f)]
    BY <2>1, FinalFacts DEF FinalWritten
  <2> QED
    BY <1>2, <2>2 DEF Earned, EarnedBy
<1> QED
  BY <1>1, <1>2 DEF Earned, EarnedBy

(* Every step keeps successes earned.                                      *)
LEMMA EarnedKept ==
  ASSUME Workspace \in {"temp", "git"}, Types, Owners, Earned, [Next]_vars
  PROVE  Earned'
<1>1. ASSUME NEW e \in Executions,
             \/ Execute(e) \/ Cancel(e) \/ LineTooLong(e) \/ Drained(e) \/ Close(e)
             \/ ReadFinal(e) \/ Stopped(e)
      PROVE  Earned'
  <2>1. UNCHANGED <<turn, files>> /\ EarnedBy(e)
    BY <1>1 DEF Execute, Cancel, LineTooLong, Drained, Close, ReadFinal, Stopped,
                Earned
  <2>2. \A f \in Executions : f # e => run'[f] = run[f]
    BY <1>1, EarlyFacts, ReadFinalFacts, StoppedFacts DEF Moves
  <2>3. ReadFinal(e) => e \notin AppServers
    BY DEF ReadFinal
  <2>4. run[e].pc = "idle" => run[e].result # "success"
    BY <2>1 DEF EarnedBy
  <2>5. /\ run'[e].pc \in {"idle", "reading"} => run'[e].result # "success"
        /\ run'[e].result = "success" =>
             /\ run'[e].final = e
             /\ e \in AppServers =>
                  turn[e].stage = 3 /\ turn[e].said = {"delta", "completed"}
    <3>1. CASE Execute(e)
      BY <2>4, <3>1, EarlyFacts DEF Moves, Execute
    <3>2. CASE Cancel(e)
      BY <2>1, <3>2, EarlyFacts DEF Moves, EarnedBy
    <3>3. CASE LineTooLong(e)
      BY <3>3, EarlyFacts DEF Moves
    <3>4. CASE Drained(e) \/ Close(e)
      BY <2>1, <3>4, EarlyFacts DEF Moves, EarnedBy
    <3>5. CASE ReadFinal(e)
      BY <2>1, <2>3, <3>5, ReadFinalFacts DEF Moves, EarnedBy
    <3>6. CASE Stopped(e)
      BY <2>1, <3>6, StoppedFacts DEF Moves, EarnedBy
    <3> QED
      BY <1>1, <3>1, <3>2, <3>3, <3>4, <3>5, <3>6
  <2> QED
    BY <2>1, <2>2, <2>5, OthersEarned DEF FinalWritten
<1>2. ASSUME NEW e \in Executions, ReadLine(e) \/ OutputEnds(e)
      PROVE  Earned'
  <2>1. /\ \A f \in Executions : f # e => turn'[f] = turn[f]
        /\ run[e].pc = "reading" /\ FinalWritten(e)
        /\ run' = run \/ TurnOver(e)
    BY <1>2, ReadLineFacts
  <2>2. run[e].result # "success"
    BY <2>1 DEF Earned, EarnedBy
  <2> QED
    BY <2>1, <2>2, OthersEarned DEF TurnOver, Moves
<1>3. ASSUME NEW e \in Executions, WritesFinal(e)
      PROVE  Earned'
  <2>1. FinalWritten(e) /\ UNCHANGED <<run, turn>>
    BY <1>3 DEF WritesFinal, FinalWritten
  <2> QED
    BY <2>1, OthersEarned DEF Earned, EarnedBy
<1>4. ASSUME UNCHANGED <<run, turn>>,
             \A d \in Dirs : files'[d].final = files[d].final
      PROVE  Earned'
  BY <1>4, DirOfExecution DEF Earned, EarnedBy
<1>5. ASSUME NEW e \in Executions,
             \/ Signal(e) \/ Kill(e) \/ ClosePipes(e) \/ Exits(e)
             \/ Spawns(e) \/ ChildExits(e) \/ ServeStops(e)
      PROVE  Earned'
  BY <1>4, <1>5 DEF Signal, Kill, ClosePipes, Exits, Spawns, ChildExits, ServeStops
<1>6. ASSUME NEW e \in Executions, ServeStep(e) \/ Answer(e)
      PROVE  Earned'
  <2>1. UNCHANGED <<run, turn>>
    BY <1>6 DEF ServeStep, ReadDir, ReadRequest, Refuse, Invoke, Answer
  <2>2. CASE files' = files
    BY <1>4, <2>1, <2>2
  <2>3. CASE Refuse(e) \/ Answer(e)
    <3>1. \E answer \in Answers, requests \in SUBSET Calls :
            Respond(e, answer, requests)
      BY <2>3, DirOfExecution
         DEF Refuse, Answer, Remaining, Types, DirRecord, Answers
    <3> QED
      BY <1>4, <2>1, <3>1, RespondFacts
  <2>4. CASE Invoke(e)
    <3>1. \A d \in Dirs : files'[d].final = files[d].final
      BY <2>4, DirOfExecution DEF Invoke, Types, DirRecord
    <3> QED
      BY <1>4, <2>1, <3>1
  <2> QED
    BY <1>6, <2>2, <2>3, <2>4 DEF ServeStep, ReadDir, ReadRequest
<1>7. ASSUME NEW e \in Executions, NEW c \in Calls, Publish(c, e)
      PROVE  Earned'
  <2>1. UNCHANGED <<run, turn>>
    BY <1>7 DEF Publish
  <2> QED
    BY <1>4, <1>7, <2>1, PublishFacts
<1>8. ASSUME NEW c \in Calls, CallReturns(c) \/ CallTimesOut(c)
      PROVE  Earned'
  <2>1. UNCHANGED <<run, turn>>
    BY <1>8 DEF CallReturns, CallTimesOut
  <2> QED
    BY <1>4, <1>8, <2>1, ToolFacts
<1>9. ASSUME NEW e \in Executions, Cleanup(e)
      PROVE  Earned'
  <2>1. /\ UNCHANGED <<run, turn>>
        /\ \A d \in Dirs : files'[d].final \in {"none", files[d].final}
    BY <1>9, CleanupFacts
  <2> QED
    BY <2>1, DirOfExecution DEF Earned, EarnedBy
<1>10. UNCHANGED vars => Earned'
  BY <1>4 DEF vars
<1> QED
  BY <1>1, <1>2, <1>3, <1>5, <1>6, <1>7, <1>8, <1>9, <1>10
     DEF Next, ExecuteStep, RuntimeStep

-----------------------------------------------------------------------------
(* The theorems.                                                           *)

(* What holds for every workspace.                                         *)
NodeInv == Types /\ Owners /\ Quiet /\ Once

(* In every reachable state processes are supervised and requests are put  *)
(* to the invoker at most once, whichever workspace is used.               *)
LEMMA AlwaysNodeInv == Spec => []NodeInv
<1>1. Init => NodeInv
  <2> SUFFICES ASSUME Init PROVE NodeInv
    OBVIOUS
  <2>1. /\ run \in [Executions -> RunRecord] /\ proc \in [Executions -> ProcState]
        /\ group \in [Executions -> GroupRecord]
    BY DEF Init, RunRecord, ProcState, GroupRecord
  <2>2. turn \in [Executions -> TurnRecord]
    BY DEF Init, TurnRecord
  <2>3. /\ bridge \in [Executions -> BridgeRecord]
        /\ \A e \in Executions : bridge[e].pc = "off" /\ bridge[e].batch = {}
    <3>1. PICK u : u = [pc |-> "serving", batch |-> {}, call |-> "none"]
      OBVIOUS
    <3>2. Serving({}) = u
      BY <3>1 DEF Serving
    <3>3. /\ [u EXCEPT !.pc = "off"] \in BridgeRecord
          /\ [u EXCEPT !.pc = "off"].pc = "off"
          /\ [u EXCEPT !.pc = "off"].batch = {}
      BY <3>1 DEF BridgeRecord
    <3> QED
      BY <3>2, <3>3 DEF Init
  <2>4. /\ caller \in [Calls -> CallerRecord]
        /\ \A c \in Calls : caller[c].pc = "idle"
    BY DEF Init, CallerRecord, Answers
  <2>5. /\ files \in [Dirs -> DirRecord]
        /\ \A d \in Dirs : files[d].requests = {}
    BY DEF Init, DirRecord, EmptyDir
  <2>6. /\ invoked \in [Calls -> Nat] /\ \A c \in Calls : invoked[c] = 0
    BY DEF Init
  <2>7. Types /\ Owners
    BY <2>1, <2>2, <2>3, <2>4, <2>5, <2>6 DEF Types, Owners
  <2>8. Quiet
    BY <2>3 DEF Init, Quiet, Supervised, Alive
  <2>9. Once
    BY <2>3, <2>4, <2>5, <2>6 DEF Once, Fresh
  <2> QED
    BY <2>7, <2>8, <2>9 DEF NodeInv
<1>2. NodeInv /\ [Next]_vars => NodeInv'
  BY TypesKept, QuietKept, OnceKept DEF NodeInv
<1> QED
  BY <1>1, <1>2, PTL DEF Spec

(* Capability calls keep within their execution: each published request is *)
(* put to the invoker at most once, and when Execute has returned its      *)
(* bridge is off and its process gone.  This holds for any number of       *)
(* executions and calls and for every kind of workspace, the shared ones   *)
(* included, although bridges then read and remove the requests of others. *)
THEOREM CallsAlwaysSound == Spec => []CallsSound
<1>1. NodeInv => TypeOK
  BY DEF NodeInv, Types, TypeOK, RunRecord, ProcState, GroupRecord, TurnRecord,
         BridgeRecord, CallerRecord
<1>2. NodeInv => InvokedOnce
  BY DEF NodeInv, Once, Fresh, InvokedOnce
<1>3. NodeInv => QuietAfterReturn
  BY DEF NodeInv, Quiet, Supervised, QuietAfterReturn
<1> QED
  BY <1>1, <1>2, <1>3, AlwaysNodeInv, PTL DEF CallsSound

(* With a workspace of its own for every Attempt, a tool that is answered   *)
(* gets what the invoker of its own execution returned: FileBridge refuses  *)
(* only requests whose tool has already given up or was killed.            *)
THEOREM MailboxesArePrivate ==
  ASSUME Workspace \in {"temp", "git"}
  PROVE  Spec => []MailboxIsPrivate
<1>1. Init => Private
  <2> SUFFICES ASSUME Init PROVE Private
    OBVIOUS
  <2>1. PICK u : u = [pc |-> "serving", batch |-> {}, call |-> "none"]
    OBVIOUS
  <2>2. Serving({}) = u
    BY <2>1 DEF Serving
  <2>3. /\ [u EXCEPT !.pc = "off"].pc = "off"
        /\ [u EXCEPT !.pc = "off"].batch = {}
    BY <2>1
  <2>4. \A e \in Executions : bridge[e].pc = "off" /\ bridge[e].batch = {}
    BY <2>2, <2>3 DEF Init
  <2>5. \A e \in Executions : files[WorkDir(e)].responses = {}
    BY DirOfExecution DEF Init, EmptyDir
  <2>6. MailboxIsPrivate
    BY DEF Init, MailboxIsPrivate
  <2> QED
    BY <2>4, <2>5, <2>6 DEF Private, Mailbox
<1>2. NodeInv /\ Private /\ [Next]_vars => Private'
  BY PrivateKept DEF NodeInv
<1>3. Private => MailboxIsPrivate
  BY DEF Private
<1> QED
  BY <1>1, <1>2, <1>3, AlwaysNodeInv, PTL DEF Spec

(* With a workspace of its own for every Attempt, Execute succeeds only     *)
(* with the last message of its own runtime, and an App Server only after  *)
(* it has started and completed its turn.                                  *)
THEOREM SuccessesAreEarned ==
  ASSUME Workspace \in {"temp", "git"}
  PROVE  Spec => []SuccessIsEarned
<1>1. Init => Earned
  <2> SUFFICES ASSUME Init PROVE Earned
    OBVIOUS
  <2>1. \A e \in Executions : files[WorkDir(e)].final = "none"
    BY DirOfExecution DEF Init, EmptyDir
  <2>2. \A e \in Executions : run[e].result = "none"
    BY DEF Init
  <2> QED
    BY <2>1, <2>2 DEF Earned, EarnedBy
<1>2. NodeInv /\ Earned /\ [Next]_vars => Earned'
  BY EarnedKept DEF NodeInv
<1>3. Earned => SuccessIsEarned
  BY DEF Earned, EarnedBy, SuccessIsEarned
<1> QED
  BY <1>1, <1>2, <1>3, AlwaysNodeInv, PTL DEF Spec
=============================================================================
