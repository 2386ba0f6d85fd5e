-------------------------- MODULE NodeWorkerProofs --------------------------
(***************************************************************************)
(* Proofs about NodeWorker, for every set of Runs and Nodes and every      *)
(* bound on events, files and faults.                                      *)
(*                                                                         *)
(* A Node only makes calls with assignments that were granted to it, so    *)
(* every step of the Nodes is a step of the store, and what is proved of   *)
(* the store holds of it whatever the Nodes do or believe.  An assignment  *)
(* belongs to one Node for good, so what is on record of its execution     *)
(* only changes by the calls of that Node: the rest is about one Node at a *)
(* time, and assumes that nothing but the store answers with a success.    *)
(***************************************************************************)
EXTENDS NodeWorker, PostgresStoreProofs

(* The states of the loop in which it acts for an assignment.              *)
Acting == {"interrupt", "prepare", "execute", "send", "report", "stop",
           "acknowledge"}

File == [run : Runs, token : Nat, id : Nat \ {0}]

Record == [token : Nat, id : Nat \ {0}]

Outbox(F) == F \in SUBSET File /\ IsFiniteSet(F) /\ Cardinality(F) <= MaxFiles

NodeTypes ==
  /\ worker \in [Nodes -> Worker]
  /\ files \in [Nodes -> SUBSET File]
  /\ \A n \in Nodes : Outbox(files[n])
  /\ recorded \in [Runs -> Seq(Record)]
  /\ faults \in 0 .. MaxFaults

(* The assignments a loop w works on or has files of in its outbox F.      *)
Holds(w, F, r, k) ==
  \/ w.token # 0 /\ w.run = r /\ w.token = k
  \/ \E f \in F : f.run = r /\ f.token = k

(* They were granted, each to one Node; so was what is on record.          *)
Granting ==
  /\ \A n \in Nodes, r \in Runs, k \in Nat :
       Holds(worker[n], files[n], r, k) => k \in DOMAIN runs[r].grants
  /\ \A r \in Runs : \A i \in DOMAIN recorded[r] :
       recorded[r][i].token \in DOMAIN runs[r].grants
  /\ \A m, n \in Nodes, r \in Runs, k \in Nat :
       /\ Holds(worker[m], files[m], r, k)
       /\ Holds(worker[n], files[n], r, k)
       => m = n

(* What each state of the loop says about the rest of its record.          *)
Shape(w) ==
  /\ w.pc \in Acting => w.token # 0
  /\ w.token # 0 => w.run \in Runs
  /\ w.pc \in {"down", "recover", "claim"} => w = At(w.pc)
  /\ w.keeper # "off" => w.pc \in {"execute", "send", "report", "stop"}
  /\ w.reply # "unknown" => w.pc \in {"stop", "acknowledge"}
  /\ w.report # NoValue =>
       w.pc \in {"report", "stop", "acknowledge", "idle"} /\ w.token # 0
  /\ w.pc = "report" => w.report # NoValue
  /\ w.ended # "none" => w.pc = "idle" /\ w.token # 0
  /\ w.pc = "prepare" => w.sent = 0

(* The report of w is what ended its Run x.                                *)
Told(w, x, status) ==
  x.status = status /\ x.token = w.token /\ x.outcome = w.report

EndedAs(w) == IF w.report \in Results THEN "succeeded" ELSE "failed"

(* What a Node was told about its Run x is still so.                       *)
Truth(w, x) ==
  /\ w.keeper = "cancelled" \/ w.reply = "run_cancelled" \/ w.pc = "acknowledge"
       => x.status \in {"cancelling", "cancelled"}
  /\ w.reply = "ok" => Told(w, x, EndedAs(w))
  /\ w.ended \in {"succeeded", "failed"} => Told(w, x, w.ended)
  /\ w.ended = "cancelled" => x.status = "cancelled"

(* A saved event is the next one to be recorded or the last recorded one,  *)
(* and the only one of its execution.                                      *)
FilesSound(F, events) ==
  /\ \A f \in F :
       Recorded(events[f.run], f.token) \in {1 .. f.id - 1, 1 .. f.id}
  /\ \A f, g \in F : f.run = g.run /\ f.token = g.token => f = g

(* All that was emitted is on record and nothing of it is still waiting.   *)
AllRecorded(w, F, events) ==
  /\ Recorded(events[w.run], w.token) = 1 .. w.sent
  /\ \A f \in F : ~(f.run = w.run /\ f.token = w.token)

(* What the loop knows about the delivery of its events.                   *)
Delivery(w, F, events) ==
  /\ w.pc = "prepare" => AllRecorded(w, F, events)
  /\ w.pc = "execute" /\ ~w.eventErr => AllRecorded(w, F, events)
  /\ w.report \in Results => AllRecorded(w, F, events)
  /\ w.pc \in {"send", "interrupt"} => Pending(w) \in F
  /\ w.pc = "interrupt" =>
       [token |-> w.token, id |-> w.sent] \in ToSet(events[w.run])

NodeInv ==
  /\ NodeTypes
  /\ Granting
  /\ EventsInOrder
  /\ \A n \in Nodes : /\ Shape(worker[n])
                      /\ Truth(worker[n], runs[worker[n].run])
                      /\ FilesSound(files[n], recorded)
                      /\ Delivery(worker[n], files[n], recorded)

-----------------------------------------------------------------------------
(* Answers.                                                                *)

(* The replies of the store come back as they are: no two of them are      *)
(* written with the same status and message.                               *)
LEMMA AnsweredIs ==
  ASSUME NEW reply \in {"ok", "invalid_lease", "invalid_transition",
                        "run_cancelled"}
  PROVE  Answered(reply) = reply
<1> DEFINE names == {"ok", "not_found", "invalid_lease", "invalid_transition",
                     "run_cancelled", "incompatible"}
<1>1. DOMAIN Status = names
  BY DEF Status
<1>2. \A e \in names : writeError(e).message = e
  BY <1>1 DEF writeError
<1>3. reply \in names
  OBVIOUS
<1> HIDE DEF names
<1>4. \A e \in DOMAIN Status : writeError(reply) = writeError(e) => e = reply
  BY <1>1, <1>2, <1>3
<1>5. (CHOOSE e \in DOMAIN Status : writeError(reply) = writeError(e)) = reply
  BY <1>1, <1>3, <1>4
<1>6. Success(writeError(reply).status) => reply = "ok"
  BY DEF Success, writeError, Status
<1>7. Success(writeError("ok").status)
  BY DEF Success, writeError, Status
<1> QED
  BY <1>1, <1>3, <1>5, <1>6, <1>7 DEF Answered, do

(* The client takes no error that does not come from the handler for one   *)
(* of the protocol.                                                        *)
LEMMA ForeignUnknown ==
  ASSUME NEW response \in Foreign, ~Success(response.status)
  PROVE  do(response) = "unknown"
<1> DEFINE names == {"ok", "not_found", "invalid_lease", "invalid_transition",
                     "run_cancelled", "incompatible"}
<1>1. DOMAIN Status = names
  BY DEF Status
<1>2. \A e \in names : writeError(e).message = e
  BY <1>1 DEF writeError
<1>3. response.message = "foreign" /\ "foreign" \notin names
  BY DEF Foreign
<1> QED
  BY <1>1, <1>2, <1>3 DEF do

(* Without a foreign success no Node is misled.                            *)
LEMMA NotMisled ==
  ASSUME NoForeignSuccess, NEW response \in Foreign
  PROVE  do(response) = "unknown"
<1>1. ~Success(response.status)
  BY DEF Foreign, NoForeignSuccess
<1> QED
  BY <1>1, ForeignUnknown

(* The store gives no other replies.                                       *)
LEMMA ReplyNames ==
  ASSUME NEW x, NEW k, NEW v
  PROVE  LET names == {"ok", "invalid_lease", "invalid_transition",
                       "run_cancelled"}
         IN  /\ AppendReply(x, k) \in names
             /\ StartReply(x, k) \in names
             /\ CompleteReply(x, k, v) \in names
             /\ FailReply(x, k, v) \in names
             /\ AcknowledgeReply(x, k) \in names
BY DEF AppendReply, StartReply, CompleteReply, FailReply, AcknowledgeReply

(* What the Node sees is what the store answered.                          *)
LEMMA AnswersAreReplies ==
  ASSUME NEW x, NEW k, NEW v
  PROVE  /\ Answered(AppendReply(x, k)) = AppendReply(x, k)
         /\ Answered(StartReply(x, k)) = StartReply(x, k)
         /\ Answered(CompleteReply(x, k, v)) = CompleteReply(x, k, v)
         /\ Answered(FailReply(x, k, v)) = FailReply(x, k, v)
         /\ Answered(AcknowledgeReply(x, k)) = AcknowledgeReply(x, k)
BY ReplyNames, AnsweredIs

-----------------------------------------------------------------------------
(* The steps of Nodes are steps of the store.                              *)

(* A loop that acts has an assignment that was granted.                    *)
LEMMA Assigned ==
  ASSUME NodeInv, NEW n \in Nodes
  PROVE  /\ worker[n] \in Worker /\ Shape(worker[n])
         /\ worker[n].token # 0 =>
              /\ worker[n].run \in Runs
              /\ worker[n].token \in DOMAIN runs[worker[n].run].grants
         /\ worker[n].pc \in Acting => worker[n].token # 0
<1> DEFINE w == worker[n]
<1>1. w \in Worker /\ Shape(w)
  BY DEF NodeInv, NodeTypes
<1>2. w.token \in Nat
  BY <1>1 DEF Worker
<1>3. w.token # 0 => w.run \in Runs
  BY <1>1 DEF Shape
<1>4. w.token # 0 => Holds(w, files[n], w.run, w.token)
  BY DEF Holds
<1>5. w.token # 0 => w.token \in DOMAIN runs[w.run].grants
  BY <1>2, <1>3, <1>4 DEF NodeInv, Granting
<1> QED
  BY <1>1, <1>3, <1>5 DEF Shape

(* A call with a granted assignment is a step of the store.                *)
LEMMA CallStep ==
  ASSUME NEW r \in Runs, NEW k \in DOMAIN runs[r].grants,
         \/ Renew(r, k)
         \/ Start(r, k)
         \/ AcknowledgeCancellation(r, k)
         \/ \E result \in Results : Complete(r, k, result)
         \/ \E cause \in Causes : Fail(r, k, cause)
  PROVE  [Next]_vars
BY DEF Next, RunStep, NodeCall

(* A loop that calls the store, and its keeper, have an assignment that    *)
(* was granted; so have the events saved in the outbox.                    *)
CallsFor(w) == w.pc \in Acting \/ w.keeper # "off"

GrantedTo(a, R) == a.run \in Runs /\ a.token \in DOMAIN R[a.run].grants

Calling ==
  /\ worker \in [Nodes -> Worker]
  /\ files \in [Nodes -> SUBSET File]
  /\ \A n \in Nodes :
       /\ CallsFor(worker[n]) => GrantedTo(worker[n], runs)
       /\ worker[n].pc = "report" => worker[n].report # NoValue
       /\ \A f \in files[n] : GrantedTo(f, runs)

(* What the store does when a Node acts, one case per action.              *)
LEMMA NodeStepIsStoreStep ==
  ASSUME StoreInv, Calling, NEW n \in Nodes, NodeStep(n)
  PROVE  [Next]_vars
<1> DEFINE w == worker[n]
<1>1. /\ w.pc \in Acting => /\ w.run \in Runs
                            /\ w.token \in DOMAIN runs[w.run].grants
      /\ w.keeper = "on" => /\ w.run \in Runs
                            /\ w.token \in DOMAIN runs[w.run].grants
      /\ w.pc = "report" => w.report \in Results \union Causes
  BY DEF Calling, CallsFor, GrantedTo, Worker, Acting
<1>2. n \in Calls /\ Interrupted \in Causes
  BY WorkerAssumption
<1>3. UNCHANGED storeVars => [Next]_vars
  BY DEF storeVars, vars
<1>4. ASSUME Boot(n) PROVE [Next]_vars
  BY <1>4 DEF Boot, Next
<1>5. ASSUME NEW f \in files[n], Recover(n, f) PROVE [Next]_vars
  BY <1>5 DEF Recover, vars
<1>6. ASSUME Interrupt(n) PROVE [Next]_vars
  BY <1>1, <1>2, <1>3, <1>6, CallStep DEF Interrupt, Acting
<1>7. ASSUME RecoverEnds(n) PROVE [Next]_vars
  BY <1>7 DEF RecoverEnds, vars
<1>8. ASSUME NotClaimed(n) PROVE [Next]_vars
  BY <1>2, <1>8 DEF NotClaimed, Next, ClaimStep
<1>9. ASSUME StartCall(n) PROVE [Next]_vars
  BY <1>1, <1>3, <1>9, CallStep DEF StartCall, Acting, storeVars
<1>10. ASSUME Deliver(n) PROVE [Next]_vars
  BY <1>3, <1>10 DEF Deliver
<1>11. ASSUME Report(n) PROVE [Next]_vars
  BY <1>1, <1>3, <1>11, CallStep DEF Report, Acting
<1>12. ASSUME stopLease(n) PROVE [Next]_vars
  BY <1>12 DEF stopLease, vars
<1>13. ASSUME Acknowledge(n) PROVE [Next]_vars
  BY <1>1, <1>3, <1>13, CallStep DEF Acknowledge, Acting, storeVars
<1>14. ASSUME keepLease(n) PROVE [Next]_vars
  BY <1>1, <1>3, <1>14, CallStep DEF keepLease, storeVars
<1>15. ASSUME ClaimCall(n) PROVE [Next]_vars
  BY <1>2, <1>15 DEF ClaimCall, Next, ClaimStep
<1>16. ASSUME NEW r \in Runs, Claimed(n, r) PROVE [Next]_vars
  BY <1>2, <1>16 DEF Claimed, Next, ClaimStep
<1>17. ASSUME NEW cause \in Causes, PrepareFails(n, cause) PROVE [Next]_vars
  BY <1>1, <1>3, <1>17, CallStep DEF PrepareFails, Acting, storeVars
<1>18. ASSUME Emit(n) PROVE [Next]_vars
  BY <1>18 DEF Emit, vars
<1>19. ASSUME Executed(n) PROVE [Next]_vars
  BY <1>19 DEF Executed, ExecuteReturns, vars
<1>20. ASSUME DeliveryTimesOut(n) PROVE [Next]_vars
  BY <1>20 DEF DeliveryTimesOut, vars
<1>21. ASSUME ReportTimesOut(n) PROVE [Next]_vars
  BY <1>21 DEF ReportTimesOut, vars
<1>22. ASSUME RecoverFails(n) PROVE [Next]_vars
  BY <1>1, <1>2, <1>3, <1>22, CallStep DEF RecoverFails, Acting
<1>23. ASSUME NEW f \in files[n], RecoverRejected(n, f) PROVE [Next]_vars
  BY <1>23 DEF RecoverRejected, vars
<1>24. ASSUME Crash(n) PROVE [Next]_vars
  BY <1>24 DEF Crash, vars
<1>25. ASSUME Misled(n) PROVE [Next]_vars
  BY <1>25 DEF Misled, vars
<1>26. ASSUME OrphanClaimEnds(n) PROVE [Next]_vars
  BY <1>2, <1>26 DEF OrphanClaimEnds, Next, ClaimStep
<1> QED
  BY <1>4, <1>5, <1>6, <1>7, <1>8, <1>9, <1>10, <1>11, <1>12, <1>13, <1>14,
     <1>15, <1>16, <1>17, <1>18, <1>19, <1>20, <1>21, <1>22, <1>23, <1>24,
     <1>25, <1>26 DEF NodeStep, Progress

(* So is every step of the system, or it leaves the store alone.           *)
LEMMA StoreStep ==
  ASSUME StoreInv, Calling, [NodeNext]_nodeVars
  PROVE  [Next]_vars
<1>1. ASSUME NEW r \in Runs, ServerStep(r) PROVE [Next]_vars
  BY <1>1 DEF ServerStep, Next, RunStep
<1>2. ASSUME Reconciles PROVE [Next]_vars
  BY <1>2 DEF Reconciles, Next
<1>3. UNCHANGED nodeVars => [Next]_vars
  BY DEF nodeVars, vars
<1> QED
  BY <1>1, <1>2, <1>3, NodeStepIsStoreStep DEF NodeNext

-----------------------------------------------------------------------------
(* Rows and records, whoever acts.                                         *)

(* What a Node may rely on about a row from one step to the next.          *)
GoesOn(x, y) ==
  /\ DOMAIN x.grants \subseteq DOMAIN y.grants
  /\ x.status \in {"cancelling", "cancelled"}
       => y.status \in {"cancelling", "cancelled"}
  /\ terminalRunStatus(x.status) =>
       y.status = x.status /\ y.token = x.token /\ y.outcome = x.outcome

(* Grants are never withdrawn, a cancellation and an end are final.        *)
LEMMA RowsGoOn ==
  ASSUME StoreInv, [Next]_vars, NEW r \in Runs
  PROVE  GoesOn(runs[r], runs'[r])
<1> DEFINE x == runs[r]
           y == runs'[r]
<1>1. AllGood /\ AllGood'
  BY StoreInvKept DEF StoreInv
<1>2. x \in Run /\ y \in Run
  BY <1>1 DEF AllGood, Good
<1>3. /\ DOMAIN x.grants = 1 .. Len(x.grants) /\ Len(x.grants) \in Nat
      /\ DOMAIN y.grants = 1 .. Len(y.grants) /\ Len(y.grants) \in Nat
  BY <1>2, LenProperties DEF Run
<1>4. Changed(x, y)
  BY RowChange
<1>5. x = AbsentRun => x.status = "absent"
  BY DEF AbsentRun
<1>6. Len(y.grants) = Len(x.grants) \/ Len(y.grants) = Len(x.grants) + 1
  BY <1>4 DEF Changed, Kept, Inserted, Granted, Repeated, Advanced
<1>7. DOMAIN x.grants \subseteq DOMAIN y.grants
  BY <1>3, <1>6
<1>8. /\ x.status \in {"cancelling", "cancelled"}
           => y.status \in {"cancelling", "cancelled"}
      /\ terminalRunStatus(x.status) =>
           y.status = x.status /\ y.token = x.token /\ y.outcome = x.outcome
  BY <1>4, <1>5 DEF Changed, Kept, Inserted, Granted, Repeated, Advanced,
                    terminalRunStatus
<1> QED
  BY <1>7, <1>8 DEF GoesOn

(* What a Node was told stays true while the store goes on.                *)
LEMMA TruthKept ==
  ASSUME NEW w \in Worker, Shape(w), NEW R, NEW S, Truth(w, R[w.run]),
         \A r \in Runs : GoesOn(R[r], S[r])
  PROVE  Truth(w, S[w.run])
<1>1. CASE w.token = 0
  <2>1. /\ w.pc \notin Acting /\ w.keeper = "off" /\ w.reply = "unknown"
        /\ w.ended = "none"
    BY <1>1 DEF Shape, Acting
  <2> QED
    BY <2>1 DEF Truth, Acting
<1>2. CASE w.token # 0
  <2>1. GoesOn(R[w.run], S[w.run])
    BY <1>2 DEF Shape
  <2>2. EndedAs(w) \in {"succeeded", "failed"}
    BY DEF EndedAs
  <2> QED
    BY <2>1, <2>2 DEF Truth, Told, GoesOn, terminalRunStatus
<1> QED
  BY <1>1, <1>2

(* The events s with e among them.                                         *)
With(s, e) == IF e \in ToSet(s) THEN s ELSE Append(s, e)

(* The events t are those of s and e, in order.                            *)
Extends(s, e, t) ==
  /\ t \in Seq(Record) /\ InOrder(t)
  /\ Recorded(t, e.token) = 1 .. e.id
  /\ \A k : k # e.token => Recorded(t, k) = Recorded(s, k)
  /\ \A i \in DOMAIN t : t[i] = e \/ \E j \in DOMAIN s : t[i] = s[j]
  /\ e \in ToSet(t) /\ ToSet(s) \subseteq ToSet(t)

(* AppendEvent writes the next event of an execution or finds it written:  *)
(* the events stay in order and those of other executions what they are.   *)
LEMMA AppendKeepsOrder ==
  ASSUME NEW s \in Seq(Record), NEW e \in Record, InOrder(s),
         Recorded(s, e.token) = 1 .. e.id - 1 \/ Recorded(s, e.token) = 1 .. e.id
  PROVE  Extends(s, e, With(s, e))
<1> DEFINE t == With(s, e)
<1>0. t = IF e \in ToSet(s) THEN s ELSE Append(s, e)
  BY DEF With
<1> HIDE DEF t
<1>1. /\ DOMAIN s = 1 .. Len(s) /\ Len(s) \in Nat
      /\ \A i \in DOMAIN s : s[i] \in Record
  BY LenProperties, ElementOfSeq
<1>2. e.id \in Nat \ {0} /\ e.token \in Nat
  BY DEF Record
<1>3. e.id \in 1 .. e.id /\ e.id \notin 1 .. e.id - 1
  BY <1>2
<1>4. ASSUME NEW j \in DOMAIN s, s[j].token = e.token, s[j].id = e.id
      PROVE  s[j] = e
  BY <1>1, <1>4 DEF Record
<1>5. e \in ToSet(s) <=> e.id \in Recorded(s, e.token)
  <2>1. e \in ToSet(s) <=> \E j \in DOMAIN s : s[j] = e
    BY DEF ToSet
  <2>2. e.id \in Recorded(s, e.token) <=>
          \E j \in DOMAIN s : s[j].token = e.token /\ s[j].id = e.id
    BY <1>1 DEF Recorded, EventIds
  <2> QED
    BY <1>4, <2>1, <2>2
<1>6. CASE e \in ToSet(s)
  <2>1. t = s /\ Recorded(s, e.token) = 1 .. e.id
    BY <1>0, <1>3, <1>5, <1>6
  <2> QED
    BY <1>6, <2>1 DEF Extends, t
<1>7. CASE e \notin ToSet(s)
  <2>1. t = Append(s, e)
    BY <1>0, <1>7
  <2>2. /\ t \in Seq(Record) /\ Len(t) = Len(s) + 1
        /\ \A i \in 1 .. Len(s) : t[i] = s[i]
        /\ t[Len(s) + 1] = e
    BY <2>1, AppendProperties
  <2>3. DOMAIN t = 1 .. Len(s) + 1
    BY <2>2, LenProperties
  <2> HIDE <2>1
  <2>4. Recorded(s, e.token) = 1 .. e.id - 1
    BY <1>3, <1>5, <1>7
  <2>5. ASSUME NEW k, NEW m \in 0 .. Len(s)
        PROVE  EventIds(t, k, m) = EventIds(s, k, m)
    <3>1. \A i \in 1 .. m : t[i] = s[i]
      BY <1>1, <2>2
    <3> QED
      BY <3>1 DEF EventIds
  <2>6. ASSUME NEW k
        PROVE  Recorded(t, k) = Recorded(s, k) \union
                                (IF k = e.token THEN {e.id} ELSE {})
    <3>1. \A i : i \in 1 .. Len(t) <=> i \in 1 .. Len(s) \/ i = Len(s) + 1
      BY <1>1, <2>2
    <3> QED
      BY <2>2, <3>1 DEF Recorded, EventIds
  <2>7. Recorded(t, e.token) = 1 .. e.id
    <3>1. (1 .. e.id - 1) \union {e.id} = 1 .. e.id
      BY <1>2
    <3> QED
      BY <2>4, <2>6, <3>1
  <2>8. InOrder(t)
    <3> SUFFICES ASSUME NEW i \in DOMAIN t
                 PROVE  EventIds(t, t[i].token, i - 1) = 1 .. t[i].id - 1
      BY DEF InOrder
    <3>1. CASE i \in 1 .. Len(s)
      <4>1. i - 1 \in 0 .. Len(s) /\ t[i] = s[i]
        BY <1>1, <2>2, <3>1
      <4>2. EventIds(s, s[i].token, i - 1) = 1 .. s[i].id - 1
        BY <1>1, <3>1 DEF InOrder
      <4> QED
        BY <2>5, <4>1, <4>2
    <3>2. CASE i = Len(s) + 1
      <4>1. i - 1 = Len(s) /\ Len(s) \in 0 .. Len(s)
        BY <1>1, <3>2
      <4> QED
        BY <2>2, <2>4, <2>5, <3>2, <4>1 DEF Recorded
    <3> QED
      BY <1>1, <2>3, <3>1, <3>2
  <2>9. \A k : k # e.token => Recorded(t, k) = Recorded(s, k)
    BY <2>6
  <2>10. \A i \in DOMAIN t : t[i] = e \/ \E j \in DOMAIN s : t[i] = s[j]
    BY <1>1, <2>2, <2>3
  <2>11. e \in ToSet(t) /\ ToSet(s) \subseteq ToSet(t)
    <3>1. Len(s) + 1 \in DOMAIN t /\ DOMAIN s \subseteq DOMAIN t
      BY <1>1, <2>3
    <3> QED
      BY <1>1, <2>2, <3>1 DEF ToSet
  <2> QED
    BY <2>2, <2>7, <2>8, <2>9, <2>10, <2>11 DEF Extends, t
<1> QED
  BY <1>6, <1>7

-----------------------------------------------------------------------------
(* A step of one Node.                                                     *)

(* The event of a saved file, as AppendEvent inserts it.                   *)
EventOf(f) == [token |-> f.token, id |-> f.id]

(* An event is only ever written from a file, by the Node that has it.     *)
LEMMA AppendFromFile ==
  ASSUME NodeInv, NEW n \in Nodes, NEW g \in files[n], AppendEvent(g)
  PROVE  /\ recorded' \in [Runs -> Seq(Record)] /\ EventsInOrder'
         /\ Recorded(recorded'[g.run], g.token) = 1 .. g.id
         /\ \A r \in Runs, k \in Nat : ~(g.run = r /\ g.token = k) =>
              Recorded(recorded'[r], k) = Recorded(recorded[r], k)
         /\ \A r \in Runs : \A i \in DOMAIN recorded'[r] :
              \/ g.run = r /\ g.token = recorded'[r][i].token
              \/ \E j \in DOMAIN recorded[r] : recorded'[r][i] = recorded[r][j]
         /\ \A r \in Runs : ToSet(recorded[r]) \subseteq ToSet(recorded'[r])
         /\ EventOf(g) \in ToSet(recorded'[g.run])
<1> DEFINE e == EventOf(g)
           s == recorded[g.run]
           t == recorded'[g.run]
<1>1. g \in File /\ recorded \in [Runs -> Seq(Record)]
  BY DEF NodeInv, NodeTypes, Outbox
<1>2. g.run \in Runs /\ e \in Record /\ e.token = g.token /\ e.id = g.id
  BY <1>1 DEF File, Record, EventOf
<1>3. recorded' = [recorded EXCEPT ![g.run] = With(s, e)]
  BY DEF AppendEvent, EventOf, With
<1>4. t = With(s, e) /\ \A r \in Runs : r # g.run => recorded'[r] = recorded[r]
  BY <1>1, <1>2, <1>3
<1>5. s \in Seq(Record) /\ InOrder(s)
  BY <1>1, <1>2 DEF NodeInv, EventsInOrder
<1>6. Recorded(s, e.token) = 1 .. e.id - 1 \/ Recorded(s, e.token) = 1 .. e.id
  BY <1>2 DEF NodeInv, FilesSound
<1> HIDE DEF e, s, t
<1>7. Extends(s, e, t)
  BY <1>2, <1>4, <1>5, <1>6, AppendKeepsOrder
<1>8. recorded' \in [Runs -> Seq(Record)]
  <2>1. recorded' = [recorded EXCEPT ![g.run] = t]
    BY <1>3, <1>4
  <2> QED
    BY <1>1, <1>7, <2>1 DEF Extends
<1>9. EventsInOrder'
  <2> SUFFICES ASSUME NEW r \in Runs PROVE InOrder(recorded'[r])
    BY DEF EventsInOrder
  <2> QED
    BY <1>4, <1>7 DEF NodeInv, EventsInOrder, t, Extends
<1>10. ASSUME NEW r \in Runs, NEW k \in Nat, ~(g.run = r /\ g.token = k)
       PROVE  Recorded(recorded'[r], k) = Recorded(recorded[r], k)
  BY <1>2, <1>4, <1>7, <1>10 DEF s, t, Extends
<1>11. ASSUME NEW r \in Runs, NEW i \in DOMAIN recorded'[r]
       PROVE  \/ g.run = r /\ g.token = recorded'[r][i].token
              \/ \E j \in DOMAIN recorded[r] : recorded'[r][i] = recorded[r][j]
  <2>1. CASE r = g.run
    BY <1>2, <1>7, <2>1 DEF s, t, Extends
  <2>2. CASE r # g.run
    BY <1>4, <2>2
  <2> QED
    BY <2>1, <2>2
<1>12. ASSUME NEW r \in Runs
       PROVE  ToSet(recorded[r]) \subseteq ToSet(recorded'[r])
  BY <1>4, <1>7 DEF s, t, Extends
<1> QED
  BY <1>2, <1>7, <1>8, <1>9, <1>10, <1>11, <1>12 DEF e, t, Extends

(* What a step of the Node with outbox F may do to what is on record.      *)
Writes(F) == recorded' = recorded \/ \E g \in F : AppendEvent(g)

(* Whatever a Node writes, the events stay in order, nothing is deleted    *)
(* and only executions it has a file of are concerned.                     *)
LEMMA WritesFacts ==
  ASSUME NodeInv, NEW n \in Nodes, Writes(files[n])
  PROVE  /\ recorded' \in [Runs -> Seq(Record)] /\ EventsInOrder'
         /\ \A r \in Runs, k \in Nat :
              ~(\E g \in files[n] : g.run = r /\ g.token = k) =>
                Recorded(recorded'[r], k) = Recorded(recorded[r], k)
         /\ \A r \in Runs : \A i \in DOMAIN recorded'[r] :
              \/ \E g \in files[n] :
                   g.run = r /\ g.token = recorded'[r][i].token
              \/ \E j \in DOMAIN recorded[r] : recorded'[r][i] = recorded[r][j]
         /\ \A r \in Runs : ToSet(recorded[r]) \subseteq ToSet(recorded'[r])
         /\ FilesSound(files[n], recorded')
<1>1. CASE recorded' = recorded
  <2>1. recorded' \in [Runs -> Seq(Record)] /\ EventsInOrder'
    BY <1>1 DEF NodeInv, NodeTypes, EventsInOrder
  <2>2. FilesSound(files[n], recorded')
    BY <1>1 DEF NodeInv
  <2> QED
    BY <1>1, <2>1, <2>2
<1>2. ASSUME NEW g \in files[n], AppendEvent(g)
      PROVE  FilesSound(files[n], recorded')
  <2>1. FilesSound(files[n], recorded)
    BY DEF NodeInv
  <2>2. \A f \in files[n] : f.run \in Runs /\ f.token \in Nat
    BY DEF NodeInv, NodeTypes, Outbox, File
  <2>3. ASSUME NEW f \in files[n]
        PROVE  Recorded(recorded'[f.run], f.token) \in {1 .. f.id - 1, 1 .. f.id}
    <3>1. CASE f = g
      BY <1>2, <3>1, AppendFromFile
    <3>2. CASE f # g
      <4>1. ~(g.run = f.run /\ g.token = f.token)
        BY <2>1, <3>2 DEF FilesSound
      <4>2. Recorded(recorded'[f.run], f.token) = Recorded(recorded[f.run], f.token)
        BY <1>2, <2>2, <4>1, AppendFromFile
      <4> QED
        BY <2>1, <4>2 DEF FilesSound
    <3> QED
      BY <3>1, <3>2
  <2> QED
    BY <2>1, <2>3 DEF FilesSound
<1>3. ASSUME NEW g \in files[n], AppendEvent(g)
      PROVE  /\ recorded' \in [Runs -> Seq(Record)] /\ EventsInOrder'
             /\ \A r \in Runs, k \in Nat :
                  ~(\E f \in files[n] : f.run = r /\ f.token = k) =>
                    Recorded(recorded'[r], k) = Recorded(recorded[r], k)
             /\ \A r \in Runs : \A i \in DOMAIN recorded'[r] :
                  \/ \E f \in files[n] :
                       f.run = r /\ f.token = recorded'[r][i].token
                  \/ \E j \in DOMAIN recorded[r] :
                       recorded'[r][i] = recorded[r][j]
             /\ \A r \in Runs : ToSet(recorded[r]) \subseteq ToSet(recorded'[r])
  <2>1. /\ recorded' \in [Runs -> Seq(Record)] /\ EventsInOrder'
        /\ \A r \in Runs, k \in Nat : ~(g.run = r /\ g.token = k) =>
             Recorded(recorded'[r], k) = Recorded(recorded[r], k)
        /\ \A r \in Runs : \A i \in DOMAIN recorded'[r] :
             \/ g.run = r /\ g.token = recorded'[r][i].token
             \/ \E j \in DOMAIN recorded[r] : recorded'[r][i] = recorded[r][j]
        /\ \A r \in Runs : ToSet(recorded[r]) \subseteq ToSet(recorded'[r])
    BY <1>3, AppendFromFile
  <2> QED
    BY <1>3, <2>1
<1> QED
  BY <1>1, <1>2, <1>3 DEF Writes

(* What a loop knows about its events only depends on the events of the    *)
(* assignments it holds.                                                   *)
LEMMA DeliveryKept ==
  ASSUME NEW w \in Worker, Shape(w), NEW F \in SUBSET File, NEW a, NEW b,
         \A r \in Runs, k \in Nat : Holds(w, F, r, k) =>
           Recorded(b[r], k) = Recorded(a[r], k),
         \A r \in Runs : ToSet(a[r]) \subseteq ToSet(b[r])
  PROVE  /\ Delivery(w, F, a) => Delivery(w, F, b)
         /\ FilesSound(F, a) => FilesSound(F, b)
<1>1. ASSUME w.token # 0
      PROVE  AllRecorded(w, F, a) => AllRecorded(w, F, b)
  <2>1. w.run \in Runs /\ w.token \in Nat /\ Holds(w, F, w.run, w.token)
    BY <1>1 DEF Shape, Worker, Holds
  <2> QED
    BY <2>1 DEF AllRecorded
<1>2. /\ w.pc \in {"prepare", "execute", "interrupt"}
           => w.token # 0 /\ w.run \in Runs
      /\ w.report \in Results => w.token # 0
  BY ConstantsAssumption DEF Shape, Acting
<1>3. Delivery(w, F, a) => Delivery(w, F, b)
  BY <1>1, <1>2 DEF Delivery
<1>4. ASSUME NEW f \in F
      PROVE  Recorded(b[f.run], f.token) = Recorded(a[f.run], f.token)
  BY DEF Holds, File
<1>5. FilesSound(F, a) => FilesSound(F, b)
  BY <1>4 DEF FilesSound
<1> QED
  BY <1>3, <1>5

(* A step of Node n keeps the invariant if it does for n: the assignments  *)
(* n holds after it are among those it held, or new.                       *)
LEMMA LocalStep ==
  ASSUME StoreInv, NodeInv, [Next]_vars, NEW n \in Nodes,
         NEW v \in Worker, NEW F, Outbox(F),
         worker' = [worker EXCEPT ![n] = v], files' = [files EXCEPT ![n] = F],
         Writes(files[n]), faults' \in 0 .. MaxFaults,
         \A r \in Runs, k \in Nat : Holds(v, F, r, k) =>
           \/ Holds(worker[n], files[n], r, k)
           \/ k = Len(runs[r].grants) + 1 /\ k \in DOMAIN runs'[r].grants,
         Shape(v), Truth(v, runs'[v.run]),
         FilesSound(F, recorded'), Delivery(v, F, recorded')
  PROVE  NodeInv'
<1>1. /\ worker \in [Nodes -> Worker] /\ files \in [Nodes -> SUBSET File]
      /\ \A m \in Nodes : Outbox(files[m])
      /\ \A m \in Nodes : Shape(worker[m])
  BY DEF NodeInv, NodeTypes
<1>2. /\ \A m \in Nodes : m # n => /\ worker'[m] = worker[m]
                                   /\ files'[m] = files[m]
      /\ worker'[n] = v /\ files'[n] = F
  BY <1>1
<1>3. /\ recorded' \in [Runs -> Seq(Record)] /\ EventsInOrder'
      /\ \A r \in Runs, k \in Nat :
           ~(\E g \in files[n] : g.run = r /\ g.token = k) =>
             Recorded(recorded'[r], k) = Recorded(recorded[r], k)
      /\ \A r \in Runs : \A i \in DOMAIN recorded'[r] :
           \/ \E g \in files[n] : g.run = r /\ g.token = recorded'[r][i].token
           \/ \E j \in DOMAIN recorded[r] : recorded'[r][i] = recorded[r][j]
      /\ \A r \in Runs : ToSet(recorded[r]) \subseteq ToSet(recorded'[r])
  BY WritesFacts
<1>4. \A r \in Runs : GoesOn(runs[r], runs'[r])
  BY RowsGoOn
<1>5. \A r \in Runs : DOMAIN runs[r].grants \subseteq DOMAIN runs'[r].grants
  BY <1>4 DEF GoesOn
<1>6. \A r \in Runs : Len(runs[r].grants) + 1 \notin DOMAIN runs[r].grants
  <2>1. ASSUME NEW r \in Runs
        PROVE  /\ DOMAIN runs[r].grants = 1 .. Len(runs[r].grants)
               /\ Len(runs[r].grants) \in Nat
    BY LenProperties DEF StoreInv, AllGood, Good, Run
  <2> QED
    BY <2>1
<1>7. NodeTypes'
  <2>1. worker' \in [Nodes -> Worker]
    BY <1>1
  <2>2. files' \in [Nodes -> SUBSET File]
    BY <1>1 DEF Outbox
  <2>3. \A m \in Nodes : Outbox(files'[m])
    BY <1>1, <1>2
  <2> QED
    BY <1>3, <2>1, <2>2, <2>3 DEF NodeTypes, Outbox
<1>8. \A m \in Nodes, r \in Runs, k \in Nat :
        Holds(worker[m], files[m], r, k) => k \in DOMAIN runs[r].grants
  BY DEF NodeInv, Granting
<1>9. ASSUME NEW m \in Nodes, NEW r \in Runs, NEW k \in Nat,
             Holds(worker'[m], files'[m], r, k)
      PROVE  \/ Holds(worker[m], files[m], r, k)
             \/ /\ m = n /\ k = Len(runs[r].grants) + 1
                /\ k \in DOMAIN runs'[r].grants
  BY <1>2, <1>9
<1>10. Granting'
  <2>1. ASSUME NEW m \in Nodes, NEW r \in Runs, NEW k \in Nat,
               Holds(worker'[m], files'[m], r, k)
        PROVE  k \in DOMAIN runs'[r].grants
    BY <1>5, <1>8, <1>9, <2>1
  <2>2. ASSUME NEW r \in Runs, NEW i \in DOMAIN recorded'[r]
        PROVE  recorded'[r][i].token \in DOMAIN runs'[r].grants
    <3>1. \A j \in DOMAIN recorded[r] :
            recorded[r][j].token \in DOMAIN runs[r].grants
      BY DEF NodeInv, Granting
    <3>2. \A g \in files[n] : g.token \in Nat /\ Holds(worker[n], files[n], g.run, g.token)
      BY <1>1 DEF Outbox, File, Holds
    <3> QED
      BY <1>3, <1>5, <1>8, <3>1, <3>2
  <2>3. ASSUME NEW l \in Nodes, NEW m \in Nodes, NEW r \in Runs, NEW k \in Nat,
               Holds(worker'[l], files'[l], r, k),
               Holds(worker'[m], files'[m], r, k)
        PROVE  l = m
    <3>1. Holds(worker[l], files[l], r, k) /\ Holds(worker[m], files[m], r, k)
            => l = m
      BY DEF NodeInv, Granting
    <3> QED
      BY <1>6, <1>8, <1>9, <2>3, <3>1
  <2> QED
    BY <2>1, <2>2, <2>3 DEF Granting
<1>11. ASSUME NEW m \in Nodes
       PROVE  /\ Shape(worker'[m])
              /\ Truth(worker'[m], runs'[worker'[m].run])
              /\ FilesSound(files'[m], recorded')
              /\ Delivery(worker'[m], files'[m], recorded')
  <2>1. CASE m = n
    BY <1>2, <2>1
  <2>2. CASE m # n
    <3>1. /\ worker[m] \in Worker /\ files[m] \in SUBSET File
          /\ Shape(worker[m]) /\ Truth(worker[m], runs[worker[m].run])
          /\ FilesSound(files[m], recorded)
          /\ Delivery(worker[m], files[m], recorded)
      BY <1>1 DEF NodeInv
    <3>2. Truth(worker[m], runs'[worker[m].run])
      BY <1>4, <3>1, TruthKept
    <3>3. ASSUME NEW r \in Runs, NEW k \in Nat, Holds(worker[m], files[m], r, k)
          PROVE  Recorded(recorded'[r], k) = Recorded(recorded[r], k)
      <4>1. ~Holds(worker[n], files[n], r, k)
        BY <2>2, <3>3 DEF NodeInv, Granting
      <4> QED
        BY <1>3, <4>1 DEF Holds
    <3>4. /\ FilesSound(files[m], recorded')
          /\ Delivery(worker[m], files[m], recorded')
      BY <1>3, <3>1, <3>3, DeliveryKept
    <3> QED
      BY <1>2, <2>2, <3>1, <3>2, <3>4
  <2> QED
    BY <2>1, <2>2
<1> QED
  BY <1>3, <1>7, <1>10, <1>11 DEF NodeInv

(* The same for a step that leaves the outbox alone and keeps the          *)
(* assignment or gives it up.                                              *)
LEMMA WriteStep ==
  ASSUME StoreInv, NodeInv, [Next]_vars, NEW n \in Nodes,
         NEW v \in Worker, worker' = [worker EXCEPT ![n] = v],
         files' = files, Writes(files[n]), faults' \in 0 .. MaxFaults,
         \/ v.token = 0
         \/ v.run = worker[n].run /\ v.token = worker[n].token,
         Shape(v), Truth(v, runs'[v.run]), Delivery(v, files[n], recorded')
  PROVE  NodeInv'
<1>1. Outbox(files[n]) /\ files \in [Nodes -> SUBSET File]
  BY DEF NodeInv, NodeTypes
<1>2. files' = [files EXCEPT ![n] = files[n]]
  BY <1>1
<1>3. \A r \in Runs, k \in Nat : Holds(v, files[n], r, k) =>
        Holds(worker[n], files[n], r, k)
  BY DEF Holds
<1>4. FilesSound(files[n], recorded')
  BY WritesFacts
<1> QED
  BY <1>1, <1>2, <1>3, <1>4, LocalStep

(* And for one that leaves the records alone too.                          *)
LEMMA LoopStep ==
  ASSUME StoreInv, NodeInv, [Next]_vars, NEW n \in Nodes,
         NEW v \in Worker, worker' = [worker EXCEPT ![n] = v],
         files' = files, recorded' = recorded, faults' \in 0 .. MaxFaults,
         \/ v.token = 0
         \/ v.run = worker[n].run /\ v.token = worker[n].token,
         Shape(v), Truth(v, runs'[v.run]), Delivery(v, files[n], recorded)
  PROVE  NodeInv'
<1>1. Writes(files[n]) /\ Delivery(v, files[n], recorded')
  BY DEF Writes
<1> QED
  BY <1>1, WriteStep

(* A loop without an assignment knows nothing.                             *)
LEMMA AtFacts ==
  ASSUME NEW pc \in {"down", "recover", "idle", "claim"}
  PROVE  /\ At(pc) \in Worker /\ Shape(At(pc)) /\ At(pc).token = 0
         /\ \A x : Truth(At(pc), x)
         /\ \A F, events : Delivery(At(pc), F, events)
<1>1. /\ At(pc).pc = pc /\ At(pc).run = NoValue /\ At(pc).token = 0
      /\ At(pc).keeper = "off" /\ At(pc).sent = 0 /\ At(pc).report = NoValue
      /\ At(pc).reply = "unknown" /\ At(pc).ended = "none"
  BY DEF At
<1>2. At(pc) \in Worker
  BY DEF At, Worker
<1>3. NoValue \notin Results
  BY ConstantsAssumption
<1>4. Shape(At(pc))
  BY <1>1 DEF Shape, Acting
<1>5. \A x : Truth(At(pc), x)
  BY <1>1 DEF Truth
<1>6. \A F, events : Delivery(At(pc), F, events)
  BY <1>1, <1>3 DEF Delivery
<1> QED
  BY <1>1, <1>2, <1>4, <1>5, <1>6

(* So a step by which Node n drops its assignment keeps the invariant,     *)
(* whatever it wrote and whichever files it removed.                       *)
LEMMA DropStep ==
  ASSUME StoreInv, NodeInv, [Next]_vars, NEW n \in Nodes,
         NEW pc \in {"down", "recover", "idle", "claim"},
         worker' = [worker EXCEPT ![n] = At(pc)],
         NEW F \in SUBSET files[n], files' = [files EXCEPT ![n] = F],
         Writes(files[n]), faults' \in 0 .. MaxFaults
  PROVE  NodeInv'
<1>1. Outbox(files[n])
  BY DEF NodeInv, NodeTypes
<1>2. Outbox(F)
  <2>1. IsFiniteSet(F) /\ Cardinality(F) <= Cardinality(files[n])
        /\ Cardinality(F) \in Nat /\ Cardinality(files[n]) \in Nat
    BY <1>1, FS_Subset, FS_CardinalityType DEF Outbox
  <2> QED
    BY <1>1, <2>1, WorkerAssumption DEF Outbox
<1>3. FilesSound(F, recorded')
  <2>1. FilesSound(files[n], recorded')
    BY WritesFacts
  <2> QED
    BY <2>1 DEF FilesSound
<1>4. \A r \in Runs, k \in Nat : Holds(At(pc), F, r, k) =>
        Holds(worker[n], files[n], r, k)
  BY AtFacts DEF Holds
<1> QED
  BY <1>2, <1>3, <1>4, AtFacts, LocalStep

-----------------------------------------------------------------------------
(* The actions, one lemma for those that go together.                      *)

(* Faults are counted within their bound.                                  *)
LEMMA FaultsBounded ==
  ASSUME NodeInv, Fault \/ faults' = faults
  PROVE  faults' \in 0 .. MaxFaults
<1>1. faults \in 0 .. MaxFaults /\ MaxFaults \in Nat
  BY WorkerAssumption DEF NodeInv, NodeTypes
<1>2. CASE faults' = faults
  BY <1>1, <1>2
<1>3. CASE Fault
  <2>1. faults < MaxFaults /\ faults' = faults + 1
    BY <1>3 DEF Fault
  <2> QED
    BY <1>1, <2>1
<1> QED
  BY <1>2, <1>3

(* The store goes on by itself.                                            *)
LEMMA IdleKeeps ==
  ASSUME StoreInv, NodeInv, [Next]_vars, Idle
  PROVE  NodeInv'
<1>1. worker' = worker /\ files' = files /\ recorded' = recorded /\ faults' = faults
  BY DEF Idle
<1>2. \A r \in Runs : GoesOn(runs[r], runs'[r])
  BY RowsGoOn
<1>3. NodeTypes' /\ EventsInOrder'
  BY <1>1 DEF NodeInv, NodeTypes, EventsInOrder
<1>4. Granting'
  <2>1. \A r \in Runs : DOMAIN runs[r].grants \subseteq DOMAIN runs'[r].grants
    BY <1>2 DEF GoesOn
  <2> QED
    BY <1>1, <2>1 DEF NodeInv, Granting
<1>5. ASSUME NEW n \in Nodes
      PROVE  Truth(worker[n], runs'[worker[n].run])
  BY <1>2, TruthKept DEF NodeInv, NodeTypes
<1> QED
  BY <1>1, <1>3, <1>4, <1>5 DEF NodeInv

(* The steps after which the loop has no assignment.                       *)
LEMMA DropsKeep ==
  ASSUME NoForeignSuccess, StoreInv, NodeInv, [Next]_vars, NEW n \in Nodes,
         \/ Boot(n)
         \/ Interrupt(n)
         \/ RecoverEnds(n)
         \/ NotClaimed(n)
         \/ ClaimCall(n)
         \/ \E cause \in Causes : PrepareFails(n, cause)
         \/ RecoverFails(n)
         \/ \E f \in files[n] : RecoverRejected(n, f)
         \/ Crash(n)
  PROVE  NodeInv'
<1>1. files \in [Nodes -> SUBSET File] /\ worker \in [Nodes -> Worker]
  BY DEF NodeInv, NodeTypes
<1>2. files' = files => files' = [files EXCEPT ![n] = files[n]]
  BY <1>1
<1>3. recorded' = recorded => Writes(files[n])
  BY DEF Writes
<1>4. ASSUME NEW pc \in {"down", "recover", "idle", "claim"},
             Set(n, At(pc)), UNCHANGED files, Writes(files[n]),
             Fault \/ faults' = faults
      PROVE  NodeInv'
  BY <1>2, <1>4, FaultsBounded, DropStep DEF Set
<1>5. CASE Boot(n)
  BY <1>3, <1>4, <1>5 DEF Boot
<1>6. CASE Interrupt(n)
  <2> DEFINE F == files[n] \ {Pending(worker[n])}
  <2>1. /\ files' = [files EXCEPT ![n] = F] /\ Set(n, At("recover"))
        /\ recorded' = recorded /\ faults' = faults
    BY <1>6 DEF Interrupt, remove
  <2>2. F \in SUBSET files[n]
    OBVIOUS
  <2> HIDE DEF F
  <2> QED
    BY <1>3, <2>1, <2>2, FaultsBounded, DropStep DEF Set
<1>7. CASE RecoverEnds(n)
  BY <1>3, <1>4, <1>7 DEF RecoverEnds
<1>8. CASE NotClaimed(n)
  BY <1>3, <1>4, <1>8 DEF NotClaimed
<1>9. CASE ClaimCall(n)
  BY <1>3, <1>4, <1>9 DEF ClaimCall
<1>10. ASSUME NEW cause \in Causes, PrepareFails(n, cause) PROVE NodeInv'
  BY <1>3, <1>4, <1>10 DEF PrepareFails, ReturnsError
<1>11. CASE RecoverFails(n)
  <2>1. Writes(files[n])
    BY <1>11 DEF RecoverFails, Writes
  <2>2. Set(n, At("down")) /\ UNCHANGED files /\ Fault
    BY <1>11 DEF RecoverFails
  <2> QED
    BY <1>4, <2>1, <2>2
<1>12. ASSUME NEW f \in files[n], RecoverRejected(n, f) PROVE NodeInv'
  <2>1. /\ Set(n, At("down")) /\ UNCHANGED files /\ Fault
        /\ recorded' = recorded
    BY <1>12, NotMisled DEF RecoverRejected
  <2> QED
    BY <1>3, <1>4, <2>1
<1>13. CASE Crash(n)
  BY <1>3, <1>4, <1>13 DEF Crash
<1> QED
  BY <1>5, <1>6, <1>7, <1>8, <1>9, <1>10, <1>11, <1>12, <1>13

(* Recover: the event of a file is on record, or the file is removed.      *)
LEMMA RecoverKeeps ==
  ASSUME StoreInv, NodeInv, [Next]_vars, NEW n \in Nodes, NEW f \in files[n],
         Recover(n, f)
  PROVE  NodeInv'
<1>1. /\ files \in [Nodes -> SUBSET File] /\ worker \in [Nodes -> Worker]
      /\ Outbox(files[n]) /\ f \in File
  BY DEF NodeInv, NodeTypes, Outbox
<1>2. worker[n] = At("recover") /\ faults' = faults
  BY DEF Recover, NodeInv, Shape
<1>3. CASE Answered(AppendReply(runs[f.run], f.token)) = "ok"
  <2> DEFINE v == [At("interrupt") EXCEPT !.run   = f.run,
                                          !.token = f.token,
                                          !.sent  = f.id]
  <2>1. /\ AppendEvent(f) /\ worker' = [worker EXCEPT ![n] = v]
        /\ files' = files
    BY <1>3 DEF Recover, Set
  <2>2. f.run \in Runs /\ f.token \in Nat /\ f.id \in Nat
    BY <1>1 DEF File
  <2>3. f.token # 0
    <3>1. Holds(worker[n], files[n], f.run, f.token)
      BY DEF Holds
    <3>2. f.token \in DOMAIN runs[f.run].grants
      BY <2>2, <3>1 DEF NodeInv, Granting
    <3>3. 0 \notin DOMAIN runs[f.run].grants
      BY <2>2, LenProperties DEF StoreInv, AllGood, Good, Run
    <3> QED
      BY <3>2, <3>3
  <2>4. /\ v \in Worker
        /\ v.pc = "interrupt" /\ v.run = f.run /\ v.token = f.token
        /\ v.sent = f.id /\ v.keeper = "off" /\ v.reply = "unknown"
        /\ v.report = NoValue /\ v.ended = "none"
    BY <2>2 DEF At, Worker
  <2> HIDE DEF v
  <2>5. Shape(v) /\ Truth(v, runs'[v.run])
    BY <2>2, <2>3, <2>4 DEF Shape, Truth, Acting
  <2>6. Pending(v) = f
    BY <1>1, <2>4 DEF Pending, File
  <2>7. EventOf(f) \in ToSet(recorded'[f.run])
    BY <2>1, AppendFromFile
  <2>8. Delivery(v, files[n], recorded')
    <3>1. v.report \notin Results
      BY <2>4, ConstantsAssumption
    <3> QED
      BY <2>4, <2>6, <2>7, <3>1 DEF Delivery, EventOf
  <2>9. Writes(files[n]) /\ FilesSound(files[n], recorded')
    <3>1. Writes(files[n])
      BY <2>1 DEF Writes
    <3> QED
      BY <3>1, WritesFacts
  <2>10. \A r \in Runs, k \in Nat : Holds(v, files[n], r, k) =>
           Holds(worker[n], files[n], r, k)
    BY <2>4 DEF Holds
  <2>11. files' = [files EXCEPT ![n] = files[n]] /\ faults' \in 0 .. MaxFaults
    BY <1>1, <1>2, <2>1, FaultsBounded
  <2> QED
    BY <1>1, <2>1, <2>4, <2>5, <2>8, <2>9, <2>10, <2>11, LocalStep
<1>4. CASE Answered(AppendReply(runs[f.run], f.token)) # "ok"
  <2> DEFINE F == files[n] \ {f}
  <2>1. /\ files' = [files EXCEPT ![n] = F]
        /\ worker' = worker /\ recorded' = recorded
    BY <1>4 DEF Recover, remove
  <2>2. worker' = [worker EXCEPT ![n] = At("recover")]
    BY <1>1, <1>2, <2>1
  <2>3. F \in SUBSET files[n] /\ Writes(files[n])
    BY <2>1 DEF Writes
  <2> HIDE DEF F
  <2> QED
    BY <1>2, <2>1, <2>2, <2>3, FaultsBounded, DropStep
<1> QED
  BY <1>3, <1>4

(* Claim: the token is new, so nothing is on record or saved of it.        *)
LEMMA ClaimedKeeps ==
  ASSUME StoreInv, NodeInv, [Next]_vars, NEW n \in Nodes, NEW r \in Runs,
         Claimed(n, r)
  PROVE  NodeInv'
<1> DEFINE k == Len(runs[r].grants) + 1
           v == [At("prepare") EXCEPT !.run = r, !.token = k]
<1>1. /\ files \in [Nodes -> SUBSET File] /\ Outbox(files[n])
      /\ recorded \in [Runs -> Seq(Record)]
  BY DEF NodeInv, NodeTypes
<1>2. files' = files /\ recorded' = recorded /\ Writes(files[n])
  BY DEF Claimed, Writes
<1>3. files' = [files EXCEPT ![n] = files[n]]
  BY <1>1, <1>2
<1>4. runs[r] \in Run /\ runs'[r] \in Run
      /\ runs' = [runs EXCEPT ![r] = Leased(runs[r], claims[n].node)]
  BY StoreInvKept DEF StoreInv, AllGood, Good, Claimed, ClaimCommit
<1>5. /\ runs[r].grants \in Seq(Nat) /\ runs'[r].grants \in Seq(Nat)
      /\ Number(runs[r]) \in Nat
      /\ runs'[r].grants = Append(runs[r].grants, Number(runs[r]))
  <2>1. runs'[r] = Leased(runs[r], claims[n].node)
    BY <1>4 DEF StoreInv, AllGood
  <2>2. Leased(runs[r], claims[n].node).grants
          = Append(runs[r].grants, Number(runs[r]))
    BY <1>4 DEF Leased, Run
  <2>3. runs[r].grants \in Seq(Nat) /\ runs'[r].grants \in Seq(Nat)
    BY <1>4 DEF Run
  <2>4. Number(runs[r]) \in Nat
    BY <1>4, LenProperties DEF Run, Number
  <2> QED
    BY <2>1, <2>2, <2>3, <2>4
<1>6. /\ k \in Nat /\ k # 0 /\ k \notin DOMAIN runs[r].grants
      /\ k \in DOMAIN runs'[r].grants
  BY <1>5, AppendProperties, LenProperties
<1>7. CASE Set(n, v) /\ UNCHANGED faults
  <2>1. /\ v \in Worker /\ v.pc = "prepare" /\ v.run = r /\ v.token = k
        /\ v.sent = 0 /\ v.keeper = "off" /\ v.reply = "unknown"
        /\ v.report = NoValue /\ v.ended = "none"
    BY <1>6 DEF At, Worker
  <2>2. worker' = [worker EXCEPT ![n] = v] /\ faults' \in 0 .. MaxFaults
    BY <1>7, FaultsBounded DEF Set
  <2> HIDE DEF v
  <2>3. Shape(v) /\ Truth(v, runs'[v.run])
    BY <1>6, <2>1 DEF Shape, Truth, Acting
  <2>4. ASSUME NEW q \in Runs, NEW j \in Nat, Holds(v, files[n], q, j)
        PROVE  \/ Holds(worker[n], files[n], q, j)
               \/ j = Len(runs[q].grants) + 1 /\ j \in DOMAIN runs'[q].grants
    BY <1>6, <2>1, <2>4 DEF Holds
  <2>5. \A f \in files[n] : ~(f.run = r /\ f.token = k)
    <3>1. \A f \in files[n] : f.run = r /\ f.token = k =>
            Holds(worker[n], files[n], r, k)
      BY DEF Holds
    <3> QED
      BY <1>6, <3>1 DEF NodeInv, Granting
  <2>6. Recorded(recorded[r], k) = {}
    <3>1. \A i \in DOMAIN recorded[r] : recorded[r][i].token # k
      BY <1>6 DEF NodeInv, Granting
    <3>2. DOMAIN recorded[r] = 1 .. Len(recorded[r])
      BY <1>1, LenProperties
    <3> QED
      BY <3>1, <3>2 DEF Recorded, EventIds
  <2>7. AllRecorded(v, files[n], recorded')
    <3>1. 1 .. 0 = {}
      OBVIOUS
    <3> QED
      BY <1>2, <2>1, <2>5, <2>6, <3>1 DEF AllRecorded
  <2>8. Delivery(v, files[n], recorded')
    BY <2>1, <2>7 DEF Delivery
  <2>9. FilesSound(files[n], recorded')
    BY <1>2, WritesFacts
  <2> QED
    BY <1>1, <1>2, <1>3, <2>1, <2>2, <2>3, <2>4, <2>8, <2>9, LocalStep
<1>8. CASE Fault /\ Set(n, At("idle"))
  BY <1>2, <1>3, <1>8, FaultsBounded, DropStep DEF Set
<1> QED
  BY <1>7, <1>8 DEF Claimed

(* Start: the execution begins with nothing on record, or not at all.      *)
LEMMA StartCallKeeps ==
  ASSUME StoreInv, NodeInv, [Next]_vars, NEW n \in Nodes, StartCall(n)
  PROVE  NodeInv'
<1> DEFINE w == worker[n]
           reply == Answered(StartReply(runs[w.run], w.token))
<1>1. /\ files \in [Nodes -> SUBSET File] /\ w \in Worker /\ Shape(w)
      /\ Delivery(w, files[n], recorded)
  BY DEF NodeInv, NodeTypes
<1>2. w.pc = "prepare" /\ files' = files /\ recorded' = recorded
  BY DEF StartCall
<1>3. /\ w.token # 0 /\ w.run \in Runs /\ w.keeper = "off"
      /\ w.reply = "unknown" /\ w.report = NoValue /\ w.ended = "none"
  BY <1>1, <1>2 DEF Shape, Acting
<1>4. NoValue \notin Results /\ AllRecorded(w, files[n], recorded)
  BY <1>1, <1>2, ConstantsAssumption DEF Delivery
<1>5. CASE /\ Start(w.run, w.token)
           /\ Set(n, [w EXCEPT !.pc = "execute", !.keeper = "on"])
           /\ UNCHANGED faults
  <2> DEFINE v == [w EXCEPT !.pc = "execute", !.keeper = "on"]
  <2>1. /\ v \in Worker /\ v.pc = "execute" /\ v.keeper = "on"
        /\ v.run = w.run /\ v.token = w.token /\ v.sent = w.sent
        /\ v.reply = w.reply /\ v.report = w.report /\ v.ended = w.ended
    BY <1>1 DEF Worker
  <2>2. worker' = [worker EXCEPT ![n] = v] /\ faults' \in 0 .. MaxFaults
    BY <1>5, FaultsBounded DEF Set
  <2> HIDE DEF v
  <2>3. Shape(v) /\ Truth(v, runs'[v.run])
    BY <1>3, <2>1 DEF Shape, Truth, Acting
  <2>4. Delivery(v, files[n], recorded)
    BY <1>3, <1>4, <2>1 DEF Delivery, AllRecorded
  <2> QED
    BY <1>2, <2>1, <2>2, <2>3, <2>4, LoopStep
<1>6. CASE /\ reply = "run_cancelled"
           /\ Set(n, [w EXCEPT !.pc = "acknowledge", !.reply = reply])
           /\ UNCHANGED <<runs, capacity, claims, faults>>
  <2> DEFINE v == [w EXCEPT !.pc = "acknowledge", !.reply = "run_cancelled"]
  <2>1. /\ v \in Worker /\ v.pc = "acknowledge" /\ v.reply = "run_cancelled"
        /\ v.run = w.run /\ v.token = w.token /\ v.sent = w.sent
        /\ v.keeper = w.keeper /\ v.report = w.report /\ v.ended = w.ended
    BY <1>1 DEF Worker
  <2>2. worker' = [worker EXCEPT ![n] = v] /\ faults' \in 0 .. MaxFaults
    BY <1>6, FaultsBounded DEF Set
  <2>3. runs'[w.run].status = "cancelling"
    BY <1>6, AnswersAreReplies DEF StartReply
  <2> HIDE DEF v
  <2>4. Shape(v) /\ Truth(v, runs'[v.run])
    BY <1>3, <2>1, <2>3 DEF Shape, Truth, Acting
  <2>5. Delivery(v, files[n], recorded)
    BY <1>3, <1>4, <2>1 DEF Delivery
  <2> QED
    BY <1>2, <2>1, <2>2, <2>4, <2>5, LoopStep
<1>7. CASE Set(n, ReturnsError) /\ (Fault \/ faults' = faults)
  <2>1. Writes(files[n]) /\ files' = [files EXCEPT ![n] = files[n]]
    BY <1>1, <1>2 DEF Writes
  <2> QED
    BY <1>7, <2>1, FaultsBounded, DropStep DEF Set, ReturnsError
<1> QED
  BY <1>5, <1>6, <1>7 DEF StartCall

(* keepLease: a Node that is told of a cancellation is told the truth.     *)
LEMMA KeeperKeeps ==
  ASSUME StoreInv, NodeInv, [Next]_vars, NEW n \in Nodes, keepLease(n)
  PROVE  NodeInv'
<1> DEFINE w == worker[n]
<1>1. /\ worker \in [Nodes -> Worker] /\ w \in Worker /\ Shape(w)
      /\ Truth(w, runs[w.run]) /\ Delivery(w, files[n], recorded)
  BY DEF NodeInv, NodeTypes
<1>2. w.keeper = "on" /\ files' = files /\ recorded' = recorded
  BY DEF keepLease
<1>3. /\ w.pc \in {"execute", "send", "report", "stop"}
      /\ w.token # 0 /\ w.run \in Runs /\ w.ended = "none"
  BY <1>1, <1>2 DEF Shape, Acting
<1>4. \A r \in Runs : GoesOn(runs[r], runs'[r])
  BY RowsGoOn
<1>5. Truth(w, runs'[w.run])
  BY <1>1, <1>4, TruthKept
<1>6. faults' \in 0 .. MaxFaults
  BY FaultsBounded DEF keepLease
<1>7. CASE worker' = worker
  <2>1. worker' = [worker EXCEPT ![n] = w]
    BY <1>1, <1>7
  <2> QED
    BY <1>1, <1>2, <1>5, <1>6, <2>1, LoopStep
<1>8. ASSUME NEW v, NEW c, v = [w EXCEPT !.keeper = c, !.cancelled = TRUE],
             c = "lost" \/ /\ c = "cancelled"
                           /\ runs'[w.run].status \in {"cancelling", "cancelled"},
             worker' = [worker EXCEPT ![n] = v]
      PROVE  NodeInv'
  <2>1. /\ v \in Worker /\ v.keeper = c
        /\ v.pc = w.pc /\ v.run = w.run /\ v.token = w.token
        /\ v.sent = w.sent /\ v.eventErr = w.eventErr
        /\ v.reply = w.reply /\ v.report = w.report /\ v.ended = w.ended
    BY <1>1, <1>8 DEF Worker
  <2>2. Shape(v)
    BY <1>1, <1>3, <2>1 DEF Shape, Acting
  <2>3. Truth(v, runs'[v.run])
    BY <1>5, <1>8, <2>1 DEF Truth, Told, EndedAs
  <2>4. Delivery(v, files[n], recorded)
    BY <1>1, <2>1 DEF Delivery, AllRecorded, Pending
  <2> QED
    BY <1>2, <1>6, <1>8, <2>1, <2>2, <2>3, <2>4, LoopStep
<1>9. CASE Renew(w.run, w.token) /\ Set(n, Renewed(w, runs[w.run]))
  <2>1. CASE ~runs[w.run].cancelRequested
    BY <1>1, <1>7, <1>9, <2>1 DEF Renewed, Set
  <2>2. CASE runs[w.run].cancelRequested
    <3>1. Renewed(w, runs[w.run]) = [w EXCEPT !.keeper = "cancelled",
                                              !.cancelled = TRUE]
      BY <1>1, <2>2 DEF Renewed, cancelExecution, Worker
    <3>2. runs[w.run].status \in {"cancelling", "cancelled"}
      <4>1. AbsentRun.cancelRequested = FALSE
        BY DEF AbsentRun
      <4> QED
        BY <1>3, <2>2, <4>1 DEF StoreInv, AllGood, Good, Coherent
    <3>3. runs'[w.run].status \in {"cancelling", "cancelled"}
      BY <1>3, <1>4, <3>2 DEF GoesOn
    <3> QED
      BY <1>8, <1>9, <3>1, <3>3 DEF Set
  <2> QED
    BY <2>1, <2>2
<1>10. CASE Set(n, cancelExecution([w EXCEPT !.keeper = "lost"]))
  <2>1. cancelExecution([w EXCEPT !.keeper = "lost"])
          = [w EXCEPT !.keeper = "lost", !.cancelled = TRUE]
    BY <1>1 DEF cancelExecution, Worker
  <2> QED
    BY <1>8, <1>10, <2>1 DEF Set
<1> QED
  BY <1>7, <1>9, <1>10 DEF keepLease

(* What a loop was told does not depend on where it is.                    *)
LEMMA SameTruth ==
  ASSUME NEW w, NEW v, NEW x, Truth(w, x),
         v.keeper = w.keeper, v.reply = w.reply, v.report = w.report,
         v.ended = w.ended, v.token = w.token, v.pc # "acknowledge"
  PROVE  Truth(v, x)
BY DEF Truth, Told, EndedAs

(* The loop after an event failed: nothing more is delivered.              *)
LEMMA EventFailsFacts ==
  ASSUME NEW w \in Worker
  PROVE  LET v == EventFails(w) IN
         /\ v \in Worker /\ v.pc = "execute" /\ v.eventErr
         /\ v.run = w.run /\ v.token = w.token /\ v.sent = w.sent
         /\ v.keeper = w.keeper /\ v.reply = w.reply /\ v.report = w.report
         /\ v.ended = w.ended
<1>1. EventFails(w) = [w EXCEPT !.pc = "execute", !.eventErr = TRUE,
                                !.cancelled = TRUE]
  BY DEF EventFails, cancelExecution, Worker
<1> QED
  BY <1>1 DEF Worker

(* emit: the next event is saved before it is sent, or the execution has   *)
(* lost it and will not succeed.                                           *)
LEMMA EmitKeeps ==
  ASSUME StoreInv, NodeInv, [Next]_vars, NEW n \in Nodes, Emit(n)
  PROVE  NodeInv'
<1> DEFINE w    == worker[n]
           sent == w.sent + 1
           next == [w EXCEPT !.pc = "send", !.sent = sent]
<1>1. /\ files \in [Nodes -> SUBSET File] /\ Outbox(files[n])
      /\ w \in Worker /\ Shape(w) /\ Truth(w, runs[w.run])
      /\ FilesSound(files[n], recorded) /\ Delivery(w, files[n], recorded)
  BY DEF NodeInv, NodeTypes
<1>2. /\ w.pc = "execute" /\ ~w.eventErr
      /\ recorded' = recorded /\ faults' = faults /\ runs' = runs
  BY DEF Emit
<1>3. /\ w.token # 0 /\ w.run \in Runs /\ w.reply = "unknown"
      /\ w.report = NoValue /\ w.ended = "none"
  BY <1>1, <1>2 DEF Shape, Acting
<1>4. NoValue \notin Results /\ AllRecorded(w, files[n], recorded)
  BY <1>1, <1>2, ConstantsAssumption DEF Delivery
<1>5. w.sent \in Nat /\ sent \in Nat /\ sent # 0 /\ sent - 1 = w.sent
  BY <1>1 DEF Worker
<1> HIDE DEF sent
<1>6. /\ next \in Worker /\ next.pc = "send" /\ next.sent = sent
      /\ next.run = w.run /\ next.token = w.token /\ next.keeper = w.keeper
      /\ next.reply = w.reply /\ next.report = w.report
      /\ next.ended = w.ended
  BY <1>1, <1>5 DEF Worker
<1>7. /\ Cardinality(files[n]) < MaxFiles =>
           /\ files' = [files EXCEPT ![n] = files[n] \union {Pending(next)}]
           /\ worker' = [worker EXCEPT ![n] = next]
      /\ ~(Cardinality(files[n]) < MaxFiles) =>
           files' = files /\ worker' = [worker EXCEPT ![n] = EventFails(next)]
  BY <1>1 DEF Emit, Set, sent
<1>8. faults' \in 0 .. MaxFaults
  BY <1>2, FaultsBounded
<1> HIDE DEF next
<1>9. CASE Cardinality(files[n]) < MaxFiles
  <2> DEFINE f == Pending(next)
             F == files[n] \union {f}
  <2>1. /\ f \in File /\ f.run = w.run /\ f.token = w.token /\ f.id = sent
    BY <1>1, <1>3, <1>5, <1>6 DEF Pending, File, Worker
  <2>2. Outbox(F)
    <3>1. /\ IsFiniteSet(F) /\ Cardinality(files[n]) \in Nat
          /\ \/ Cardinality(F) = Cardinality(files[n])
             \/ Cardinality(F) = Cardinality(files[n]) + 1
      BY <1>1, FS_AddElement, FS_CardinalityType DEF Outbox
    <3>2. F \in SUBSET File
      BY <1>1, <2>1 DEF Outbox
    <3> QED
      BY <1>9, <3>1, <3>2, WorkerAssumption DEF Outbox
  <2>3. FilesSound(F, recorded')
    <3>1. Recorded(recorded[f.run], f.token) = 1 .. f.id - 1
      BY <1>4, <1>5, <2>1 DEF AllRecorded
    <3>2. \A g \in files[n] : ~(g.run = f.run /\ g.token = f.token)
      BY <1>4, <2>1 DEF AllRecorded
    <3> QED
      BY <1>1, <1>2, <3>1, <3>2 DEF FilesSound
  <2>4. Shape(next)
    BY <1>1, <1>2, <1>3, <1>6 DEF Shape, Acting
  <2>5. Truth(next, runs'[next.run])
    BY <1>1, <1>2, <1>6, SameTruth
  <2>6. Delivery(next, F, recorded')
    BY <1>3, <1>4, <1>6 DEF Delivery
  <2>7. \A r \in Runs, k \in Nat : Holds(next, F, r, k) =>
          Holds(w, files[n], r, k)
    BY <1>3, <1>6, <2>1 DEF Holds
  <2>8. Writes(files[n])
    BY <1>2 DEF Writes
  <2>9. files' = [files EXCEPT ![n] = F] /\ worker' = [worker EXCEPT ![n] = next]
    BY <1>7, <1>9
  <2> HIDE DEF F, f
  <2> QED
    BY <1>6, <1>8, <2>2, <2>3, <2>4, <2>5, <2>6, <2>7, <2>8, <2>9, LocalStep
<1>10. CASE ~(Cardinality(files[n]) < MaxFiles)
  <2> DEFINE v == EventFails(next)
  <2>1. /\ v \in Worker /\ v.pc = "execute" /\ v.eventErr
        /\ v.run = w.run /\ v.token = w.token /\ v.keeper = w.keeper
        /\ v.reply = w.reply /\ v.report = w.report /\ v.ended = w.ended
    BY <1>6, EventFailsFacts
  <2>2. files' = files /\ worker' = [worker EXCEPT ![n] = v]
    BY <1>7, <1>10
  <2> HIDE DEF v
  <2>3. Shape(v) /\ Delivery(v, files[n], recorded)
    BY <1>3, <1>4, <2>1 DEF Shape, Acting, Delivery
  <2>4. Truth(v, runs'[v.run])
    BY <1>1, <1>2, <2>1, SameTruth
  <2> QED
    BY <1>2, <1>8, <2>1, <2>2, <2>3, <2>4, LoopStep
<1> QED
  BY <1>9, <1>10

(* deliver: an accepted event is on record and its file gone, or the file  *)
(* is kept.                                                                *)
LEMMA DeliverKeeps ==
  ASSUME StoreInv, NodeInv, [Next]_vars, NEW n \in Nodes,
         Deliver(n) \/ DeliveryTimesOut(n)
  PROVE  NodeInv'
<1> DEFINE w == worker[n]
           f == Pending(w)
<1>1. /\ files \in [Nodes -> SUBSET File] /\ worker \in [Nodes -> Worker]
      /\ Outbox(files[n])
      /\ w \in Worker /\ Shape(w) /\ Truth(w, runs[w.run])
      /\ FilesSound(files[n], recorded) /\ Delivery(w, files[n], recorded)
  BY DEF NodeInv, NodeTypes
<1>2. w.pc = "send" /\ runs' = runs
  BY DEF Deliver, DeliveryTimesOut, storeVars
<1>3. /\ w.token # 0 /\ w.run \in Runs /\ w.reply = "unknown"
      /\ w.report = NoValue /\ w.ended = "none"
  BY <1>1, <1>2 DEF Shape, Acting
<1>4. NoValue \notin Results /\ f \in files[n]
  BY <1>1, <1>2, ConstantsAssumption DEF Delivery
<1>5. f.run = w.run /\ f.token = w.token /\ f.id = w.sent
  BY DEF Pending
<1>6. faults' \in 0 .. MaxFaults
  BY FaultsBounded DEF Deliver, DeliveryTimesOut
<1>7. ASSUME Set(n, EventFails(w)), Writes(files[n]), files' = files
      PROVE  NodeInv'
  <2> DEFINE v == EventFails(w)
  <2>1. /\ v \in Worker /\ v.pc = "execute" /\ v.eventErr
        /\ v.run = w.run /\ v.token = w.token /\ v.keeper = w.keeper
        /\ v.reply = w.reply /\ v.report = w.report /\ v.ended = w.ended
    BY <1>1, EventFailsFacts
  <2>2. worker' = [worker EXCEPT ![n] = v]
    BY <1>7 DEF Set
  <2> HIDE DEF v
  <2>3. Shape(v) /\ Delivery(v, files[n], recorded')
    BY <1>3, <1>4, <2>1 DEF Shape, Acting, Delivery
  <2>4. Truth(v, runs'[v.run])
    BY <1>1, <1>2, <2>1, SameTruth
  <2> QED
    BY <1>6, <1>7, <2>1, <2>2, <2>3, <2>4, WriteStep
<1>8. ASSUME AppendEvent(f), Set(n, [w EXCEPT !.pc = "execute"]), remove(n, f)
      PROVE  NodeInv'
  <2> DEFINE v == [w EXCEPT !.pc = "execute"]
             F == files[n] \ {f}
  <2>1. /\ v \in Worker /\ v.pc = "execute" /\ v.sent = w.sent
        /\ v.run = w.run /\ v.token = w.token /\ v.keeper = w.keeper
        /\ v.reply = w.reply /\ v.report = w.report /\ v.ended = w.ended
    BY <1>1 DEF Worker
  <2>2. worker' = [worker EXCEPT ![n] = v] /\ files' = [files EXCEPT ![n] = F]
    BY <1>8 DEF Set, remove
  <2>3. Writes(files[n])
    BY <1>4, <1>8 DEF Writes
  <2>4. Outbox(F)
    <3>1. IsFiniteSet(F) /\ Cardinality(F) <= Cardinality(files[n])
          /\ Cardinality(F) \in Nat /\ Cardinality(files[n]) \in Nat
      BY <1>1, FS_Subset, FS_CardinalityType DEF Outbox
    <3> QED
      BY <1>1, <3>1, WorkerAssumption DEF Outbox
  <2>5. FilesSound(F, recorded')
    <3>1. FilesSound(files[n], recorded')
      BY <2>3, WritesFacts
    <3> QED
      BY <3>1 DEF FilesSound
  <2>6. AllRecorded(v, F, recorded')
    <3>1. Recorded(recorded'[f.run], f.token) = 1 .. f.id
      BY <1>4, <1>8, AppendFromFile
    <3>2. \A g \in F : ~(g.run = w.run /\ g.token = w.token)
      BY <1>1, <1>4, <1>5 DEF FilesSound
    <3> QED
      BY <1>5, <2>1, <3>1, <3>2 DEF AllRecorded
  <2>7. \A r \in Runs, k \in Nat : Holds(v, F, r, k) => Holds(w, files[n], r, k)
    BY <2>1 DEF Holds
  <2> HIDE DEF v, F
  <2>8. Shape(v)
    BY <1>1, <1>2, <1>3, <2>1 DEF Shape, Acting
  <2>9. Truth(v, runs'[v.run])
    BY <1>1, <1>2, <2>1, SameTruth
  <2>10. Delivery(v, F, recorded')
    BY <1>3, <1>4, <2>1, <2>6 DEF Delivery
  <2> QED
    BY <1>6, <2>1, <2>2, <2>3, <2>4, <2>5, <2>7, <2>8, <2>9, <2>10, LocalStep
<1>9. ASSUME AppendEvent(f), UNCHANGED <<worker, files>>
      PROVE  NodeInv'
  <2>1. worker' = [worker EXCEPT ![n] = w] /\ files' = files
    BY <1>1, <1>9
  <2>2. Writes(files[n])
    BY <1>4, <1>9 DEF Writes
  <2>3. Delivery(w, files[n], recorded')
    BY <1>2, <1>3, <1>4 DEF Delivery
  <2> QED
    BY <1>1, <1>2, <1>6, <2>1, <2>2, <2>3, WriteStep
<1>10. CASE Deliver(n)
  <2>1. \/ AppendEvent(f) /\ Set(n, [w EXCEPT !.pc = "execute"]) /\ remove(n, f)
        \/ AppendEvent(f) /\ UNCHANGED <<worker, files>>
        \/ Set(n, EventFails(w)) /\ files' = files /\ recorded' = recorded
    BY <1>10 DEF Deliver
  <2>2. recorded' = recorded => Writes(files[n])
    BY DEF Writes
  <2> HIDE DEF f
  <2> QED
    BY <1>7, <1>8, <1>9, <2>1, <2>2
<1>11. CASE DeliveryTimesOut(n)
  <2>1. Set(n, EventFails(w)) /\ files' = files
        /\ (AppendEvent(f) \/ recorded' = recorded)
    BY <1>11 DEF DeliveryTimesOut
  <2>2. Writes(files[n])
    BY <1>4, <2>1 DEF Writes
  <2> QED
    BY <1>7, <2>1, <2>2
<1> QED
  BY <1>10, <1>11

(* The runtime returns: it has a result only when all its events are on    *)
(* record.                                                                 *)
LEMMA ExecutedKeeps ==
  ASSUME StoreInv, NodeInv, [Next]_vars, NEW n \in Nodes, NEW report,
         ExecuteReturns(n, report)
  PROVE  NodeInv'
<1> DEFINE w == worker[n]
           v == [w EXCEPT !.pc = "report", !.report = report]
<1>1. /\ w \in Worker /\ Shape(w) /\ Truth(w, runs[w.run])
      /\ Delivery(w, files[n], recorded)
  BY DEF NodeInv, NodeTypes
<1>2. /\ w.pc = "execute" /\ report \in Reports(w)
      /\ worker' = [worker EXCEPT ![n] = v] /\ runs' = runs
      /\ files' = files /\ recorded' = recorded /\ faults' = faults
  BY DEF ExecuteReturns, Set
<1>3. /\ w.token # 0 /\ w.run \in Runs /\ w.reply = "unknown"
      /\ w.ended = "none"
  BY <1>1, <1>2 DEF Shape, Acting
<1>4. /\ report \in Results \union Causes /\ report # NoValue
      /\ report \in Results => ~w.eventErr
  BY <1>2, ConstantsAssumption, WorkerAssumption DEF Reports
<1>5. /\ v \in Worker /\ v.pc = "report" /\ v.report = report
      /\ v.run = w.run /\ v.token = w.token /\ v.sent = w.sent
      /\ v.keeper = w.keeper /\ v.reply = w.reply /\ v.ended = w.ended
  BY <1>1, <1>4 DEF Worker
<1> HIDE DEF v
<1>6. Shape(v)
  BY <1>1, <1>2, <1>3, <1>4, <1>5 DEF Shape, Acting
<1>7. Truth(v, runs'[v.run])
  BY <1>1, <1>2, <1>3, <1>5 DEF Truth
<1>8. Delivery(v, files[n], recorded)
  BY <1>1, <1>2, <1>4, <1>5 DEF Delivery, AllRecorded
<1> QED
  BY <1>2, <1>5, <1>6, <1>7, <1>8, FaultsBounded, LoopStep

(* A report that is accepted, for the first time or again, is what ended   *)
(* the Run.                                                                *)
LEMMA AcceptedReport ==
  ASSUME NEW x, Good(x), Present(x), NEW k, NEW v
  PROVE  /\ CompleteReply(x, k, v) = "ok" =>
              LET y == Completed(x, v) IN
              y.status = "succeeded" /\ y.token = k /\ y.outcome = v
         /\ FailReply(x, k, v) = "ok" =>
              LET y == Failed(x, v) IN
              y.status = "failed" /\ y.token = k /\ y.outcome = v
         /\ CompleteReply(x, k, v) = "run_cancelled" => x.status = "cancelling"
         /\ FailReply(x, k, v) = "run_cancelled" => x.status = "cancelling"
<1>1. x \in Run /\ AttemptStatus(x) \in CurrentAttemptOf[x.status]
      /\ x.status \in RunStatuses
  BY DEF Good, Coherent, Present, Run
<1>2. /\ x.status = "succeeded" => AttemptStatus(x) = "succeeded"
      /\ x.status = "failed" => AttemptStatus(x) \in {"failed", "lost"}
  BY <1>1 DEF CurrentAttemptOf, RunStatuses
<1>3. CompleteReply(x, k, v) = "ok" =>
        x.token = k /\ (x.status = "succeeded" => x.outcome = v)
  BY <1>2 DEF CompleteReply, transition
<1>4. FailReply(x, k, v) = "ok" =>
        x.token = k /\ (x.status = "failed" => x.outcome = v)
  BY <1>2 DEF FailReply, transition
<1>5. x.status # "succeeded" =>
        /\ Completed(x, v).status = "succeeded" /\ Completed(x, v).outcome = v
        /\ Completed(x, v).token = x.token
  BY <1>1 DEF Completed, Run
<1>6. x.status # "failed" =>
        /\ Failed(x, v).status = "failed" /\ Failed(x, v).outcome = v
        /\ Failed(x, v).token = x.token
  BY <1>1 DEF Failed, Run
<1>7. /\ x.status = "succeeded" => Completed(x, v) = x
      /\ x.status = "failed" => Failed(x, v) = x
  BY DEF Completed, Failed
<1>8. /\ CompleteReply(x, k, v) = "run_cancelled" => x.status = "cancelling"
      /\ FailReply(x, k, v) = "run_cancelled" => x.status = "cancelling"
  BY DEF CompleteReply, FailReply
<1> QED
  BY <1>3, <1>4, <1>5, <1>6, <1>7, <1>8

(* The Run of an assignment exists.                                        *)
LEMMA AssignedPresent ==
  ASSUME StoreInv, NEW r \in Runs, NEW k \in DOMAIN runs[r].grants
  PROVE  Good(runs[r]) /\ Present(runs[r])
<1>1. Good(runs[r])
  BY DEF StoreInv, AllGood
<1>2. DOMAIN AbsentRun.grants = {}
  BY DEF AbsentRun
<1> QED
  BY <1>1, <1>2 DEF Good, Coherent, Present

(* The final report.                                                       *)
LEMMA ReportKeeps ==
  ASSUME StoreInv, NodeInv, [Next]_vars, NEW n \in Nodes,
         Report(n) \/ ReportTimesOut(n)
  PROVE  NodeInv'
<1> DEFINE w == worker[n]
           x == runs[w.run]
           done == w.report \in Results
           reply == IF done THEN CompleteReply(x, w.token, w.report)
                            ELSE FailReply(x, w.token, w.report)
<1>1. /\ worker \in [Nodes -> Worker] /\ w \in Worker /\ Shape(w)
      /\ Truth(w, x) /\ Delivery(w, files[n], recorded)
  BY DEF NodeInv, NodeTypes
<1>2. w.pc = "report" /\ files' = files /\ recorded' = recorded
  BY DEF Report, ReportTimesOut
<1>3. /\ w.token # 0 /\ w.run \in Runs /\ w.token \in DOMAIN x.grants
      /\ w.reply = "unknown" /\ w.report # NoValue /\ w.ended = "none"
  BY <1>1, <1>2, Assigned DEF Shape, Acting
<1>4. Good(x) /\ Present(x)
  BY <1>3, AssignedPresent
<1>5. Truth(w, runs'[w.run])
  BY <1>1, RowsGoOn, TruthKept
<1>6. faults' \in 0 .. MaxFaults
  BY FaultsBounded DEF Report, ReportTimesOut
<1>7. reply \in {"ok", "invalid_lease", "invalid_transition", "run_cancelled"}
  BY ReplyNames
<1>8. ASSUME NEW answer \in {"ok", "invalid_lease", "invalid_transition",
                             "run_cancelled", "unknown"},
             worker' = [worker EXCEPT ![n] =
                          [w EXCEPT !.pc = "stop", !.reply = answer]],
             answer = "ok" => Told(w, runs'[w.run], EndedAs(w)),
             answer = "run_cancelled" => runs'[w.run].status = "cancelling"
      PROVE  NodeInv'
  <2> DEFINE v == [w EXCEPT !.pc = "stop", !.reply = answer]
  <2>1. /\ v \in Worker /\ v.pc = "stop" /\ v.reply = answer
        /\ v.run = w.run /\ v.token = w.token /\ v.sent = w.sent
        /\ v.keeper = w.keeper /\ v.report = w.report /\ v.ended = w.ended
    BY <1>1 DEF Worker
  <2>2. worker' = [worker EXCEPT ![n] = v]
    BY <1>8
  <2> HIDE DEF v
  <2>3. Shape(v)
    BY <1>1, <1>2, <1>3, <2>1 DEF Shape, Acting
  <2>4. Truth(v, runs'[v.run])
    BY <1>3, <1>5, <1>8, <2>1 DEF Truth, Told, EndedAs
  <2>5. Delivery(v, files[n], recorded)
    BY <1>1, <2>1 DEF Delivery, AllRecorded
  <2> QED
    BY <1>2, <1>6, <2>1, <2>2, <2>3, <2>4, <2>5, LoopStep
<1>9. CASE Report(n)
  <2>1. Answered(reply) = reply
    BY <1>7, AnsweredIs
  <2>2. /\ IF reply # "ok" THEN UNCHANGED storeVars
           ELSE IF done THEN Complete(w.run, w.token, w.report)
           ELSE Fail(w.run, w.token, w.report)
        /\ \/ Set(n, [w EXCEPT !.pc = "stop", !.reply = reply])
           \/ UNCHANGED worker
    BY <1>9, <2>1 DEF Report
  <2>3. CASE UNCHANGED worker
    <3>1. worker' = [worker EXCEPT ![n] = w]
      BY <1>1, <2>3
    <3> QED
      BY <1>1, <1>2, <1>5, <1>6, <3>1, LoopStep
  <2>4. reply = "ok" => Told(w, runs'[w.run], EndedAs(w))
    <3>1. ASSUME reply = "ok"
          PROVE  runs'[w.run] = IF done THEN Completed(x, w.report)
                                        ELSE Failed(x, w.report)
      BY <1>3, <2>2, <3>1 DEF Complete, Fail, Update, StoreInv, AllGood
    <3> QED
      BY <1>4, <3>1, AcceptedReport DEF Told, EndedAs
  <2>5. reply = "run_cancelled" => runs'[w.run].status = "cancelling"
    <3>1. reply = "run_cancelled" => x.status = "cancelling"
      BY <1>4, AcceptedReport
    <3>2. reply = "run_cancelled" => runs' = runs
      BY <2>2 DEF storeVars
    <3> QED
      BY <3>1, <3>2
  <2> HIDE DEF reply
  <2> QED
    BY <1>7, <1>8, <2>2, <2>3, <2>4, <2>5 DEF Set
<1>10. CASE ReportTimesOut(n)
  <2>1. [w EXCEPT !.pc = "stop"] = [w EXCEPT !.pc = "stop", !.reply = "unknown"]
    BY <1>1, <1>3 DEF Worker
  <2> QED
    BY <1>8, <1>10, <2>1 DEF ReportTimesOut, Set
<1> QED
  BY <1>9, <1>10

(* The loop after RunOnce returned something about its Run.                *)
LEMMA ReturnsFacts ==
  ASSUME NEW w \in Worker, w.token # 0, w.run \in Runs,
         NEW ended \in {"succeeded", "failed", "cancelled"}
  PROVE  LET v == Returns(w, ended) IN
         /\ v \in Worker /\ Shape(v) /\ v.pc = "idle"
         /\ v.run = w.run /\ v.token = w.token /\ v.sent = w.sent
         /\ v.report = w.report /\ v.ended = ended
         /\ v.keeper = "off" /\ v.reply = "unknown"
<1> DEFINE v == Returns(w, ended)
<1>1. /\ v \in Worker /\ v.pc = "idle"
      /\ v.run = w.run /\ v.token = w.token /\ v.sent = w.sent
      /\ v.report = w.report /\ v.ended = ended
      /\ v.keeper = "off" /\ v.reply = "unknown"
  BY DEF Returns, At, Worker
<1> HIDE DEF v
<1>2. Shape(v)
  BY <1>1 DEF Shape, Acting
<1> QED
  BY <1>1, <1>2 DEF v

(* stopLease and the acknowledgement: what RunOnce returns is on record.   *)
LEMMA EndKeeps ==
  ASSUME StoreInv, NodeInv, [Next]_vars, NEW n \in Nodes,
         stopLease(n) \/ Acknowledge(n)
  PROVE  NodeInv'
<1> DEFINE w == worker[n]
           x == runs[w.run]
<1>1. /\ files \in [Nodes -> SUBSET File] /\ w \in Worker /\ Shape(w)
      /\ Truth(w, x) /\ Delivery(w, files[n], recorded)
  BY DEF NodeInv, NodeTypes
<1>2. w.pc \in {"stop", "acknowledge"} /\ files' = files /\ recorded' = recorded
  BY DEF stopLease, Acknowledge
<1>3. /\ w.token # 0 /\ w.run \in Runs /\ w.ended = "none"
  BY <1>1, <1>2 DEF Shape, Acting
<1>4. faults' \in 0 .. MaxFaults
  BY FaultsBounded DEF stopLease, Acknowledge
<1>5. ASSUME Set(n, ReturnsError) PROVE NodeInv'
  <2>1. Writes(files[n]) /\ files' = [files EXCEPT ![n] = files[n]]
    BY <1>1, <1>2 DEF Writes
  <2> QED
    BY <1>4, <1>5, <2>1, DropStep DEF Set, ReturnsError
<1>6. ASSUME NEW ended \in {"succeeded", "failed", "cancelled"},
             Set(n, Returns(w, ended)),
             IF ended = "cancelled" THEN runs'[w.run].status = "cancelled"
                                    ELSE Told(w, runs'[w.run], ended)
      PROVE  NodeInv'
  <2> DEFINE v == Returns(w, ended)
  <2>1. /\ v \in Worker /\ Shape(v) /\ v.pc = "idle"
        /\ v.run = w.run /\ v.token = w.token /\ v.sent = w.sent
        /\ v.report = w.report /\ v.ended = ended
        /\ v.keeper = "off" /\ v.reply = "unknown"
    BY <1>1, <1>3, ReturnsFacts
  <2>2. worker' = [worker EXCEPT ![n] = v]
    BY <1>6 DEF Set
  <2> HIDE DEF v
  <2>3. Truth(v, runs'[v.run])
    BY <1>6, <2>1 DEF Truth, Told
  <2>4. Delivery(v, files[n], recorded)
    BY <1>1, <2>1 DEF Delivery, AllRecorded
  <2> QED
    BY <1>2, <1>4, <2>1, <2>2, <2>3, <2>4, LoopStep
<1>7. CASE stopLease(n)
  <2>1. runs' = runs /\ w.pc = "stop"
    BY <1>7 DEF stopLease
  <2>2. CASE w.reply = "run_cancelled" \/ w.keeper = "cancelled"
    <3> DEFINE v == [w EXCEPT !.pc = "acknowledge", !.keeper = "off"]
    <3>1. /\ v \in Worker /\ v.pc = "acknowledge" /\ v.keeper = "off"
          /\ v.run = w.run /\ v.token = w.token /\ v.sent = w.sent
          /\ v.reply = w.reply /\ v.report = w.report /\ v.ended = w.ended
      BY <1>1 DEF Worker
    <3>2. worker' = [worker EXCEPT ![n] = v]
      BY <1>7, <2>2 DEF stopLease, Set
    <3> HIDE DEF v
    <3>3. Shape(v)
      BY <1>1, <1>3, <3>1 DEF Shape, Acting
    <3>4. Truth(v, runs'[v.run])
      BY <1>1, <1>3, <2>1, <2>2, <3>1 DEF Truth, Told, EndedAs
    <3>5. Delivery(v, files[n], recorded)
      BY <1>1, <3>1 DEF Delivery, AllRecorded
    <3> QED
      BY <1>2, <1>4, <3>1, <3>2, <3>3, <3>4, <3>5, LoopStep
  <2>3. CASE ~(w.reply = "run_cancelled" \/ w.keeper = "cancelled")
    <3>1. Set(n, EndOf(w))
      BY <1>7, <2>3 DEF stopLease
    <3>2. CASE w.reply # "ok"
      BY <1>5, <3>1, <3>2 DEF EndOf
    <3>3. CASE w.reply = "ok"
      <4>1. Set(n, Returns(w, EndedAs(w)))
        BY <3>1, <3>3 DEF EndOf, EndedAs
      <4>2. EndedAs(w) \in {"succeeded", "failed"}
        BY DEF EndedAs
      <4>3. Told(w, runs'[w.run], EndedAs(w))
        BY <1>1, <2>1, <3>3 DEF Truth
      <4> QED
        BY <1>6, <4>1, <4>2, <4>3
    <3> QED
      BY <3>2, <3>3
  <2> QED
    BY <2>2, <2>3
<1>8. CASE Acknowledge(n)
  <2>1. x.status \in {"cancelling", "cancelled"}
    BY <1>1, <1>8 DEF Acknowledge, Truth
  <2>2. Answered(AcknowledgeReply(x, w.token)) # "invalid_transition"
    BY <2>1, AnswersAreReplies DEF AcknowledgeReply
  <2>3. AcknowledgeCancellation(w.run, w.token)
          => runs'[w.run].status = "cancelled"
    <3>1. finalizeCancellationTx(x).status = "cancelled"
      <4>1. x \in Run
        BY <1>3 DEF StoreInv, AllGood
      <4> QED
        BY <4>1 DEF finalizeCancellationTx, Run
    <3> QED
      BY <1>3, <3>1 DEF AcknowledgeCancellation, Update, StoreInv, AllGood
  <2>4. \/ /\ AcknowledgeCancellation(w.run, w.token)
           /\ Set(n, Returns(w, "cancelled"))
        \/ Set(n, ReturnsError)
    BY <1>8, <2>2 DEF Acknowledge
  <2> QED
    BY <1>5, <1>6, <2>3, <2>4
<1> QED
  BY <1>7, <1>8

-----------------------------------------------------------------------------
(* Theorems.                                                               *)

(* A step of Node n keeps Calling if it keeps the assignment, takes that   *)
(* of a file or a new one, or drops it, and saves events only of its own.  *)
LEMMA CallingStep ==
  ASSUME StoreInv, Calling, [Next]_vars, NEW n \in Nodes,
         NEW v \in Worker, worker' = [worker EXCEPT ![n] = v],
         NEW F \in SUBSET File, files' = [files EXCEPT ![n] = F],
         v.pc = "report" => v.report # NoValue,
         \/ ~CallsFor(v)
         \/ CallsFor(worker[n]) /\ v.run = worker[n].run
                                /\ v.token = worker[n].token
         \/ GrantedTo(v, runs'),
         \A f \in F :
           \/ f \in files[n]
           \/ CallsFor(worker[n]) /\ f.run = worker[n].run
                                  /\ f.token = worker[n].token
  PROVE  Calling'
<1>1. \A a : GrantedTo(a, runs) => GrantedTo(a, runs')
  <2>1. \A r \in Runs : GoesOn(runs[r], runs'[r])
    BY RowsGoOn
  <2> QED
    BY <2>1 DEF GrantedTo, GoesOn
<1>2. worker' \in [Nodes -> Worker] /\ files' \in [Nodes -> SUBSET File]
  BY DEF Calling
<1>3. GrantedTo(worker[n], runs) =>
        \A a : a.run = worker[n].run /\ a.token = worker[n].token =>
              GrantedTo(a, runs)
  BY DEF GrantedTo
<1>4. CallsFor(v) => GrantedTo(v, runs')
  BY <1>1, <1>3 DEF Calling
<1>5. \A f \in F : GrantedTo(f, runs')
  BY <1>1, <1>3 DEF Calling
<1>6. /\ worker'[n] = v /\ files'[n] = F
      /\ \A m \in Nodes : m # n => /\ worker'[m] = worker[m]
                                   /\ files'[m] = files[m]
  BY DEF Calling
<1>7. ASSUME NEW m \in Nodes
      PROVE  /\ CallsFor(worker'[m]) => GrantedTo(worker'[m], runs')
             /\ worker'[m].pc = "report" => worker'[m].report # NoValue
             /\ \A f \in files'[m] : GrantedTo(f, runs')
  <2>1. CASE m = n
    BY <1>4, <1>5, <1>6, <2>1
  <2>2. CASE m # n
    BY <1>1, <1>6, <2>2 DEF Calling
  <2> QED
    BY <2>1, <2>2
<1> QED
  BY <1>2, <1>7 DEF Calling

(* The loop keeps its assignment and its outbox at most shrinks.           *)
LEMMA SameCalling ==
  ASSUME StoreInv, Calling, [Next]_vars, NEW n \in Nodes,
         NEW v \in Worker, Set(n, v),
         files' = files \/ \E f : remove(n, f),
         CallsFor(v) => /\ CallsFor(worker[n]) /\ v.run = worker[n].run
                        /\ v.token = worker[n].token,
         v.pc = "report" => v.report # NoValue
  PROVE  Calling'
<1>1. files \in [Nodes -> SUBSET File]
  BY DEF Calling
<1>2. worker' = [worker EXCEPT ![n] = v]
  BY DEF Set
<1>3. CASE files' = files
  <2>1. files' = [files EXCEPT ![n] = files[n]] /\ files[n] \in SUBSET File
    BY <1>1, <1>3
  <2> QED
    BY <1>2, <2>1, CallingStep
<1>4. ASSUME NEW f, remove(n, f) PROVE Calling'
  <2> DEFINE F == files[n] \ {f}
  <2>1. files' = [files EXCEPT ![n] = F] /\ F \in SUBSET File
        /\ \A g \in F : g \in files[n]
    BY <1>1, <1>4 DEF remove
  <2> HIDE DEF F
  <2> QED
    BY <1>2, <2>1, CallingStep
<1> QED
  BY <1>3, <1>4

(* Whatever a Node does, whoever answers, it calls with assignments that   *)
(* were granted.                                                           *)
LEMMA CallingKept ==
  ASSUME StoreInv, Calling, [Next]_vars, NEW n \in Nodes, NodeStep(n)
  PROVE  Calling'
<1> DEFINE w == worker[n]
<1>1. /\ worker \in [Nodes -> Worker] /\ files \in [Nodes -> SUBSET File]
      /\ w \in Worker
      /\ w.pc = "report" => w.report # NoValue
      /\ \A f \in files[n] : f \in File /\ GrantedTo(f, runs)
  BY DEF Calling
<1>2. UNCHANGED worker => Set(n, w)
  BY <1>1 DEF Set
<1>3. ASSUME UNCHANGED worker, files' = files \/ \E f : remove(n, f)
      PROVE  Calling'
  BY <1>1, <1>2, <1>3, SameCalling
<1>4. ASSUME NEW pc \in {"down", "recover", "idle", "claim"},
             Set(n, At(pc)), files' = files \/ \E f : remove(n, f)
      PROVE  Calling'
  <2>1. At(pc) \in Worker /\ At(pc).pc = pc /\ At(pc).keeper = "off"
    BY AtFacts DEF At
  <2> QED
    BY <1>4, <2>1, SameCalling DEF CallsFor, Acting
<1>5. ASSUME NEW f \in files[n], UNCHANGED files,
             Set(n, [At("interrupt") EXCEPT !.run   = f.run,
                                            !.token = f.token,
                                            !.sent  = f.id])
      PROVE  Calling'
  <2> DEFINE v == [At("interrupt") EXCEPT !.run   = f.run,
                                          !.token = f.token,
                                          !.sent  = f.id]
  <2>1. /\ v \in Worker /\ v.pc = "interrupt"
        /\ v.run = f.run /\ v.token = f.token
    BY <1>1 DEF At, Worker, File
  <2>2. GrantedTo(v, runs')
    <3>1. GoesOn(runs[f.run], runs'[f.run])
      BY <1>1, RowsGoOn DEF GrantedTo
    <3> QED
      BY <1>1, <2>1, <3>1 DEF GrantedTo, GoesOn
  <2>3. worker' = [worker EXCEPT ![n] = v]
    BY <1>5 DEF Set
  <2>4. files' = [files EXCEPT ![n] = files[n]] /\ files[n] \in SUBSET File
    BY <1>1, <1>5
  <2> HIDE DEF v
  <2> QED
    BY <2>1, <2>2, <2>3, <2>4, CallingStep
<1>6. ASSUME NEW v \in Worker, Set(n, v), CallsFor(w),
             v.run = w.run, v.token = w.token,
             files' = files \/ \E f : remove(n, f),
             v.pc = "report" => v.report # NoValue
      PROVE  Calling'
  BY <1>6, SameCalling
<1>7. ASSUME NEW ended \in {"succeeded", "failed", "cancelled"},
             Set(n, Returns(w, ended)), files' = files
      PROVE  Calling'
  <2> DEFINE v == Returns(w, ended)
  <2>1. v \in Worker /\ v.pc = "idle" /\ v.keeper = "off"
    BY <1>1 DEF Returns, At, Worker
  <2> HIDE DEF v
  <2> QED
    BY <1>7, <2>1, SameCalling DEF CallsFor, Acting, v
<1>8. CASE \/ Boot(n) \/ Interrupt(n) \/ RecoverEnds(n) \/ NotClaimed(n)
           \/ ClaimCall(n) \/ RecoverFails(n) \/ Crash(n)
           \/ \E cause \in Causes : PrepareFails(n, cause)
  BY <1>4, <1>8 DEF Boot, Interrupt, RecoverEnds, NotClaimed, ClaimCall,
                    RecoverFails, Crash, PrepareFails, ReturnsError
<1>9. ASSUME NEW f \in files[n], Recover(n, f) \/ RecoverRejected(n, f)
      PROVE  Calling'
  <2>1. CASE Recover(n, f)
    BY <1>3, <1>5, <2>1 DEF Recover
  <2>2. CASE RecoverRejected(n, f)
    BY <1>3, <1>4, <2>2 DEF RecoverRejected
  <2> QED
    BY <1>9, <2>1, <2>2
<1>10. ASSUME NEW r \in Runs, Claimed(n, r) PROVE Calling'
  <2>1. UNCHANGED files
    BY <1>10 DEF Claimed
  <2>2. CASE Set(n, At("idle"))
    BY <1>4, <2>1, <2>2
  <2>3. CASE Set(n, [At("prepare") EXCEPT !.run   = r,
                                          !.token = Len(runs[r].grants) + 1])
    <3> DEFINE v == [At("prepare") EXCEPT !.run   = r,
                                          !.token = Len(runs[r].grants) + 1]
    <3>1. runs[r] \in Run /\ runs'[r] = Leased(runs[r], claims[n].node)
      BY <1>10 DEF StoreInv, AllGood, Good, Claimed, ClaimCommit
    <3>2. /\ runs[r].grants \in Seq(Nat) /\ Number(runs[r]) \in Nat
          /\ runs'[r].grants = Append(runs[r].grants, Number(runs[r]))
      BY <3>1, LenProperties DEF Leased, Run, Number
    <3>3. /\ Len(runs[r].grants) + 1 \in DOMAIN runs'[r].grants
          /\ Len(runs[r].grants) + 1 \in Nat
      BY <3>2, AppendProperties, LenProperties
    <3>4. /\ v \in Worker /\ v.pc = "prepare" /\ v.run = r
          /\ v.token = Len(runs[r].grants) + 1
      BY <3>3 DEF At, Worker
    <3>5. worker' = [worker EXCEPT ![n] = v]
      BY <2>3 DEF Set
    <3>6. files' = [files EXCEPT ![n] = files[n]] /\ files[n] \in SUBSET File
      BY <1>1, <2>1
    <3> HIDE DEF v
    <3>7. GrantedTo(v, runs')
      BY <3>3, <3>4 DEF GrantedTo
    <3> QED
      BY <3>4, <3>5, <3>6, <3>7, CallingStep
  <2> QED
    BY <1>10, <2>2, <2>3 DEF Claimed
<1>11. CASE StartCall(n)
  <2>1. CallsFor(w) /\ files' = files /\ w.pc = "prepare"
    BY <1>11 DEF StartCall, CallsFor, Acting
  <2>2. ASSUME NEW reply \in {"run_cancelled"}
        PROVE  LET v == [w EXCEPT !.pc = "acknowledge", !.reply = reply] IN
               /\ v \in Worker /\ v.run = w.run /\ v.token = w.token
               /\ v.pc # "report"
    BY <1>1 DEF Worker
  <2>3. LET v == [w EXCEPT !.pc = "execute", !.keeper = "on"] IN
        v \in Worker /\ v.run = w.run /\ v.token = w.token /\ v.pc # "report"
    BY <1>1 DEF Worker
  <2>4. \/ Set(n, [w EXCEPT !.pc = "execute", !.keeper = "on"])
        \/ \E reply \in {"run_cancelled"} :
             Set(n, [w EXCEPT !.pc = "acknowledge", !.reply = reply])
        \/ Set(n, At("idle"))
    BY <1>11 DEF StartCall, ReturnsError
  <2> QED
    BY <1>4, <1>6, <2>1, <2>2, <2>3, <2>4
<1>12. CASE keepLease(n)
  <2>1. CallsFor(w) /\ files' = files
    BY <1>12 DEF keepLease, CallsFor
  <2>2. ASSUME NEW c \in {"lost", "cancelled"}
        PROVE  LET v == cancelExecution([w EXCEPT !.keeper = c]) IN
               /\ v \in Worker /\ v.run = w.run /\ v.token = w.token
               /\ v.pc = w.pc /\ v.report = w.report
    BY <1>1, <2>2 DEF Worker, cancelExecution
  <2>3. \/ \E c \in {"lost", "cancelled"} :
             Set(n, cancelExecution([w EXCEPT !.keeper = c]))
        \/ Set(n, w)
    BY <1>2, <1>12 DEF keepLease, Renewed
  <2> QED
    BY <1>1, <1>6, <2>1, <2>2, <2>3
<1>13. CASE Emit(n)
  <2> DEFINE next == [w EXCEPT !.pc = "send", !.sent = w.sent + 1]
             f == Pending(next)
             F == files[n] \union {f}
  <2>1. CallsFor(w)
    BY <1>13 DEF Emit, CallsFor, Acting
  <2>2. GrantedTo(w, runs) /\ w.token \in Nat /\ w.sent + 1 \in Nat \ {0}
    BY <1>1, <2>1 DEF Calling, Worker
  <2>3. /\ next \in Worker /\ next.run = w.run /\ next.token = w.token
        /\ next.pc = "send" /\ next.sent = w.sent + 1
    BY <1>1, <2>2 DEF Worker
  <2>4. f \in File /\ f.run = w.run /\ f.token = w.token
    BY <2>2, <2>3 DEF Pending, File, GrantedTo
  <2>5. CASE Set(n, EventFails(next)) /\ UNCHANGED files
    <3>1. /\ EventFails(next) \in Worker /\ EventFails(next).pc = "execute"
          /\ EventFails(next).run = w.run /\ EventFails(next).token = w.token
      BY <2>3, EventFailsFacts
    <3> QED
      BY <1>6, <2>1, <2>5, <3>1
  <2>6. CASE files' = [files EXCEPT ![n] = F] /\ Set(n, next)
    <3>1. F \in SUBSET File
      BY <1>1, <2>4
    <3>2. worker' = [worker EXCEPT ![n] = next]
      BY <2>6 DEF Set
    <3>3. \A g \in F : \/ g \in files[n]
                       \/ g.run = w.run /\ g.token = w.token
      BY <2>4
    <3> HIDE DEF F, f, next
    <3> QED
      BY <2>1, <2>3, <2>6, <3>1, <3>2, <3>3, CallingStep
  <2> QED
    BY <1>13, <2>5, <2>6 DEF Emit
<1>14. CASE Deliver(n) \/ DeliveryTimesOut(n)
  <2>1. CallsFor(w)
    BY <1>14 DEF Deliver, DeliveryTimesOut, CallsFor, Acting
  <2>2. LET v == [w EXCEPT !.pc = "execute"] IN
        v \in Worker /\ v.run = w.run /\ v.token = w.token /\ v.pc # "report"
    BY <1>1 DEF Worker
  <2>3. /\ \/ Set(n, [w EXCEPT !.pc = "execute"])
           \/ Set(n, EventFails(w))
           \/ UNCHANGED worker
        /\ files' = files \/ \E f : remove(n, f)
    BY <1>14 DEF Deliver, DeliveryTimesOut
  <2> QED
    BY <1>1, <1>3, <1>6, <2>1, <2>2, <2>3, EventFailsFacts
<1>15. ASSUME NEW report, ExecuteReturns(n, report) PROVE Calling'
  <2>1. CallsFor(w) /\ files' = files
    BY <1>15 DEF ExecuteReturns, CallsFor, Acting
  <2>2. report \in Results \union Causes /\ report # NoValue
    BY <1>15, ConstantsAssumption DEF ExecuteReturns, Reports
  <2>3. LET v == [w EXCEPT !.pc = "report", !.report = report] IN
        /\ v \in Worker /\ v.run = w.run /\ v.token = w.token
        /\ v.report = report
    BY <1>1, <2>2 DEF Worker
  <2> QED
    BY <1>6, <1>15, <2>1, <2>2, <2>3 DEF ExecuteReturns
<1>16. CASE Report(n) \/ ReportTimesOut(n)
  <2>1. CallsFor(w) /\ files' = files
    BY <1>16 DEF Report, ReportTimesOut, CallsFor, Acting
  <2>2. ASSUME NEW reply \in {"ok", "invalid_lease", "invalid_transition",
                              "run_cancelled", "unknown"}
        PROVE  LET v == [w EXCEPT !.pc = "stop", !.reply = reply] IN
               /\ v \in Worker /\ v.run = w.run /\ v.token = w.token
               /\ v.pc # "report"
    BY <1>1 DEF Worker
  <2>3. LET v == [w EXCEPT !.pc = "stop"] IN
        v \in Worker /\ v.run = w.run /\ v.token = w.token /\ v.pc # "report"
    BY <1>1 DEF Worker
  <2>4. \/ \E reply \in {"ok", "invalid_lease", "invalid_transition",
                          "run_cancelled", "unknown"} :
             Set(n, [w EXCEPT !.pc = "stop", !.reply = reply])
        \/ Set(n, [w EXCEPT !.pc = "stop"])
        \/ UNCHANGED worker
    <3>1. CASE ReportTimesOut(n)
      BY <3>1 DEF ReportTimesOut
    <3>2. CASE Report(n)
      <4> DEFINE reply == IF w.report \in Results
                          THEN CompleteReply(runs[w.run], w.token, w.report)
                          ELSE FailReply(runs[w.run], w.token, w.report)
      <4>1. reply \in {"ok", "invalid_lease", "invalid_transition",
                       "run_cancelled"}
        BY ReplyNames
      <4>2. Answered(reply) = reply
        BY <4>1, AnsweredIs
      <4>3. \/ Set(n, [w EXCEPT !.pc = "stop", !.reply = reply])
            \/ UNCHANGED worker
        BY <3>2, <4>2 DEF Report
      <4> QED
        BY <4>1, <4>3
    <3> QED
      BY <1>16, <3>1, <3>2
  <2> QED
    BY <1>3, <1>6, <2>1, <2>2, <2>3, <2>4
<1>17. CASE stopLease(n) \/ Acknowledge(n)
  <2>1. CallsFor(w) /\ files' = files
    BY <1>17 DEF stopLease, Acknowledge, CallsFor, Acting
  <2>2. LET v == [w EXCEPT !.pc = "acknowledge", !.keeper = "off"] IN
        v \in Worker /\ v.run = w.run /\ v.token = w.token /\ v.pc # "report"
    BY <1>1 DEF Worker
  <2>3. \/ Set(n, [w EXCEPT !.pc = "acknowledge", !.keeper = "off"])
        \/ Set(n, At("idle"))
        \/ \E ended \in {"succeeded", "failed", "cancelled"} :
             Set(n, Returns(w, ended))
    BY <1>17 DEF stopLease, Acknowledge, EndOf, ReturnsError
  <2> QED
    BY <1>4, <1>6, <1>7, <2>1, <2>2, <2>3
<1>18. CASE Misled(n)
  <2>1. CASE w.pc \in {"prepare", "report", "send"}
    <3>1. CallsFor(w)
      BY <2>1 DEF CallsFor, Acting
    <3>2. LET v == Believes(w) IN
          /\ v \in Worker /\ v.run = w.run /\ v.token = w.token
          /\ v.pc # "report"
      BY <1>1, <2>1 DEF Worker, Believes
    <3>3. Set(n, Believes(w)) /\ (files' = files \/ \E f : remove(n, f))
      BY <1>18, <2>1 DEF Misled
    <3> QED
      BY <1>6, <3>1, <3>2, <3>3
  <2>2. CASE w.pc \in {"acknowledge", "interrupt"}
    <3>1. /\ \/ Set(n, Returns(w, "cancelled")) /\ files' = files
             \/ Set(n, At("recover"))
          /\ files' = files \/ \E f : remove(n, f)
      BY <1>18, <2>2 DEF Misled, Believes
    <3> QED
      BY <1>4, <1>7, <3>1
  <2>3. CASE w.pc = "recover"
    BY <1>5, <1>18, <2>3 DEF Misled
  <2> QED
    BY <1>18, <2>1, <2>2, <2>3 DEF Misled
<1>19. CASE OrphanClaimEnds(n)
  BY <1>3, <1>19 DEF OrphanClaimEnds, Idle
<1>20. CASE Progress(n)
  BY <1>8, <1>9, <1>11, <1>14, <1>16, <1>17, <1>20 DEF Progress
<1> QED
  BY <1>8, <1>9, <1>10, <1>12, <1>13, <1>14, <1>15, <1>16, <1>18, <1>19, <1>20
     DEF NodeStep, Executed

(* Every step is one of the store, whose invariant holds.                  *)
LEMMA CallsAlways ==
  NodeSpec => [](StoreInv /\ Calling) /\ [][Next]_vars
<1> DEFINE Inv == StoreInv /\ Calling
<1>1. NodeInit => Inv
  <2> SUFFICES ASSUME NodeInit PROVE Inv
    OBVIOUS
  <2>1. /\ StoreInv /\ worker = [n \in Nodes |-> At("down")]
        /\ files = [n \in Nodes |-> {}]
    BY InitStoreInv DEF NodeInit
  <2>2. /\ At("down") \in Worker /\ At("down").pc = "down"
        /\ At("down").keeper = "off"
    BY AtFacts DEF At
  <2> QED
    BY <2>1, <2>2 DEF Calling, CallsFor, Acting
<1>2. Inv /\ [NodeNext]_nodeVars => Inv' /\ [Next]_vars
  <2> SUFFICES ASSUME Inv, [NodeNext]_nodeVars PROVE Inv' /\ [Next]_vars
    OBVIOUS
  <2>1. [Next]_vars
    BY StoreStep
  <2>2. StoreInv'
    BY <2>1, StoreInvKept
  <2>3. CASE \E n \in Nodes : NodeStep(n)
    BY <2>1, <2>2, <2>3, CallingKept
  <2>4. CASE ~(\E n \in Nodes : NodeStep(n))
    <3>1. worker' = worker /\ files' = files
      BY <2>4 DEF NodeNext, ServerStep, Reconciles, Idle, nodeVars
    <3>2. \A r \in Runs : GoesOn(runs[r], runs'[r])
      BY <2>1, RowsGoOn
    <3>3. \A a : GrantedTo(a, runs) => GrantedTo(a, runs')
      BY <3>2 DEF GrantedTo, GoesOn
    <3> QED
      BY <2>1, <2>2, <3>1, <3>3 DEF Calling
  <2> QED
    BY <2>1, <2>3, <2>4
<1> HIDE DEF Inv
<1>3. NodeSpec => []Inv /\ [][Next]_vars
  BY <1>1, <1>2, PTL DEF NodeSpec
<1> QED
  BY <1>3 DEF Inv

(* Everything that a Node may do keeps the invariant, as long as it is     *)
(* not misled.                                                             *)
LEMMA NodeStepKeeps ==
  ASSUME NoForeignSuccess, StoreInv, NodeInv, [Next]_vars, NEW n \in Nodes,
         NodeStep(n)
  PROVE  NodeInv'
<1>1. CASE Progress(n)
  BY <1>1, DropsKeep, RecoverKeeps, StartCallKeeps, DeliverKeeps, ReportKeeps,
     EndKeeps DEF Progress
<1>2. CASE Misled(n)
  BY <1>2, NotMisled DEF Misled
<1>3. CASE OrphanClaimEnds(n)
  BY <1>3, IdleKeeps DEF OrphanClaimEnds
<1>4. CASE ~Progress(n) /\ ~Misled(n) /\ ~OrphanClaimEnds(n)
  BY <1>4, KeeperKeeps, DropsKeep, ClaimedKeeps, EmitKeeps, ExecutedKeeps,
     DeliverKeeps, ReportKeeps DEF NodeStep, Executed
<1> QED
  BY <1>1, <1>2, <1>3, <1>4

(* The invariant of the Nodes holds when only the store answers with a     *)
(* success.                                                                *)
LEMMA NodesAlways ==
  ASSUME NoForeignSuccess
  PROVE  NodeSpec => []NodeInv
<1>1. NodeInit => NodeInv
  <2> SUFFICES ASSUME NodeInit PROVE NodeInv
    OBVIOUS
  <2>1. /\ StoreInv /\ worker = [n \in Nodes |-> At("down")]
        /\ files = [n \in Nodes |-> {}] /\ recorded = [r \in Runs |-> <<>>]
        /\ faults = 0
    BY InitStoreInv DEF NodeInit
  <2>2. At("down") \in Worker /\ At("down").token = 0
    BY AtFacts
  <2>3. Outbox({})
    BY FS_EmptySet, WorkerAssumption DEF Outbox
  <2>4. << >> \in Seq(Record) /\ DOMAIN << >> = {}
    BY EmptySeq
  <2>5. NodeTypes
    BY <2>1, <2>2, <2>3, <2>4, WorkerAssumption DEF NodeTypes
  <2>6. Granting
    BY <2>1, <2>2, <2>4 DEF Granting, Holds
  <2>7. EventsInOrder
    BY <2>1, <2>4 DEF EventsInOrder, InOrder
  <2>8. ASSUME NEW n \in Nodes
        PROVE  /\ Shape(worker[n])
               /\ Truth(worker[n], runs[worker[n].run])
               /\ FilesSound(files[n], recorded)
               /\ Delivery(worker[n], files[n], recorded)
    BY <2>1, AtFacts DEF FilesSound
  <2> QED
    BY <2>1, <2>5, <2>6, <2>7, <2>8 DEF NodeInv
<1>2. StoreInv /\ NodeInv /\ [Next]_vars /\ [NodeNext]_nodeVars => NodeInv'
  <2> SUFFICES ASSUME StoreInv, NodeInv, [Next]_vars, [NodeNext]_nodeVars
               PROVE  NodeInv'
    OBVIOUS
  <2>1. CASE \E n \in Nodes : NodeStep(n)
    BY <2>1, NodeStepKeeps
  <2>2. CASE ~(\E n \in Nodes : NodeStep(n))
    <3>1. Idle
      BY <2>2 DEF NodeNext, ServerStep, Reconciles, Idle, nodeVars
    <3> QED
      BY <3>1, IdleKeeps
  <2> QED
    BY <2>1, <2>2
<1> QED
  BY <1>1, <1>2, CallsAlways, PTL DEF NodeSpec

(* Every behaviour of Nodes, with their crashes, retries, replays, lost    *)
(* messages and foreign answers, is one of PostgresStore: Nodes make no call that the model of *)
(* the store does not expect, and what is proved of the store holds here.  *)
THEOREM NodesUseTheStore == NodeSpec => Spec
<1>1. NodeInit => Init
  BY DEF NodeInit
<1> QED
  BY <1>1, CallsAlways, PTL DEF NodeSpec, Spec

(* The store has of every execution the first events it emitted, each once *)
(* and in order, and a Run only succeeds with all of them; the outbox      *)
(* stays within its disk limit.  The Node believes every 2xx, so this      *)
(* assumes that only the store answers with one.                           *)
THEOREM DeliveryAlwaysSound ==
  ASSUME NoForeignSuccess
  PROVE  NodeSpec => []DeliverySound
<1>1. NodeInv => DeliverySound
  <2> SUFFICES ASSUME NodeInv PROVE DeliverySound
    OBVIOUS
  <2>1. NodeTypeOK
    BY DEF NodeInv, NodeTypes, NodeTypeOK, Outbox
  <2>2. CompletionAfterEvents
    BY DEF NodeInv, Delivery, AllRecorded, CompletionAfterEvents
  <2> QED
    BY <2>1, <2>2 DEF NodeInv, DeliverySound
<1> QED
  BY <1>1, NodesAlways, PTL

(* What RunOnce returns to its caller is what the store has on record, if   *)
(* only the store answers with a success.                                  *)
THEOREM ReturnsAreTrue ==
  ASSUME NoForeignSuccess
  PROVE  NodeSpec => []ReturnIsTrue
<1>1. NodeInv => ReturnIsTrue
  BY DEF NodeInv, Truth, Told, ReturnIsTrue
<1> QED
  BY <1>1, NodesAlways, PTL

(* A saved event only leaves the outbox when it is on record or when the   *)
(* store refuses it: errors of the authentication or a proxy, whatever     *)
(* their status, and unknown outcomes keep it.  A success that is not the  *)
(* store's removes it, so the theorem assumes that there is none.          *)
THEOREM SavedEventsRetained ==
  ASSUME NoForeignSuccess
  PROVE  NodeSpec => PendingRetained
<1>1. ASSUME NodeInv, [NodeNext]_nodeVars, NEW n \in Nodes,
             NEW f \in files[n] \ files'[n]
      PROVE  \/ [token |-> f.token, id |-> f.id] \in ToSet(recorded'[f.run])
             \/ AppendReply(runs[f.run], f.token) # "ok"
  <2>1. files \in [Nodes -> SUBSET File]
    BY <1>1 DEF NodeInv, NodeTypes
  <2>2. ASSUME NEW m \in Nodes, NEW g, remove(m, g) PROVE m = n /\ g = f
    BY <1>1, <2>1, <2>2 DEF remove
  <2>3. files' # files
    BY <1>1
  <2>4. ASSUME NEW m \in Nodes, NEW g \in files[m], Recover(m, g)
        PROVE  AppendReply(runs[f.run], f.token) # "ok"
    <3>1. remove(m, g) /\ Answered(AppendReply(runs[g.run], g.token)) # "ok"
      BY <2>3, <2>4 DEF Recover
    <3> QED
      BY <2>2, <3>1, AnswersAreReplies
  <2>5. ASSUME NEW m \in Nodes, Interrupt(m)
        PROVE  [token |-> f.token, id |-> f.id] \in ToSet(recorded'[f.run])
    <3>1. /\ remove(m, Pending(worker[m])) /\ recorded' = recorded
          /\ worker[m].pc = "interrupt"
      BY <2>5 DEF Interrupt
    <3>2. Pending(worker[m]) = f
      BY <2>2, <3>1
    <3>3. [token |-> worker[m].token, id |-> worker[m].sent]
            \in ToSet(recorded[worker[m].run])
      BY <1>1, <3>1 DEF NodeInv, Delivery
    <3> QED
      BY <3>1, <3>2, <3>3 DEF Pending
  <2>6. ASSUME NEW m \in Nodes, Deliver(m)
        PROVE  [token |-> f.token, id |-> f.id] \in ToSet(recorded'[f.run])
    <3>1. AppendEvent(Pending(worker[m])) /\ remove(m, Pending(worker[m]))
      BY <2>3, <2>6 DEF Deliver
    <3>2. Pending(worker[m]) = f /\ m = n
      BY <2>2, <3>1
    <3> QED
      BY <1>1, <3>1, <3>2, AppendFromFile DEF EventOf
  <2>7. ASSUME NEW m \in Nodes, Emit(m) PROVE FALSE
    <3>1. \/ files' = files
          \/ \E g : files' = [files EXCEPT ![m] = files[m] \union {g}]
      BY <2>7 DEF Emit
    <3> QED
      BY <1>1, <2>1, <2>3, <3>1
  <2>8. ASSUME NEW m \in Nodes, NEW g \in files[m], RecoverRejected(m, g)
        PROVE  FALSE
    BY <2>3, <2>8, NotMisled DEF RecoverRejected
  <2>9. \/ \E m \in Nodes : \/ \E g \in files[m] : Recover(m, g)
                            \/ Interrupt(m)
                            \/ Deliver(m)
                            \/ Emit(m)
                            \/ \E g \in files[m] : RecoverRejected(m, g)
        \/ files' = files
    <3>1. CASE \E r \in Runs : ServerStep(r)
      BY <3>1 DEF ServerStep, Idle
    <3>2. CASE Reconciles
      BY <3>2 DEF Reconciles, Idle
    <3>3. CASE UNCHANGED nodeVars
      BY <3>3 DEF nodeVars
    <3>4. ASSUME NEW m \in Nodes, NodeStep(m)
          PROVE  \/ \E g \in files[m] : Recover(m, g)
                 \/ Interrupt(m)
                 \/ Deliver(m)
                 \/ Emit(m)
                 \/ \E g \in files[m] : RecoverRejected(m, g)
                 \/ files' = files
      <4>1. CASE Progress(m)
        BY <4>1 DEF Progress, Boot, RecoverEnds, NotClaimed, StartCall,
                    Report, stopLease, Acknowledge
      <4>2. ~Misled(m)
        BY NotMisled DEF Misled
      <4>3. CASE ~Progress(m)
        BY <3>4, <4>2, <4>3 DEF NodeStep, keepLease, ClaimCall, Claimed,
                    PrepareFails, Executed, ExecuteReturns, DeliveryTimesOut,
                    ReportTimesOut, RecoverFails, Crash, OrphanClaimEnds, Idle
      <4> QED
        BY <4>1, <4>3
    <3> QED
      BY <1>1, <3>1, <3>2, <3>3, <3>4 DEF NodeNext
  <2> QED
    BY <2>3, <2>4, <2>5, <2>6, <2>7, <2>8, <2>9
<1>2. NodeInv /\ [NodeNext]_nodeVars =>
        [\A n \in Nodes : \A f \in files[n] \ files'[n] :
           \/ [token |-> f.token, id |-> f.id] \in ToSet(recorded'[f.run])
           \/ AppendReply(runs[f.run], f.token) # "ok"]_nodeVars
  BY <1>1
<1> QED
  BY <1>2, NodesAlways, PTL DEF NodeSpec, PendingRetained

-----------------------------------------------------------------------------
(* The slot of a Node holds claims of that Node.                           *)
OwnSlots == \A n \in Nodes : claims[n].node \in {n, NoValue}

(* A Node opens and closes its own slot; nobody else touches it.           *)
LEMMA OwnSlotsKept ==
  ASSUME claims \in [Calls -> Claim], OwnSlots, [NodeNext]_nodeVars
  PROVE  OwnSlots'
<1>1. claims' = claims => OwnSlots'
  BY DEF OwnSlots
<1>2. ASSUME NEW n \in Nodes, NEW c, claims' = [claims EXCEPT ![n] = c],
             c.node \in {n, NoValue}
      PROVE  OwnSlots'
  BY <1>2, WorkerAssumption DEF OwnSlots
<1>3. NoClaim.node = NoValue
  BY DEF NoClaim
<1>4. CASE \E r \in Runs : ServerStep(r)
  BY <1>1, <1>4 DEF ServerStep, Submit, CancelRun, LeaseTicks, BackoffElapses,
                    Update
<1>5. CASE Reconciles
  BY <1>1, <1>5 DEF Reconciles, Reconcile
<1>6. CASE UNCHANGED nodeVars
  BY <1>1, <1>6 DEF nodeVars
<1>7. ASSUME NEW n \in Nodes, NodeStep(n) PROVE OwnSlots'
  <2>1. CASE ClaimCall(n)
    BY <1>2, <2>1 DEF ClaimCall, ClaimBegin
  <2>2. CASE \E r \in Runs : Claimed(n, r)
    BY <1>2, <1>3, <2>2 DEF Claimed, ClaimCommit
  <2>3. CASE NotClaimed(n)
    BY <1>2, <1>3, <2>3 DEF NotClaimed, ClaimNothing
  <2>4. CASE OrphanClaimEnds(n)
    BY <1>2, <1>3, <2>4 DEF OrphanClaimEnds, ClaimNothing, ClaimCommit
  <2> DEFINE kept == claims' = claims
  <2>5. /\ \A r, k : Start(r, k) \/ Renew(r, k) => kept
        /\ \A r, k : AcknowledgeCancellation(r, k) => kept
        /\ \A r, k, v : Complete(r, k, v) \/ Fail(r, k, v) => kept
        /\ \A c : RegisterNode(n, c) => kept
        /\ UNCHANGED storeVars => kept
        /\ \A y : UNCHANGED <<runs, capacity, claims, y>> => kept
    BY DEF Start, Renew, AcknowledgeCancellation, Complete, Fail, Update,
           RegisterNode, storeVars
  <2>6. CASE Progress(n) /\ ~NotClaimed(n)
    <3>1. kept
      <4>1. CASE Boot(n) \/ Interrupt(n) \/ Deliver(n) \/ Report(n)
        BY <2>5, <4>1 DEF Boot, Interrupt, Deliver, Report
      <4>2. CASE \/ \E f \in files[n] : Recover(n, f)
                 \/ RecoverEnds(n) \/ stopLease(n)
        BY <4>2 DEF Recover, RecoverEnds, stopLease
      <4>3. CASE StartCall(n)
        BY <2>5, <4>3 DEF StartCall
      <4>4. CASE Acknowledge(n)
        BY <2>5, <4>4 DEF Acknowledge
      <4> QED
        BY <2>6, <4>1, <4>2, <4>3, <4>4 DEF Progress
    <3> QED
      BY <1>1, <3>1
  <2>7. CASE ~Progress(n) /\ ~ClaimCall(n) /\ ~(\E r \in Runs : Claimed(n, r))
             /\ ~OrphanClaimEnds(n)
    <3>1. kept
      <4>1. CASE keepLease(n)
        BY <2>5, <4>1 DEF keepLease
      <4>2. CASE RecoverFails(n)
        BY <2>5, <4>2 DEF RecoverFails
      <4>3. CASE \E cause \in Causes \ {Interrupted} : PrepareFails(n, cause)
        BY <2>5, <4>3 DEF PrepareFails
      <4>4. CASE \/ Emit(n) \/ Executed(n) \/ DeliveryTimesOut(n)
                 \/ ReportTimesOut(n) \/ Misled(n) \/ Crash(n)
                 \/ \E f \in files[n] : RecoverRejected(n, f)
        BY <4>4 DEF Emit, Executed, ExecuteReturns, DeliveryTimesOut,
                    ReportTimesOut, RecoverRejected, Misled, Crash
      <4> QED
        BY <1>7, <2>7, <4>1, <4>2, <4>3, <4>4 DEF NodeStep
    <3> QED
      BY <1>1, <3>1
  <2> QED
    BY <2>1, <2>2, <2>3, <2>4, <2>6, <2>7
<1> QED
  BY <1>4, <1>5, <1>6, <1>7 DEF NodeNext

(* Nodes with one claim loop never hold more leases than their capacity,    *)
(* whatever crashes, lost or foreign answers and abandoned leases there     *)
(* are, as long as a restarted Node registers at least the capacity it had *)
(* and claims only when the server has ended the claim of the process that  *)
(* crashed.                                                                *)
THEOREM NodesWithinCapacity ==
  NodeSpec /\ CapacityKept => []CapacityRespected
<1>1. NodeInit => OwnSlots
  BY WorkerAssumption DEF NodeInit, Init, OwnSlots, NoClaim
<1>2. StoreInv /\ OwnSlots /\ [NodeNext]_nodeVars => OwnSlots'
  BY OwnSlotsKept DEF StoreInv, AllGood
<1>3. OwnSlots => OneClaimPerNode
  BY WorkerAssumption, ConstantsAssumption DEF OwnSlots, OneClaimPerNode
<1>4. NodeSpec => []OneClaimPerNode
  BY <1>1, <1>2, <1>3, CallsAlways, PTL DEF NodeSpec
<1> QED
  BY <1>4, NodesUseTheStore, CapacityOfSingleClaims, PTL
=============================================================================
