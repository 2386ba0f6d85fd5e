---------------------------- MODULE EngineProofs ----------------------------
(***************************************************************************)
(* Proofs about Engine, for any number of callers, keys and goroutines and *)
(* any number of events.                                                   *)
(*                                                                         *)
(* The invariant says where every call of Execute stands: what it has still *)
(* to do determines what it has saved and told so far.  Whether an event   *)
(* was observed is kept apart: every number that was given out has reached *)
(* the observer or is in the hands of exactly one goroutine.               *)
(***************************************************************************)
EXTENDS Engine, SequenceTheorems, FiniteSetTheorems, TLAPS

PC == {"new", "compile", "execute", "executing", "returning", "returned"}

Status == {Absent, "queued", "running"} \union Terminal

EventType == {"run.created", "attempt.started", "run.started", "runtime.output",
              "attempt.succeeded", "run.succeeded", "attempt.failed", "run.failed"}

Operation == [op : {"save", "emit"}, arg : EventType \union Status]

CallRecord ==
  [pc : PC, key : Keys \union {Absent}, todo : Seq(Operation),
   run : Callers \union {Absent}, reply : Status]

Types ==
  /\ call \in [Callers -> CallRecord]
  /\ runs \in [Callers -> Status]
  /\ byRequest \in [Keys -> Callers \union {Absent}]
  /\ events \in [Callers -> Seq(EventType)]
  /\ emitting \in [Callers -> [Emitters -> Nat]]
  /\ observed \in [Callers -> Seq(Nat)]
  /\ executed \in [Keys -> Nat]

(* The log tells nothing of an end, and nothing of a start either.         *)
NotOver(log) == ~Contains(log, "run.succeeded") /\ ~Contains(log, "run.failed")

Silent(log) == NotOver(log) /\ ~Contains(log, "run.started")

(* The log tells of no other end than the status.                          *)
Tells(log, status) ==
  /\ Contains(log, "run.succeeded") => status = "succeeded"
  /\ Contains(log, "run.failed") => status = "failed"

Stage(pc, todo, status, log) ==
  \/ /\ pc = "compile" /\ todo = <<Emit("run.created")>>
     /\ status = "queued" /\ Silent(log) /\ Len(log) = 0
  \/ /\ pc = "compile" /\ todo = <<>>
     /\ status = "queued" /\ Silent(log) /\ Len(log) = 1
  \/ /\ pc = "execute"
     /\ todo = <<Save("running"), Emit("attempt.started"), Emit("run.started")>>
     /\ status = "queued" /\ Silent(log) /\ Len(log) = 1
  \/ /\ pc = "execute" /\ todo = <<Emit("attempt.started"), Emit("run.started")>>
     /\ status = "running" /\ Silent(log) /\ Len(log) = 1
  \/ /\ pc = "execute" /\ todo = <<Emit("run.started")>>
     /\ status = "running" /\ Silent(log) /\ Len(log) = 2
  \/ /\ pc = "execute" /\ todo = <<>>
     /\ status = "running" /\ NotOver(log) /\ Len(log) = 3
  \/ /\ pc = "executing" /\ todo = <<>>
     /\ status = "running" /\ NotOver(log) /\ Len(log) <= 3 + MaxEmits
  \/ \E end \in Terminal :
       LET last == LastEvents(end) IN
       \/ /\ pc = "returning" /\ todo = <<Save(end), last[1], last[2]>>
          /\ status = "running" \/ (status = "queued" /\ Silent(log))
          /\ NotOver(log) /\ Len(log) <= 3 + MaxEmits
       \/ /\ pc = "returning" /\ todo = <<last[1], last[2]>>
          /\ status = end /\ NotOver(log) /\ Len(log) <= 3 + MaxEmits
       \/ /\ pc = "returning" /\ todo = <<last[2]>>
          /\ status = end /\ NotOver(log) /\ Len(log) <= 4 + MaxEmits
       \/ /\ pc \in {"returning", "returned"} /\ todo = <<>>
          /\ status = end /\ Tells(log, status) /\ Len(log) <= 5 + MaxEmits

(* A call that has not begun, or that was given the Run of another one.    *)
Outside(c) ==
  /\ call[c].pc = "new" \/ (call[c].pc = "returned" /\ call[c].run # c)
  /\ call[c].todo = <<>> /\ runs[c] = Absent /\ events[c] = <<>>

(* A call that created the Run of its key.                                 *)
Inside(c) ==
  /\ call[c].run = c /\ call[c].key \in Keys /\ byRequest[call[c].key] = c
  /\ Stage(call[c].pc, call[c].todo, runs[c], events[c])

(* Every number given out was observed or is in the hands of one goroutine. *)
Watched(n, hands, seen) ==
  /\ \A i, j \in DOMAIN seen : seen[i] = seen[j] => i = j
  /\ \A i \in DOMAIN seen : seen[i] \in 1 .. n
  /\ \A t \in Emitters : hands[t] \in 0 .. n
  /\ \A t \in Emitters : hands[t] # 0 =>
       /\ \A i \in DOMAIN seen : seen[i] # hands[t]
       /\ \A u \in Emitters : hands[u] = hands[t] => u = t
  /\ \A m \in 1 .. n :
       (\E i \in DOMAIN seen : seen[i] = m) \/ (\E t \in Emitters : hands[t] = m)

Watching(c) ==
  /\ Watched(Len(events[c]), emitting[c], observed[c])
  /\ call[c].pc # "executing" => \A t \in Threads : emitting[c][t] = 0
  /\ call[c].pc \in {"new", "returned"} => emitting[c]["main"] = 0

(* The executor of a key is called by the call that created its Run.       *)
Executions ==
  /\ \A k \in Keys : /\ executed[k] <= 1
                     /\ byRequest[k] = Absent => executed[k] = 0
                     /\ byRequest[k] # Absent => Inside(byRequest[k])
                                                 /\ call[byRequest[k]].key = k
  /\ \A c \in Callers :
       call[c].pc \in {"compile", "execute"} => executed[call[c].key] = 0

EngineInv ==
  /\ Types
  /\ \A c \in Callers : Outside(c) \/ Inside(c)
  /\ \A c \in Callers : Watching(c)
  /\ Executions

-----------------------------------------------------------------------------
(* What is left to do determines what was done.                            *)

(* Appending an event to a log.                                            *)
LEMMA ContainsAppend ==
  ASSUME NEW log \in Seq(EventType), NEW type \in EventType, NEW u
  PROVE  /\ Append(log, type) \in Seq(EventType)
         /\ Len(Append(log, type)) = Len(log) + 1
         /\ Contains(Append(log, type), u) <=> Contains(log, u) \/ u = type
<1>1. /\ Append(log, type) \in Seq(EventType)
      /\ Len(Append(log, type)) = Len(log) + 1
      /\ \A i \in 1 .. Len(log) : Append(log, type)[i] = log[i]
      /\ Append(log, type)[Len(log) + 1] = type
  BY AppendProperties
<1>2. Len(log) \in Nat
  OBVIOUS
<1> QED
  BY <1>1, <1>2 DEF Contains

(* Execute ends with three things to do.                                   *)
LEMMA FinishIs ==
  ASSUME NEW end \in Terminal
  PROVE  Finish(end) = <<Save(end), LastEvents(end)[1], LastEvents(end)[2]>>
<1>1. ASSUME NEW s, NEW a, NEW b
      PROVE  <<s>> \o <<a, b>> = <<s, a, b>>
  <2> DEFINE S == {s, a, b}
             p == <<s>>
             q == <<a, b>>
             r == <<s, a, b>>
  <2>1. /\ p \in Seq(S) /\ q \in Seq(S) /\ r \in Seq(S)
        /\ Len(p) = 1 /\ Len(q) = 2 /\ Len(r) = 3
        /\ p[1] = s /\ q[1] = a /\ q[2] = b /\ r[1] = s /\ r[2] = a /\ r[3] = b
    OBVIOUS
  <2> HIDE DEF S, p, q, r
  <2>2. /\ p \o q \in Seq(S) /\ Len(p \o q) = 3
        /\ \A i \in 1 .. 3 : (p \o q)[i] = IF i <= 1 THEN p[i] ELSE q[i - 1]
    <3>1. /\ p \o q \in Seq(S) /\ Len(p \o q) = Len(p) + Len(q)
          /\ \A i \in 1 .. Len(p) + Len(q) :
               (p \o q)[i] = IF i <= Len(p) THEN p[i] ELSE q[i - Len(p)]
      BY <2>1, ConcatProperties, Zenon
    <3>2. Len(p) + Len(q) = 3 /\ Len(p) = 1
      BY <2>1
    <3> QED
      BY <3>1, <3>2, Zenon
  <2>3. \A i \in 1 .. 3 : i = 1 \/ i = 2 \/ i = 3
    OBVIOUS
  <2>4. (p \o q)[1] = s /\ (p \o q)[2] = a /\ (p \o q)[3] = b
    BY <2>1, <2>2
  <2>5. \A i \in 1 .. Len(p \o q) : (p \o q)[i] = r[i]
    BY <2>1, <2>2, <2>3, <2>4
  <2>6. p \o q = r
    BY <2>1, <2>2, <2>5, SeqEqual
  <2> QED
    BY <2>6 DEF p, q, r
<1>2. PICK a, b : LastEvents(end) = <<a, b>>
  BY DEF LastEvents
<1>3. LastEvents(end)[1] = a /\ LastEvents(end)[2] = b
  BY <1>2
<1> QED
  BY <1>1, <1>2, <1>3 DEF Finish

(* The events Execute ends with.                                           *)
LEMMA LastEventsAre ==
  ASSUME NEW end \in Terminal
  PROVE  LET last == LastEvents(end) IN
         /\ last[1].op = "emit" /\ last[1].arg \in {"attempt.succeeded", "attempt.failed"}
         /\ last[2].op = "emit"
         /\ end = "succeeded" => last[2].arg = "run.succeeded"
         /\ end = "failed" => last[2].arg = "run.failed"
         /\ last[1] \in Operation /\ last[2] \in Operation
BY DEF LastEvents, Emit, Terminal, Operation, EventType

(* The parts of a stage are of their types.                                *)
LEMMA StageTyped ==
  ASSUME NEW pc, NEW todo, NEW status, NEW log, Stage(pc, todo, status, log)
  PROVE  /\ pc \in PC \ {"new"} /\ todo \in Seq(Operation)
         /\ status \in Status \ {Absent}
<1>1. \A end \in Terminal : LET last == LastEvents(end) IN
        last[1] \in Operation /\ last[2] \in Operation
  BY LastEventsAre
<1>2. /\ \A type \in EventType : Emit(type) \in Operation
      /\ \A s \in Status : Save(s) \in Operation
  BY DEF Emit, Save, Operation
<1>3. \A a, b, d \in Operation :
        /\ <<>> \in Seq(Operation) /\ <<a>> \in Seq(Operation)
        /\ <<a, b>> \in Seq(Operation) /\ <<a, b, d>> \in Seq(Operation)
  OBVIOUS
<1>4. todo \in Seq(Operation)
  BY <1>1, <1>2, <1>3 DEF Stage, EventType, Status
<1>5. pc \in PC \ {"new"}
  BY DEF Stage, PC
<1>6. status \in Status \ {Absent}
  BY DEF Stage, Status, Terminal, Absent
<1> QED
  BY <1>4, <1>5, <1>6

(* A status is saved.                                                      *)
LEMMA StageSaved ==
  ASSUME NEW pc, NEW todo, NEW status, NEW log, Stage(pc, todo, status, log),
         todo # <<>>, Head(todo).op = "save"
  PROVE  Stage(pc, Tail(todo), Head(todo).arg, log)
<1>1. \A type : Emit(type).op = "emit"
  BY DEF Emit
<1>2. \A s : Save(s).arg = s
  BY DEF Save
<1>3. \A end \in Terminal :
        LastEvents(end)[1].op = "emit" /\ LastEvents(end)[2].op = "emit"
  BY LastEventsAre
<1>4. \A a, b, d : /\ Head(<<a>>) = a /\ Head(<<a, b>>) = a
                   /\ Head(<<a, b, d>>) = a /\ Tail(<<a, b, d>>) = <<b, d>>
  OBVIOUS
<1>5. CASE /\ pc = "execute"
           /\ todo = <<Save("running"), Emit("attempt.started"), Emit("run.started")>>
           /\ status = "queued" /\ Silent(log) /\ Len(log) = 1
  <2>1. /\ Head(todo).arg = "running"
        /\ Tail(todo) = <<Emit("attempt.started"), Emit("run.started")>>
    BY <1>2, <1>4, <1>5
  <2> QED
    BY <1>5, <2>1 DEF Stage
<1>6. ASSUME NEW end \in Terminal, pc = "returning",
             todo = <<Save(end), LastEvents(end)[1], LastEvents(end)[2]>>,
             NotOver(log), Len(log) <= 3 + MaxEmits
      PROVE  Stage(pc, Tail(todo), Head(todo).arg, log)
  <2>1. /\ Head(todo).arg = end
        /\ Tail(todo) = <<LastEvents(end)[1], LastEvents(end)[2]>>
    BY <1>2, <1>4, <1>6
  <2> QED
    BY <1>6, <2>1 DEF Stage
<1> QED
  BY <1>1, <1>3, <1>4, <1>5, <1>6 DEF Stage

(* An event is appended.                                                   *)
LEMMA StageEmitted ==
  ASSUME NEW pc, NEW todo, NEW status, NEW log \in Seq(EventType),
         Stage(pc, todo, status, log), todo # <<>>, Head(todo).op = "emit"
  PROVE  /\ Head(todo).arg \in EventType
         /\ Stage(pc, Tail(todo), status, Append(log, Head(todo).arg))
<1> DEFINE type == Head(todo).arg
           after == Append(log, type)
<1>1. \A s : Save(s).op = "save"
  BY DEF Save
<1>2. \A t : Emit(t).arg = t
  BY DEF Emit
<1>3. \A a, b, d : /\ Head(<<a>>) = a /\ Head(<<a, b>>) = a
                   /\ Head(<<a, b, d>>) = a
                   /\ Tail(<<a>>) = <<>> /\ Tail(<<a, b>>) = <<b>>
  OBVIOUS
<1>4. Len(log) \in Nat /\ MaxEmits \in Nat
  BY EngineAssumption
<1>5. ASSUME type \in EventType
      PROVE  /\ Len(after) = Len(log) + 1
             /\ type \notin {"run.succeeded", "run.failed"} =>
                  (NotOver(log) => NotOver(after))
             /\ type \notin {"run.started", "run.succeeded", "run.failed"} =>
                  (Silent(log) => Silent(after))
             /\ NotOver(log) => /\ type = "run.succeeded" => Tells(after, "succeeded")
                                /\ type = "run.failed" => Tells(after, "failed")
  BY <1>5, ContainsAppend DEF NotOver, Silent, Tells
<1>6. ASSUME NEW op, op.op = "emit", op.arg \in EventType, Head(todo) = op
      PROVE  type \in EventType
  BY <1>6
<1> HIDE DEF after
<1>7. CASE /\ pc = "compile" /\ todo = <<Emit("run.created")>>
           /\ status = "queued" /\ Silent(log) /\ Len(log) = 0
  <2>1. type = "run.created" /\ Tail(todo) = <<>> /\ type \in EventType
    BY <1>2, <1>3, <1>7 DEF EventType
  <2>2. Silent(after) /\ Len(after) = 1
    BY <1>5, <1>7, <2>1
  <2> QED
    BY <1>7, <2>1, <2>2 DEF Stage, after
<1>8. CASE /\ pc = "execute" /\ todo = <<Emit("attempt.started"), Emit("run.started")>>
           /\ status = "running" /\ Silent(log) /\ Len(log) = 1
  <2>1. /\ type = "attempt.started" /\ Tail(todo) = <<Emit("run.started")>>
        /\ type \in EventType
    BY <1>2, <1>3, <1>8 DEF EventType
  <2>2. Silent(after) /\ Len(after) = 2
    BY <1>5, <1>8, <2>1
  <2> QED
    BY <1>8, <2>1, <2>2 DEF Stage, after
<1>9. CASE /\ pc = "execute" /\ todo = <<Emit("run.started")>>
           /\ status = "running" /\ Silent(log) /\ Len(log) = 2
  <2>1. type = "run.started" /\ Tail(todo) = <<>> /\ type \in EventType
    BY <1>2, <1>3, <1>9 DEF EventType
  <2>2. NotOver(after) /\ Len(after) = 3
    BY <1>5, <1>9, <2>1 DEF Silent
  <2> QED
    BY <1>9, <2>1, <2>2 DEF Stage, after
<1>10. ASSUME NEW end \in Terminal, pc = "returning",
              todo = <<LastEvents(end)[1], LastEvents(end)[2]>>,
              status = end, NotOver(log), Len(log) <= 3 + MaxEmits
       PROVE  type \in EventType /\ Stage(pc, Tail(todo), status, after)
  <2>1. /\ type \in {"attempt.succeeded", "attempt.failed"}
        /\ Tail(todo) = <<LastEvents(end)[2]>>
    BY <1>3, <1>10, LastEventsAre
  <2>2. type \in EventType
    BY <2>1 DEF EventType
  <2>3. NotOver(after) /\ Len(after) <= 4 + MaxEmits
    BY <1>4, <1>5, <1>10, <2>1, <2>2
  <2> QED
    BY <1>10, <2>1, <2>2, <2>3 DEF Stage
<1>11. ASSUME NEW end \in Terminal, pc = "returning",
              todo = <<LastEvents(end)[2]>>,
              status = end, NotOver(log), Len(log) <= 4 + MaxEmits
       PROVE  type \in EventType /\ Stage(pc, Tail(todo), status, after)
  <2>1. /\ end = "succeeded" => type = "run.succeeded"
        /\ end = "failed" => type = "run.failed"
        /\ end \in {"succeeded", "failed"} /\ Tail(todo) = <<>>
    BY <1>3, <1>11, LastEventsAre DEF Terminal
  <2>2. type \in EventType
    BY <2>1 DEF EventType
  <2>3. Tells(after, end) /\ Len(after) <= 5 + MaxEmits
    BY <1>4, <1>5, <1>11, <2>1, <2>2
  <2> QED
    BY <1>11, <2>1, <2>2, <2>3 DEF Stage
<1> QED
  BY <1>1, <1>3, <1>7, <1>8, <1>9, <1>10, <1>11 DEF Stage, after

(* A goroutine of the executor emits.                                      *)
LEMMA StageOutput ==
  ASSUME NEW todo, NEW status, NEW log \in Seq(EventType),
         Stage("executing", todo, status, log), Len(log) < 3 + MaxEmits
  PROVE  Stage("executing", todo, status, Append(log, "runtime.output"))
<1>1. "runtime.output" \in EventType
  BY DEF EventType
<1>2. /\ todo = <<>> /\ status = "running" /\ NotOver(log)
  BY DEF Stage
<1>3. /\ NotOver(Append(log, "runtime.output"))
      /\ Len(Append(log, "runtime.output")) <= 3 + MaxEmits
  BY <1>1, <1>2, ContainsAppend, EngineAssumption DEF NotOver
<1> QED
  BY <1>2, <1>3 DEF Stage

-----------------------------------------------------------------------------
(* What the observer is given.                                             *)

(* An event is appended and in the hands of a goroutine.                   *)
LEMMA AppendWatched ==
  ASSUME NEW n \in Nat, NEW hands \in [Emitters -> Nat], NEW seen \in Seq(Nat),
         Watched(n, hands, seen), NEW t \in Emitters, hands[t] = 0
  PROVE  Watched(n + 1, [hands EXCEPT ![t] = n + 1], seen)
<1> DEFINE new == [hands EXCEPT ![t] = n + 1]
<1>1. /\ new[t] = n + 1
      /\ \A u \in Emitters : u # t => new[u] = hands[u]
  OBVIOUS
<1> HIDE DEF new
<1>2. \A i, j \in DOMAIN seen : seen[i] = seen[j] => i = j
  BY DEF Watched
<1>3. \A i \in DOMAIN seen : seen[i] \in 1 .. n
  BY DEF Watched
<1>4. \A u \in Emitters : hands[u] \in 0 .. n
  BY DEF Watched
<1>5. \A u \in Emitters : new[u] \in 0 .. n + 1
  BY <1>1, <1>4
<1>6. ASSUME NEW u \in Emitters, new[u] # 0
      PROVE  /\ \A i \in DOMAIN seen : seen[i] # new[u]
             /\ \A v \in Emitters : new[v] = new[u] => v = u
  <2>1. CASE u = t
    BY <1>1, <1>3, <1>4, <2>1
  <2>2. CASE u # t
    <3>1. /\ hands[u] # 0 /\ new[u] = hands[u] /\ hands[u] \in 0 .. n
      BY <1>1, <1>4, <1>6, <2>2
    <3>2. /\ \A i \in DOMAIN seen : seen[i] # hands[u]
          /\ \A v \in Emitters : hands[v] = hands[u] => v = u
      BY <3>1 DEF Watched
    <3> QED
      BY <1>1, <3>1, <3>2
  <2> QED
    BY <2>1, <2>2
<1>7. ASSUME NEW m \in 1 .. n + 1
      PROVE  (\E i \in DOMAIN seen : seen[i] = m) \/ (\E u \in Emitters : new[u] = m)
  <2>1. CASE m = n + 1
    BY <1>1, <2>1
  <2>2. CASE m # n + 1
    <3>1. m \in 1 .. n
      BY <2>2
    <3>2. (\E i \in DOMAIN seen : seen[i] = m) \/ (\E u \in Emitters : hands[u] = m)
      BY <3>1 DEF Watched
    <3> QED
      BY <1>1, <3>1, <3>2
  <2> QED
    BY <2>1, <2>2
<1>8. \A i \in DOMAIN seen : seen[i] \in 1 .. n + 1
  BY <1>3
<1> QED
  BY <1>2, <1>5, <1>6, <1>7, <1>8 DEF Watched, new

(* The observer is called.                                                 *)
LEMMA ObserveWatched ==
  ASSUME NEW n \in Nat, NEW hands \in [Emitters -> Nat], NEW seen \in Seq(Nat),
         Watched(n, hands, seen), NEW t \in Emitters, hands[t] # 0
  PROVE  Watched(n, [hands EXCEPT ![t] = 0], Append(seen, hands[t]))
<1> DEFINE new == [hands EXCEPT ![t] = 0]
           h == hands[t]
           list == Append(seen, h)
           l == Len(seen)
<1>1. /\ new[t] = 0
      /\ \A u \in Emitters : u # t => new[u] = hands[u]
  OBVIOUS
<1>2. /\ l \in Nat /\ DOMAIN seen = 1 .. l /\ DOMAIN list = 1 .. l + 1
      /\ list[l + 1] = h
      /\ \A i \in 1 .. l : list[i] = seen[i]
  BY AppendProperties
<1>3. /\ \A i, j \in 1 .. l : seen[i] = seen[j] => i = j
      /\ \A i \in 1 .. l : seen[i] \in 1 .. n
      /\ \A u \in Emitters : hands[u] \in 0 .. n
      /\ \A u \in Emitters : hands[u] # 0 =>
           /\ \A i \in 1 .. l : seen[i] # hands[u]
           /\ \A v \in Emitters : hands[v] = hands[u] => v = u
      /\ \A m \in 1 .. n :
           (\E i \in 1 .. l : seen[i] = m) \/ (\E u \in Emitters : hands[u] = m)
  BY <1>2 DEF Watched
<1>4. h \in 1 .. n
  BY <1>3
<1> HIDE DEF new, list, l, h
<1>5. \A i, j \in 1 .. l + 1 : list[i] = list[j] => i = j
  BY <1>2, <1>3 DEF h
<1>6. \A i \in 1 .. l + 1 : list[i] \in 1 .. n
  BY <1>2, <1>3, <1>4
<1>7. \A u \in Emitters : new[u] \in 0 .. n
  BY <1>1, <1>3
<1>8. ASSUME NEW u \in Emitters, new[u] # 0
      PROVE  /\ \A i \in 1 .. l + 1 : list[i] # new[u]
             /\ \A v \in Emitters : new[v] = new[u] => v = u
  <2>1. u # t /\ new[u] = hands[u] /\ hands[u] # 0
    BY <1>1, <1>8
  <2> QED
    BY <1>1, <1>2, <1>3, <2>1 DEF h
<1>9. ASSUME NEW m \in 1 .. n
      PROVE  (\E i \in 1 .. l + 1 : list[i] = m) \/ (\E u \in Emitters : new[u] = m)
  <2>1. CASE m = h
    BY <1>2, <2>1
  <2>2. CASE m # h
    <3>1. CASE \E i \in 1 .. l : seen[i] = m
      <4>1. PICK i \in 1 .. l : seen[i] = m
        BY <3>1
      <4>2. i \in 1 .. l + 1 /\ list[i] = m
        BY <1>2, <4>1
      <4> QED
        BY <4>2
    <3>2. CASE \E u \in Emitters : hands[u] = m
      BY <1>1, <2>2, <3>2 DEF h
    <3> QED
      BY <1>3, <3>1, <3>2
  <2> QED
    BY <2>1, <2>2
<1>10. Watched(n, new, list)
  BY <1>2, <1>5, <1>6, <1>7, <1>8, <1>9 DEF Watched
<1> QED
  BY <1>10 DEF new, list, h

(* When no goroutine holds an event, the observer has seen all of them.    *)
LEMMA AllObserved ==
  ASSUME NEW n \in Nat, NEW hands \in [Emitters -> Nat], NEW seen \in Seq(Nat),
         Watched(n, hands, seen), \A t \in Emitters : hands[t] = 0
  PROVE  Len(seen) = n /\ ToSet(seen) = 1 .. n
<1> DEFINE l == Len(seen)
<1>1. l \in Nat /\ DOMAIN seen = 1 .. l /\ seen \in [1 .. l -> Nat]
  OBVIOUS
<1>2. /\ \A i, j \in 1 .. l : seen[i] = seen[j] => i = j
      /\ \A i \in 1 .. l : seen[i] \in 1 .. n
      /\ \A m \in 1 .. n : \E i \in 1 .. l : seen[i] = m
  <2>1. \A m \in 1 .. n : \A t \in Emitters : hands[t] # m
    OBVIOUS
  <2>2. \A m \in 1 .. n : (\E i \in DOMAIN seen : seen[i] = m)
                              \/ (\E t \in Emitters : hands[t] = m)
    BY DEF Watched
  <2>3. /\ \A i, j \in DOMAIN seen : seen[i] = seen[j] => i = j
        /\ \A i \in DOMAIN seen : seen[i] \in 1 .. n
    BY DEF Watched
  <2> HIDE DEF l
  <2> QED
    BY <1>1, <2>1, <2>2, <2>3
<1> HIDE DEF l
<1>3. ToSet(seen) = 1 .. n
  <2>1. \A m : m \in ToSet(seen) <=> \E i \in 1 .. l : seen[i] = m
    BY <1>1 DEF ToSet
  <2>2. \A m : m \in ToSet(seen) => m \in 1 .. n
    BY <1>2, <2>1
  <2>3. \A m : m \in 1 .. n => m \in ToSet(seen)
    BY <1>2, <2>1
  <2> HIDE DEF ToSet
  <2> QED
    BY <2>2, <2>3, Zenon
<1>4. seen \in Bijection(1 .. l, 1 .. n)
  BY <1>1, <1>2 DEF Bijection, Injection, Surjection, IsInjective
<1>5. /\ IsFiniteSet(1 .. l) /\ Cardinality(1 .. l) = l
      /\ IsFiniteSet(1 .. n) /\ Cardinality(1 .. n) = n
  <2>1. \A m \in Nat : IsFiniteSet(1 .. m) /\ Cardinality(1 .. m) = m
    <3> TAKE m \in Nat
    <3>1. 1 \in Int /\ m \in Int
      OBVIOUS
    <3>2. /\ IsFiniteSet(1 .. m)
          /\ Cardinality(1 .. m) = IF 1 > m THEN 0 ELSE m - 1 + 1
      BY <3>1, FS_Interval, Zenon
    <3> QED
      BY <3>2
  <2> QED
    BY <1>1, <2>1
<1>6. Cardinality(1 .. l) = Cardinality(1 .. n)
  BY <1>4, <1>5, FS_Bijection DEF ExistsBijection
<1> QED
  BY <1>3, <1>5, <1>6 DEF l

-----------------------------------------------------------------------------
(* One call moves.                                                         *)

(* The step belongs to c.                                                  *)
OnlyCall(c) ==
  \A d \in Callers :
    d # c => /\ call'[d] = call[d] /\ runs'[d] = runs[d]
             /\ events'[d] = events[d] /\ emitting'[d] = emitting[d]
             /\ observed'[d] = observed[d]

(* Execute goes on to another phase.                                       *)
LEMMA ContinueFacts ==
  ASSUME Types, NEW c \in Callers, NEW pc \in PC, NEW todo \in Seq(Operation),
         Continue(c, pc, todo)
  PROVE  /\ call' \in [Callers -> CallRecord]
         /\ \A d \in Callers : d # c => call'[d] = call[d]
         /\ call'[c].pc = pc /\ call'[c].todo = todo
         /\ call'[c].key = call[c].key /\ call'[c].run = call[c].run
         /\ call'[c].reply = call[c].reply
BY DEF Types, CallRecord, Continue

(* The other calls stand where they stood.                                 *)
LEMMA OthersStand ==
  ASSUME EngineInv, NEW c \in Callers, OnlyCall(c),
         \A k \in Keys : byRequest[k] # Absent => byRequest'[k] = byRequest[k],
         NEW d \in Callers, d # c
  PROVE  /\ (Outside(d) \/ Inside(d))' /\ Watching(d)'
         /\ Inside(d) => Inside(d)'
         /\ call'[d] = call[d]
<1>1. /\ call'[d] = call[d] /\ runs'[d] = runs[d] /\ events'[d] = events[d]
      /\ emitting'[d] = emitting[d] /\ observed'[d] = observed[d]
  BY DEF OnlyCall
<1>2. d # Absent
  BY EngineAssumption DEF Absent
<1>3. Outside(d) => Outside(d)'
  BY <1>1 DEF Outside
<1>4. Inside(d) => Inside(d)'
  BY <1>1, <1>2 DEF Inside
<1>5. Watching(d)'
  BY <1>1 DEF EngineInv, Watching
<1> QED
  BY <1>1, <1>3, <1>4, <1>5 DEF EngineInv

(* A call that created its Run goes on with it.                            *)
LEMMA CallGoesOn ==
  ASSUME EngineInv, Types', NEW c \in Callers, OnlyCall(c), Inside(c), Inside(c)',
         Watching(c)', call'[c].key = call[c].key, byRequest' = byRequest,
         executed' = executed,
         call'[c].pc \in {"compile", "execute"} => call[c].pc \in {"compile", "execute"}
  PROVE  EngineInv'
<1>1. ASSUME NEW d \in Callers, d # c
      PROVE  /\ (Outside(d) \/ Inside(d))' /\ Watching(d)'
             /\ Inside(d) => Inside(d)'
             /\ call'[d] = call[d]
  BY <1>1, OthersStand
<1>2. \A d \in Callers : (Outside(d) \/ Inside(d))' /\ Watching(d)'
  BY <1>1
<1>3. ASSUME NEW k \in Keys
      PROVE  /\ executed'[k] <= 1
             /\ byRequest'[k] = Absent => executed'[k] = 0
             /\ byRequest'[k] # Absent => Inside(byRequest[k])'
                                          /\ call'[byRequest'[k]].key = k
  <2>1. /\ executed[k] <= 1
        /\ byRequest[k] = Absent => executed[k] = 0
        /\ byRequest[k] # Absent => /\ Inside(byRequest[k])
                                    /\ call[byRequest[k]].key = k
    BY DEF EngineInv, Executions
  <2>2. byRequest[k] # Absent => byRequest[k] \in Callers
    BY DEF EngineInv, Types
  <2>3. \A d \in Callers : Inside(d) => Inside(d)' /\ call'[d].key = call[d].key
    BY <1>1
  <2>4. byRequest[k] # Absent =>
          \A d \in Callers : d = byRequest[k] => Inside(d)' /\ call'[d].key = k
    BY <2>1, <2>3
  <2>5. \A d : d = byRequest'[k] => (Inside(d)' <=> Inside(byRequest[k])')
    BY DEF Inside
  <2> QED
    BY <2>1, <2>2, <2>4, <2>5
<1>4. ASSUME NEW d \in Callers, call'[d].pc \in {"compile", "execute"}
      PROVE  executed'[call'[d].key] = 0
  BY <1>1, <1>4 DEF EngineInv, Executions
<1> QED
  BY <1>2, <1>3, <1>4 DEF EngineInv, Executions

(* Where a call is at work, it created its Run.                            *)
LEMMA AtWork ==
  ASSUME EngineInv, NEW c \in Callers,
         \/ call[c].pc \notin {"new", "returned"}
         \/ call[c].todo # <<>>
  PROVE  Inside(c)
BY DEF EngineInv, Outside

(* Compile, ExecutorReturns, Return and Update.                            *)
LEMMA PhaseSteps ==
  ASSUME EngineInv, NEW c \in Callers,
         Compile(c) \/ ExecutorReturns(c) \/ Return(c) \/ Update(c)
  PROVE  EngineInv'
<1> DEFINE x == call[c]
<1>1. /\ UNCHANGED <<byRequest, events, emitting, observed, executed>>
      /\ Types /\ x \in CallRecord /\ c # Absent /\ Watching(c)
  BY EngineAssumption
     DEF Compile, ExecutorReturns, Return, Update, EngineInv, Types, Absent
<1>2. Inside(c)
  BY AtWork DEF Compile, ExecutorReturns, Return, Update, Ready
<1>3. /\ Stage(x.pc, x.todo, runs[c], events[c])
      /\ x.run = c /\ x.key \in Keys /\ byRequest[x.key] = c
  BY <1>2 DEF Inside
<1>4. ASSUME call' \in [Callers -> CallRecord], runs' \in [Callers -> Status],
             \A d \in Callers : d # c => call'[d] = call[d] /\ runs'[d] = runs[d],
             call'[c].run = x.run, call'[c].key = x.key,
             Stage(call[c].pc, call[c].todo, runs[c], events[c])',
             call'[c].pc # "executing" => \A t \in Threads : emitting[c][t] = 0,
             call'[c].pc \in {"new", "returned"} => emitting[c]["main"] = 0,
             call'[c].pc \in {"compile", "execute"} =>
               x.pc \in {"compile", "execute"}
      PROVE  EngineInv'
  <2>1. OnlyCall(c) /\ Types'
    BY <1>1, <1>4 DEF OnlyCall, Types
  <2>2. Inside(c)'
    BY <1>1, <1>3, <1>4 DEF Inside
  <2>3. Watching(c)'
    BY <1>1, <1>4 DEF Watching
  <2> QED
    BY <1>1, <1>2, <1>4, <2>1, <2>2, <2>3, CallGoesOn
<1>5. CASE Compile(c)
  <2> DEFINE next == <<Save("running"), Emit("attempt.started"), Emit("run.started")>>
             last == <<Save("failed"), LastEvents("failed")[1], LastEvents("failed")[2]>>
  <2>1. /\ x.pc = "compile" /\ x.todo = <<>> /\ runs' = runs
        /\ \/ Continue(c, "execute", next)
           \/ Continue(c, "returning", last)
    BY <1>5, FinishIs DEF Compile, Ready, Terminal
  <2>2. /\ runs[c] = "queued" /\ Silent(events[c]) /\ Len(events[c]) = 1
    BY <1>3, <2>1, EngineAssumption DEF Stage, Terminal
  <2>3. Stage("execute", next, runs[c], events[c])
    BY <2>2 DEF Stage
  <2>4. Stage("returning", last, runs[c], events[c])
    <3>1. /\ NotOver(events[c]) /\ Len(events[c]) <= 3 + MaxEmits
          /\ "failed" \in Terminal
      BY <2>2, EngineAssumption DEF Silent, Terminal
    <3> QED
      BY <2>2, <3>1 DEF Stage
  <2>5. \A t \in Threads : emitting[c][t] = 0
    BY <1>1, <2>1 DEF Watching
  <2> HIDE DEF next, last
  <2>6. /\ call' \in [Callers -> CallRecord]
        /\ \A d \in Callers : d # c => call'[d] = call[d]
        /\ call'[c].run = x.run /\ call'[c].key = x.key
        /\ \/ call'[c].pc = "execute" /\ call'[c].todo = next
           \/ call'[c].pc = "returning" /\ call'[c].todo = last
    <3>1. /\ next \in Seq(Operation) /\ last \in Seq(Operation)
          /\ "execute" \in PC /\ "returning" \in PC
      BY <2>3, <2>4, StageTyped DEF PC
    <3> QED
      BY <1>1, <2>1, <3>1, ContinueFacts
  <2>7. runs' \in [Callers -> Status]
    BY <1>1, <2>1 DEF Types
  <2> QED
    BY <1>1, <1>4, <2>1, <2>3, <2>4, <2>5, <2>6, <2>7
<1>6. CASE ExecutorReturns(c)
  <2>1. /\ x.pc = "executing" /\ runs' = runs
        /\ \A t \in Threads : emitting[c][t] = 0
    BY <1>6 DEF ExecutorReturns
  <2>2. PICK end \in Terminal :
          Continue(c, "returning",
                   <<Save(end), LastEvents(end)[1], LastEvents(end)[2]>>)
    BY <1>6, FinishIs DEF ExecutorReturns
  <2> DEFINE last == <<Save(end), LastEvents(end)[1], LastEvents(end)[2]>>
  <2>3. /\ runs[c] = "running" /\ NotOver(events[c])
        /\ Len(events[c]) <= 3 + MaxEmits
    BY <1>3, <2>1 DEF Stage
  <2>4. Stage("returning", last, runs[c], events[c])
    BY <2>3 DEF Stage
  <2> HIDE DEF last
  <2>5. /\ call' \in [Callers -> CallRecord]
        /\ \A d \in Callers : d # c => call'[d] = call[d]
        /\ call'[c].run = x.run /\ call'[c].key = x.key
        /\ call'[c].pc = "returning" /\ call'[c].todo = last
    <3>1. last \in Seq(Operation) /\ "returning" \in PC
      BY <2>4, StageTyped DEF PC
    <3> QED
      BY <1>1, <2>2, <3>1, ContinueFacts DEF last
  <2>6. runs' \in [Callers -> Status]
    BY <1>1, <2>1 DEF Types
  <2> QED
    BY <1>1, <1>4, <2>1, <2>4, <2>5, <2>6
<1>7. CASE Return(c)
  <2>1. /\ x.pc = "returning" /\ x.todo = <<>> /\ emitting[c]["main"] = 0
        /\ runs' = runs
        /\ call' = [call EXCEPT ![c].pc = "returned", ![c].reply = runs[c]]
    BY <1>7 DEF Return, Ready
  <2>2. Stage("returned", <<>>, runs[c], events[c])
    BY <1>3, <2>1 DEF Stage
  <2>3. /\ call' \in [Callers -> CallRecord]
        /\ \A d \in Callers : d # c => call'[d] = call[d]
        /\ call'[c].run = x.run /\ call'[c].key = x.key
        /\ call'[c].pc = "returned" /\ call'[c].todo = x.todo
    BY <1>1, <2>1 DEF Types, CallRecord, PC
  <2>4. \A t \in Threads : emitting[c][t] = 0
    BY <1>1, <2>1 DEF Watching
  <2>5. runs' \in [Callers -> Status]
    BY <1>1, <2>1 DEF Types
  <2> QED
    BY <1>1, <1>4, <2>1, <2>2, <2>3, <2>4, <2>5
<1>8. CASE Update(c)
  <2> DEFINE status == Head(x.todo).arg
             rest == Tail(x.todo)
  <2>1. /\ x.todo # <<>> /\ Head(x.todo).op = "save"
        /\ runs' = [runs EXCEPT ![c] = status]
        /\ Continue(c, x.pc, rest)
    BY <1>8 DEF Update
  <2>2. Stage(x.pc, rest, status, events[c])
    BY <1>3, <2>1, StageSaved
  <2>3. status \in Status /\ rest \in Seq(Operation) /\ x.pc \in PC /\ x.pc # "new"
    BY <2>2, StageTyped
  <2> HIDE DEF status, rest
  <2>4. /\ call' \in [Callers -> CallRecord]
        /\ \A d \in Callers : d # c => call'[d] = call[d]
        /\ call'[c].run = x.run /\ call'[c].key = x.key
        /\ call'[c].pc = x.pc /\ call'[c].todo = rest
    BY <1>1, <2>1, <2>3, ContinueFacts
  <2>5. /\ runs' \in [Callers -> Status] /\ runs'[c] = status
        /\ \A d \in Callers : d # c => runs'[d] = runs[d]
    BY <1>1, <2>1, <2>3 DEF Types
  <2> QED
    BY <1>1, <1>4, <2>2, <2>4, <2>5 DEF Watching
<1> QED
  BY <1>5, <1>6, <1>7, <1>8

(* emit appends an event: EmitNext and RuntimeEmits.                       *)
LEMMA AppendFacts ==
  ASSUME Types, NEW c \in Callers, NEW t \in Emitters, NEW type \in EventType,
         Watched(Len(events[c]), emitting[c], observed[c]),
         AppendEvent(c, t, type)
  PROVE  /\ events' \in [Callers -> Seq(EventType)]
         /\ emitting' \in [Callers -> [Emitters -> Nat]]
         /\ events'[c] = Append(events[c], type)
         /\ \A u \in Emitters : u # t => emitting'[c][u] = emitting[c][u]
         /\ \A d \in Callers : d # c => /\ events'[d] = events[d]
                                        /\ emitting'[d] = emitting[d]
         /\ Watched(Len(events'[c]), emitting'[c], observed[c])
<1> DEFINE log == events[c]
           n == Len(log)
           hands == [emitting[c] EXCEPT ![t] = n + 1]
<1>1. /\ log \in Seq(EventType) /\ n \in Nat /\ observed[c] \in Seq(Nat)
      /\ emitting[c] \in [Emitters -> Nat] /\ emitting[c][t] = 0
  BY DEF Types, AppendEvent
<1>2. Append(log, type) \in Seq(EventType) /\ Len(Append(log, type)) = n + 1
  BY <1>1, ContainsAppend
<1>3. /\ events' = [events EXCEPT ![c] = Append(log, type)]
      /\ emitting' = [emitting EXCEPT ![c] = hands]
  BY DEF AppendEvent, Types
<1>4. /\ hands \in [Emitters -> Nat]
      /\ \A u \in Emitters : u # t => hands[u] = emitting[c][u]
  BY <1>1
<1>5. Watched(n + 1, hands, observed[c])
  BY <1>1, AppendWatched
<1> HIDE DEF log, n, hands
<1>6. /\ events' \in [Callers -> Seq(EventType)] /\ events'[c] = Append(log, type)
      /\ emitting' \in [Callers -> [Emitters -> Nat]] /\ emitting'[c] = hands
      /\ \A d \in Callers : d # c => /\ events'[d] = events[d]
                                     /\ emitting'[d] = emitting[d]
  BY <1>2, <1>3, <1>4 DEF Types
<1> QED
  BY <1>2, <1>4, <1>5, <1>6 DEF log

(* EmitNext and RuntimeEmits.                                              *)
LEMMA EmitSteps ==
  ASSUME EngineInv, NEW c \in Callers,
         EmitNext(c) \/ \E t \in Threads : RuntimeEmits(c, t)
  PROVE  EngineInv'
<1> DEFINE x == call[c]
<1>1. /\ UNCHANGED <<runs, byRequest, observed, executed>>
      /\ Types /\ x \in CallRecord /\ Watching(c) /\ events[c] \in Seq(EventType)
  BY DEF EmitNext, RuntimeEmits, EngineInv, Types
<1>2. Inside(c)
  BY AtWork DEF EmitNext, RuntimeEmits
<1>3. /\ Stage(x.pc, x.todo, runs[c], events[c])
      /\ x.run = c /\ x.key \in Keys /\ byRequest[x.key] = c
  BY <1>2 DEF Inside
<1>4. ASSUME NEW t \in Emitters, NEW type \in EventType, AppendEvent(c, t, type),
             call' \in [Callers -> CallRecord],
             \A d \in Callers : d # c => call'[d] = call[d],
             call'[c].run = x.run, call'[c].key = x.key, call'[c].pc = x.pc,
             Stage(x.pc, call'[c].todo, runs[c], Append(events[c], type)),
             t \in Threads => x.pc = "executing",
             x.pc \notin {"new", "returned"}
      PROVE  EngineInv'
  <2>1. /\ events' \in [Callers -> Seq(EventType)]
        /\ emitting' \in [Callers -> [Emitters -> Nat]]
        /\ events'[c] = Append(events[c], type)
        /\ \A u \in Emitters : u # t => emitting'[c][u] = emitting[c][u]
        /\ \A d \in Callers : d # c => /\ events'[d] = events[d]
                                       /\ emitting'[d] = emitting[d]
        /\ Watched(Len(events'[c]), emitting'[c], observed[c])
    BY <1>1, <1>4, AppendFacts DEF Watching
  <2>2. OnlyCall(c) /\ Types'
    BY <1>1, <1>4, <2>1 DEF OnlyCall, Types
  <2>3. Inside(c)'
    BY <1>1, <1>3, <1>4, <2>1 DEF Inside
  <2>4. Watching(c)'
    <3>1. \A u \in Threads : u \in Emitters
      BY DEF Emitters
    <3>2. x.pc # "executing" => \A u \in Threads : emitting'[c][u] = 0
      BY <1>1, <1>4, <2>1, <3>1 DEF Watching
    <3> QED
      BY <1>1, <1>4, <2>1, <3>2 DEF Watching
  <2> QED
    BY <1>1, <1>2, <1>4, <2>2, <2>3, <2>4, CallGoesOn
<1>5. CASE EmitNext(c)
  <2> DEFINE type == Head(x.todo).arg
             rest == Tail(x.todo)
  <2>1. /\ x.todo # <<>> /\ Head(x.todo).op = "emit"
        /\ AppendEvent(c, "main", type) /\ Continue(c, x.pc, rest)
    BY <1>5 DEF EmitNext
  <2>2. type \in EventType /\ Stage(x.pc, rest, runs[c], Append(events[c], type))
    BY <1>1, <1>3, <2>1, StageEmitted
  <2>3. /\ rest \in Seq(Operation) /\ x.pc \in PC \ {"new"}
        /\ "main" \in Emitters /\ "main" \notin Threads
    BY <2>2, StageTyped, EngineAssumption DEF Emitters
  <2>4. x.pc # "returned"
    BY <1>3, <2>1 DEF Stage
  <2> HIDE DEF type, rest
  <2>5. /\ call' \in [Callers -> CallRecord]
        /\ \A d \in Callers : d # c => call'[d] = call[d]
        /\ call'[c].run = x.run /\ call'[c].key = x.key
        /\ call'[c].pc = x.pc /\ call'[c].todo = rest
    BY <1>1, <2>1, <2>3, ContinueFacts
  <2> QED
    BY <1>4, <2>1, <2>2, <2>3, <2>4, <2>5
<1>6. ASSUME NEW t \in Threads, RuntimeEmits(c, t)
      PROVE  EngineInv'
  <2>1. /\ x.pc = "executing" /\ Len(events[c]) < 3 + MaxEmits
        /\ AppendEvent(c, t, "runtime.output") /\ call' = call
    BY <1>6 DEF RuntimeEmits
  <2>2. t \in Emitters /\ "runtime.output" \in EventType
    BY DEF Emitters, EventType
  <2>3. Stage("executing", x.todo, runs[c], Append(events[c], "runtime.output"))
    BY <1>1, <1>3, <2>1, StageOutput
  <2>4. call' \in [Callers -> CallRecord]
    BY <1>1, <2>1 DEF Types
  <2> QED
    BY <1>4, <2>1, <2>2, <2>3, <2>4
<1> QED
  BY <1>5, <1>6

(* emit calls the observer.                                                *)
LEMMA ObserveStep ==
  ASSUME EngineInv, NEW c \in Callers, NEW t \in Emitters, Observe(c, t)
  PROVE  EngineInv'
<1> DEFINE h == emitting[c][t]
           hands == [emitting[c] EXCEPT ![t] = 0]
           seen == Append(observed[c], h)
<1>1. /\ UNCHANGED <<call, runs, byRequest, events, executed>> /\ h # 0
      /\ Types /\ Watching(c) /\ emitting[c] \in [Emitters -> Nat] /\ h \in Nat
      /\ observed[c] \in Seq(Nat) /\ Len(events[c]) \in Nat
  BY DEF Observe, EngineInv, Types
<1>2. /\ observed' = [observed EXCEPT ![c] = seen]
      /\ emitting' = [emitting EXCEPT ![c] = hands]
  BY DEF Observe, EngineInv, Types
<1>3. /\ hands \in [Emitters -> Nat] /\ seen \in Seq(Nat)
      /\ \A u \in Emitters : hands[u] = 0 \/ hands[u] = emitting[c][u]
  BY <1>1
<1>4. Watched(Len(events[c]), hands, seen)
  BY <1>1, ObserveWatched DEF Watching
<1> HIDE DEF hands, seen
<1>5. /\ emitting' \in [Callers -> [Emitters -> Nat]] /\ emitting'[c] = hands
      /\ observed' \in [Callers -> Seq(Nat)] /\ observed'[c] = seen
      /\ \A d \in Callers : d # c => /\ emitting'[d] = emitting[d]
                                     /\ observed'[d] = observed[d]
  BY <1>1, <1>2, <1>3 DEF Types
<1>6. Types'
  BY <1>1, <1>5 DEF Types
<1>7. Watching(c)'
  <2>1. \A u \in Threads \union {"main"} : u \in Emitters
    BY DEF Emitters
  <2> QED
    BY <1>1, <1>3, <1>4, <1>5, <2>1 DEF Watching
<1>8. \A d \in Callers : Watching(d)'
  <2>1. ASSUME NEW d \in Callers, d # c PROVE Watching(d)'
    <3>1. Watching(d)
      BY DEF EngineInv
    <3> QED
      BY <1>1, <1>5, <2>1, <3>1 DEF Watching
  <2> QED
    BY <1>7, <2>1
<1>9. \A d : (Outside(d) <=> Outside(d)') /\ (Inside(d) <=> Inside(d)')
  BY <1>1 DEF Outside, Inside
<1>10. Executions'
  BY <1>1, <1>9 DEF EngineInv, Executions, Inside
<1> QED
  BY <1>6, <1>8, <1>9, <1>10 DEF EngineInv

(* The executor is called: nobody called it for this key before.           *)
LEMMA ExecutorStep ==
  ASSUME EngineInv, NEW c \in Callers, ExecutorBegins(c)
  PROVE  EngineInv'
<1> DEFINE x == call[c]
           k == x.key
<1>1. /\ UNCHANGED <<runs, byRequest, events, emitting, observed>>
      /\ Types /\ x \in CallRecord /\ Watching(c)
      /\ x.pc = "execute" /\ x.todo = <<>> /\ emitting[c]["main"] = 0
      /\ Continue(c, "executing", <<>>)
      /\ executed' = [executed EXCEPT ![k] = @ + 1]
  BY DEF ExecutorBegins, Ready, EngineInv, Types
<1>2. /\ Inside(c) /\ k \in Keys /\ byRequest[k] = c
      /\ Stage(x.pc, x.todo, runs[c], events[c])
  BY <1>1, AtWork DEF Inside
<1>3. /\ call' \in [Callers -> CallRecord]
      /\ \A d \in Callers : d # c => call'[d] = call[d]
      /\ call'[c].run = x.run /\ call'[c].key = k
      /\ call'[c].pc = "executing" /\ call'[c].todo = <<>>
  <2>1. "executing" \in PC /\ <<>> \in Seq(Operation)
    BY DEF PC
  <2> QED
    BY <1>1, <2>1, ContinueFacts
<1>4. Stage("executing", <<>>, runs[c], events[c])
  <2>1. runs[c] = "running" /\ NotOver(events[c]) /\ Len(events[c]) = 3
    BY <1>1, <1>2 DEF Stage
  <2> QED
    BY <2>1, EngineAssumption DEF Stage
<1>5. executed[k] = 0 /\ executed \in [Keys -> Nat]
  BY <1>1 DEF EngineInv, Executions, Types
<1> HIDE DEF k, x
<1>6. /\ executed' \in [Keys -> Nat] /\ executed'[k] = 1
      /\ \A j \in Keys : j # k => executed'[j] = executed[j]
  BY <1>1, <1>2, <1>5
<1>7. Types' /\ OnlyCall(c)
  BY <1>1, <1>3, <1>6 DEF Types, OnlyCall
<1>8. Inside(c)' /\ Watching(c)'
  BY <1>1, <1>2, <1>3, <1>4 DEF Inside, Watching, x, k
<1>9. ASSUME NEW d \in Callers, d # c
      PROVE  /\ (Outside(d) \/ Inside(d))' /\ Watching(d)'
             /\ Inside(d) => Inside(d)'
             /\ call'[d] = call[d]
  BY <1>1, <1>7, <1>9, OthersStand
<1>10. ASSUME NEW j \in Keys
       PROVE  /\ executed'[j] <= 1
              /\ byRequest'[j] = Absent => executed'[j] = 0
              /\ byRequest'[j] # Absent => Inside(byRequest[j])'
                                           /\ call'[byRequest'[j]].key = j
  <2>1. /\ executed[j] <= 1
        /\ byRequest[j] = Absent => executed[j] = 0
        /\ byRequest[j] # Absent => /\ Inside(byRequest[j])
                                    /\ call[byRequest[j]].key = j
    BY DEF EngineInv, Executions
  <2>2. byRequest[j] # Absent => byRequest[j] \in Callers
    BY DEF EngineInv, Types
  <2>3. \A d \in Callers : Inside(d) => Inside(d)' /\ call'[d].key = call[d].key
    BY <1>3, <1>8, <1>9 DEF k, x
  <2>4. byRequest[j] # Absent =>
          \A d \in Callers : d = byRequest[j] => Inside(d)' /\ call'[d].key = j
    BY <2>1, <2>3
  <2>5. \A d : d = byRequest'[j] => (Inside(d)' <=> Inside(byRequest[j])')
    BY DEF Inside
  <2>6. byRequest[k] # Absent
    BY <1>2, EngineAssumption DEF Absent
  <2> QED
    BY <1>1, <1>6, <2>1, <2>2, <2>4, <2>5, <2>6
<1>11. ASSUME NEW d \in Callers, call'[d].pc \in {"compile", "execute"}
       PROVE  executed'[call'[d].key] = 0
  <2>1. d # c /\ call'[d] = call[d]
    BY <1>3, <1>9, <1>11
  <2>2. Inside(d)
    BY <1>11, <2>1, AtWork
  <2>3. /\ executed[call[d].key] = 0 /\ call[d].key \in Keys
        /\ byRequest[call[d].key] = d
    BY <1>11, <2>1, <2>2 DEF EngineInv, Executions, Inside
  <2> QED
    BY <1>2, <1>6, <2>1, <2>3
<1>12. \A d \in Callers : (Outside(d) \/ Inside(d))' /\ Watching(d)'
  BY <1>8, <1>9
<1> QED
  BY <1>7, <1>10, <1>11, <1>12 DEF EngineInv, Executions

(* store.Create: a call takes the key, or is given the Run of another.     *)
LEMMA CreateStep ==
  ASSUME EngineInv, NEW c \in Callers, NEW k \in Keys, Create(c, k)
  PROVE  EngineInv'
<1> DEFINE x == call[c]
<1>1. /\ UNCHANGED <<events, emitting, observed, executed>>
      /\ Types /\ x \in CallRecord /\ Watching(c) /\ x.pc = "new"
      /\ c # Absent
  BY EngineAssumption DEF Create, EngineInv, Types, Absent
<1>2. Outside(c)
  <2>1. ~Inside(c)
    BY <1>1, StageTyped DEF Inside
  <2> QED
    BY <2>1 DEF EngineInv
<1>3. /\ x.todo = <<>> /\ runs[c] = Absent /\ events[c] = <<>>
      /\ \A t \in Threads : emitting[c][t] = 0
      /\ emitting[c]["main"] = 0
  BY <1>1, <1>2 DEF Outside, Watching
<1>4. \A j \in Keys : byRequest[j] # c
  BY <1>1, StageTyped DEF EngineInv, Executions, Inside
<1>5. ASSUME Types', OnlyCall(c), (Outside(c) \/ Inside(c))', Watching(c)',
             \A j \in Keys : byRequest[j] # Absent => byRequest'[j] = byRequest[j],
             \A j \in Keys : byRequest'[j] # byRequest[j] =>
               byRequest'[j] = c /\ Inside(c)' /\ call'[c].key = j,
             call'[c].pc \in {"compile", "execute"} => executed[call'[c].key] = 0
      PROVE  EngineInv'
  <2>1. ASSUME NEW d \in Callers, d # c
        PROVE  /\ (Outside(d) \/ Inside(d))' /\ Watching(d)'
               /\ Inside(d) => Inside(d)'
               /\ call'[d] = call[d]
    BY <1>5, <2>1, OthersStand
  <2>2. \A d \in Callers : (Outside(d) \/ Inside(d))' /\ Watching(d)'
    BY <1>5, <2>1
  <2>3. ASSUME NEW j \in Keys
        PROVE  /\ executed'[j] <= 1
               /\ byRequest'[j] = Absent => executed'[j] = 0
               /\ byRequest'[j] # Absent => Inside(byRequest[j])'
                                            /\ call'[byRequest'[j]].key = j
    <3>1. /\ executed[j] <= 1
          /\ byRequest[j] = Absent => executed[j] = 0
          /\ byRequest[j] # Absent => /\ Inside(byRequest[j])
                                      /\ call[byRequest[j]].key = j
      BY DEF EngineInv, Executions
    <3>2. byRequest[j] # Absent => byRequest[j] \in Callers /\ byRequest[j] # c
      BY <1>4 DEF EngineInv, Types
    <3>3. \A d : d = byRequest'[j] => (Inside(d)' <=> Inside(byRequest[j])')
      BY DEF Inside
    <3>4. CASE byRequest'[j] = byRequest[j]
      <4>1. byRequest[j] # Absent =>
              \A d \in Callers : d = byRequest[j] => Inside(d)' /\ call'[d].key = j
        BY <2>1, <3>1, <3>2
      <4> QED
        BY <1>1, <3>1, <3>2, <3>3, <3>4, <4>1
    <3>5. CASE byRequest'[j] # byRequest[j]
      <4>1. byRequest'[j] = c /\ Inside(c)' /\ call'[c].key = j
        BY <1>5, <3>5
      <4> QED
        BY <1>1, <3>1, <3>3, <4>1
    <3> QED
      BY <3>4, <3>5
  <2>4. ASSUME NEW d \in Callers, call'[d].pc \in {"compile", "execute"}
        PROVE  executed'[call'[d].key] = 0
    BY <1>1, <1>5, <2>1, <2>4 DEF EngineInv, Executions
  <2> QED
    BY <1>5, <2>2, <2>3, <2>4 DEF EngineInv, Executions
<1>6. CASE Taken(k)
  <2> DEFINE r == byRequest[k]
  <2>1. /\ call' = [call EXCEPT ![c].pc = "returned", ![c].key = k,
                                ![c].run = r, ![c].reply = runs[r]]
        /\ UNCHANGED <<runs, byRequest>> /\ r # Absent
    BY <1>6 DEF Create, Taken
  <2>2. r \in Callers /\ r # c /\ runs[r] \in Status
    BY <1>1, <1>4, <2>1 DEF Types
  <2> HIDE DEF r
  <2>3. /\ call' \in [Callers -> CallRecord]
        /\ \A d \in Callers : d # c => call'[d] = call[d]
        /\ call'[c].run = r /\ call'[c].pc = "returned" /\ call'[c].todo = x.todo
    BY <1>1, <2>1, <2>2 DEF Types, CallRecord, PC
  <2>4. Types' /\ OnlyCall(c)
    BY <1>1, <2>1, <2>3 DEF Types, OnlyCall
  <2>5. Outside(c)' /\ Watching(c)'
    BY <1>1, <1>3, <2>1, <2>2, <2>3 DEF Outside, Watching
  <2> QED
    BY <1>5, <2>1, <2>3, <2>4, <2>5
<1>7. CASE ~Taken(k)
  <2> DEFINE todo == <<Emit("run.created")>>
  <2>1. /\ call' = [call EXCEPT ![c].pc = "compile", ![c].key = k,
                                ![c].run = c, ![c].todo = todo]
        /\ runs' = [runs EXCEPT ![c] = "queued"]
        /\ byRequest' = [byRequest EXCEPT ![k] = c]
        /\ byRequest[k] = Absent
    BY <1>7 DEF Create, Taken
  <2>2. Stage("compile", todo, "queued", events[c])
    <3>1. Silent(<<>>) /\ Len(<<>>) = 0
      BY DEF Silent, NotOver, Contains
    <3> QED
      BY <1>3, <3>1 DEF Stage
  <2>3. todo \in Seq(Operation)
    BY <2>2, StageTyped
  <2> HIDE DEF todo
  <2>4. /\ call' \in [Callers -> CallRecord]
        /\ \A d \in Callers : d # c => call'[d] = call[d]
        /\ call'[c].run = c /\ call'[c].key = k
        /\ call'[c].pc = "compile" /\ call'[c].todo = todo
    BY <1>1, <2>1, <2>3 DEF Types, CallRecord, PC
  <2>5. /\ runs' \in [Callers -> Status] /\ runs'[c] = "queued"
        /\ \A d \in Callers : d # c => runs'[d] = runs[d]
    BY <1>1, <2>1 DEF Types, Status
  <2>6. /\ byRequest' \in [Keys -> Callers \union {Absent}] /\ byRequest'[k] = c
        /\ \A j \in Keys : j # k => byRequest'[j] = byRequest[j]
    BY <1>1, <2>1 DEF Types
  <2>7. Types' /\ OnlyCall(c)
    BY <1>1, <2>4, <2>5, <2>6 DEF Types, OnlyCall
  <2>8. Inside(c)' /\ Watching(c)'
    BY <1>1, <1>3, <2>2, <2>4, <2>5, <2>6 DEF Inside, Watching
  <2>9. executed[k] = 0
    BY <2>1 DEF EngineInv, Executions
  <2> QED
    BY <1>5, <2>1, <2>4, <2>6, <2>7, <2>8, <2>9
<1> QED
  BY <1>6, <1>7

(* EngineInv holds in every reachable state.                               *)
LEMMA AlwaysEngineInv == Spec => []EngineInv
<1>1. Init => EngineInv
  <2> SUFFICES ASSUME Init PROVE EngineInv
    OBVIOUS
  <2>1. Types
    <3>1. call \in [Callers -> CallRecord]
      <4>1. <<>> \in Seq(Operation)
        OBVIOUS
      <4> QED
        BY <4>1 DEF Init, CallRecord, PC, Status
    <3>2. /\ events \in [Callers -> Seq(EventType)]
          /\ observed \in [Callers -> Seq(Nat)]
      BY DEF Init
    <3> QED
      BY <3>1, <3>2 DEF Init, Types, Status
  <2>2. \A c \in Callers : Outside(c)
    BY DEF Init, Outside
  <2>3. \A c \in Callers : Watching(c)
    <3>1. "main" \in Emitters /\ \A t \in Threads : t \in Emitters
      BY DEF Emitters
    <3> QED
      BY <3>1 DEF Init, Watching, Watched
  <2>4. Executions
    BY DEF Init, Executions
  <2> QED
    BY <2>1, <2>2, <2>3, <2>4 DEF EngineInv
<1>2. EngineInv /\ [Next]_vars => EngineInv'
  <2> SUFFICES ASSUME EngineInv, [Next]_vars PROVE EngineInv'
    OBVIOUS
  <2>1. UNCHANGED vars => EngineInv'
    BY DEF vars, EngineInv, Types, Outside, Inside, Watching, Executions
  <2> QED
    BY <2>1, PhaseSteps, EmitSteps, ObserveStep, ExecutorStep, CreateStep
       DEF Next, Step
<1> QED
  BY <1>1, <1>2, PTL DEF Spec

-----------------------------------------------------------------------------
(* What the invariant implies.                                             *)

(* The log of a Run tells of nothing its stored status does not show.      *)
LEMMA StageFollowed ==
  ASSUME NEW pc, NEW todo, NEW status, NEW log \in Seq(EventType),
         Stage(pc, todo, status, log)
  PROVE  /\ Tells(log, status)
         /\ Contains(log, "run.started") => status # "queued"
         /\ Len(log) <= 5 + MaxEmits
         /\ pc = "returned" => status \in Terminal
<1>1. NotOver(log) => Tells(log, status)
  BY DEF NotOver, Tells
<1>2. Silent(log) => Tells(log, status) /\ ~Contains(log, "run.started")
  BY DEF Silent, NotOver, Tells
<1>3. "queued" \notin Terminal /\ "running" # "queued"
  BY DEF Terminal
<1>4. MaxEmits \in Nat /\ Len(log) \in Nat
  BY EngineAssumption
<1> HIDE DEF NotOver, Silent, Tells, Contains, Terminal
<1>5. Tells(log, status) /\ (pc = "returned" => status \in Terminal)
  BY <1>1, <1>2 DEF Stage
<1>6. status # "queued" \/ Silent(log)
  BY <1>3 DEF Stage
<1>7. Len(log) <= 5 + MaxEmits
  <2> DEFINE n == Len(log)
  <2>1. \/ n = 0 \/ n = 1 \/ n = 2 \/ n = 3
        \/ n <= 3 + MaxEmits \/ n <= 4 + MaxEmits \/ n <= 5 + MaxEmits
    BY DEF Stage
  <2> HIDE DEF n
  <2>2. n \in Nat /\ MaxEmits \in Nat
    BY <1>4 DEF n
  <2>3. n <= 5 + MaxEmits
    BY <2>1, <2>2
  <2> QED
    BY <2>3 DEF n
<1> QED
  BY <1>2, <1>5, <1>6, <1>7

(* Concurrent calls of Execute on one engine: the executor of a key is     *)
(* called at most once, store.Update always comes before the event that    *)
(* tells of it, and emit has given the observer every event of the Run,    *)
(* each once, when Execute returns.                                        *)
THEOREM EngineAlwaysSound == Spec => []EngineSound
<1>1. EngineInv => EngineSound
  <2> SUFFICES ASSUME EngineInv PROVE EngineSound
    OBVIOUS
  <2>1. ASSUME NEW c \in Callers
        PROVE  /\ Tells(events[c], runs[c])
               /\ Contains(events[c], "run.started") => runs[c] # "queued"
               /\ Len(events[c]) <= 5 + MaxEmits
    <3>1. CASE Inside(c)
      BY <3>1, StageFollowed DEF Inside, EngineInv, Types
    <3>2. CASE Outside(c)
      <4>1. /\ events[c] = <<>> /\ Len(events[c]) = 0
            /\ \A u : ~Contains(events[c], u)
        BY <3>2 DEF Outside, Contains
      <4> QED
        BY <4>1, EngineAssumption DEF Tells
    <3> QED
      BY <3>1, <3>2 DEF EngineInv
  <2>2. TypeOK
    <3>1. ASSUME NEW c \in Callers
          PROVE  \A t \in Emitters : emitting[c][t] \in 0 .. Len(events[c])
      BY DEF EngineInv, Watching, Watched
    <3>2. ASSUME NEW c \in Callers
          PROVE  call[c].pc \in PC /\ runs[c] \in Status
      BY DEF EngineInv, Types, CallRecord
    <3>3. \A k \in Keys : byRequest[k] \in Callers \union {Absent}
      BY DEF EngineInv, Types
    <3> QED
      BY <2>1, <3>1, <3>2, <3>3 DEF TypeOK, PC, Status
  <2>3. ExecutedOnce
    BY DEF EngineInv, Executions, ExecutedOnce
  <2>4. LogFollowsStatus
    BY <2>1 DEF LogFollowsStatus, Tells
  <2>5. ObservedCompletely
    <3> SUFFICES ASSUME NEW c \in Callers, call[c].pc = "returned"
                 PROVE  /\ Len(observed[c]) = Len(events[c])
                        /\ ToSet(observed[c]) = 1 .. Len(events[c])
      BY DEF ObservedCompletely
    <3>1. /\ emitting[c] \in [Emitters -> Nat] /\ observed[c] \in Seq(Nat)
          /\ Len(events[c]) \in Nat /\ Watching(c)
      BY DEF EngineInv, Types
    <3>2. \A t \in Emitters : emitting[c][t] = 0
      BY <3>1 DEF Watching, Emitters
    <3> QED
      BY <3>1, <3>2, AllObserved DEF Watching
  <2> QED
    BY <2>2, <2>3, <2>4, <2>5 DEF EngineSound
<1> QED
  BY <1>1, AlwaysEngineInv, PTL

(* Whoever calls Execute gets a Run that has ended, or one that another    *)
(* call is still executing: returning the existing Run of a key, as Create *)
(* does, hands nobody a Run that was given up.                             *)
THEOREM ReturnsTerminalOrInProgress == Spec => TerminalOrInProgress
<1> DEFINE Ends(c) == call[c].pc # "returned" /\ call'[c].pc = "returned"
           Good(c) == LET r == call'[c].run IN
                      call'[c].reply \in Terminal \/ call[r].pc # "returned"
<1>1. ASSUME EngineInv, [Next]_vars, NEW c \in Callers, Ends(c)
      PROVE  Good(c)
  <2>1. PICK d \in Callers : Step(d) \/ \E k \in Keys : Create(d, k)
    BY <1>1 DEF Next, vars
  <2>2. Types /\ call[c] \in CallRecord /\ call[d] \in CallRecord
    BY <1>1 DEF EngineInv, Types
  <2>3. ASSUME NEW pc, NEW todo, Continue(d, pc, todo),
               pc = call[d].pc \/ pc \in {"execute", "executing", "returning"}
        PROVE  FALSE
    BY <1>1, <2>2, <2>3 DEF Continue, Types, CallRecord
  <2>4. CASE Return(d)
    <3>1. /\ call[d].pc = "returning" /\ c = d
          /\ call'[c].reply = runs[d] /\ call[d].todo = <<>>
      BY <1>1, <2>2, <2>4 DEF Return, Ready, Types, CallRecord
    <3>2. Stage("returning", <<>>, runs[d], events[d])
      BY <1>1, <3>1, AtWork DEF Inside
    <3>3. runs[d] \in Terminal
      BY <3>2 DEF Stage
    <3> QED
      BY <3>1, <3>3
  <2>5. ASSUME NEW k \in Keys, Create(d, k) PROVE Good(c)
    <3>1. CASE ~Taken(k)
      <4>1. /\ call' = [call EXCEPT ![d].pc = "compile", ![d].key = k,
                                    ![d].run = d,
                                    ![d].todo = <<Emit("run.created")>>]
        BY <2>5, <3>1 DEF Create
      <4>2. call'[d].pc = "compile" /\ (c # d => call'[c] = call[c])
        <5> DEFINE todo == <<Emit("run.created")>>
        <5>1. call' = [call EXCEPT ![d].pc = "compile", ![d].key = k,
                                   ![d].run = d, ![d].todo = todo]
          BY <4>1
        <5> HIDE DEF todo
        <5> QED
          BY <2>2, <5>1 DEF Types, CallRecord
      <4> QED
        BY <1>1, <4>2
    <3>2. CASE Taken(k)
      <4>1. /\ c = d /\ call'[c].run = byRequest[k]
            /\ call'[c].reply = runs[byRequest[k]]
        BY <1>1, <2>2, <2>5, <3>2 DEF Create, Types, CallRecord
      <4>2. Inside(byRequest[k])
        BY <1>1, <3>2 DEF EngineInv, Executions, Taken
      <4>3. call[byRequest[k]].pc = "returned" => runs[byRequest[k]] \in Terminal
        <5>1. byRequest[k] \in Callers
          BY <2>2, <3>2 DEF Types, Taken
        <5> QED
          BY <2>2, <4>2, <5>1, StageFollowed DEF Inside, Types
      <4> QED
        BY <4>1, <4>3
    <3> QED
      BY <3>1, <3>2
  <2>6. ~(Compile(d) \/ ExecutorBegins(d) \/ ExecutorReturns(d) \/ Update(d)
            \/ EmitNext(d))
    BY <2>3 DEF Compile, ExecutorBegins, ExecutorReturns, Update, EmitNext
  <2>7. ~(\E t \in Threads : RuntimeEmits(d, t)) /\ ~(\E t \in Emitters : Observe(d, t))
    BY <1>1 DEF RuntimeEmits, Observe
  <2> QED
    BY <2>1, <2>4, <2>5, <2>6, <2>7 DEF Step
<1>2. EngineInv /\ [Next]_vars =>
        [\A c \in Callers : call[c].pc # "returned" /\ call'[c].pc = "returned" =>
           LET r == call'[c].run IN
           \/ call'[c].reply \in Terminal
           \/ call[r].pc # "returned"]_vars
  BY <1>1
<1> QED
  BY <1>2, AlwaysEngineInv, PTL DEF Spec, TerminalOrInProgress
=============================================================================
