--------------------------- MODULE RunRecordsProofs ---------------------------
(***************************************************************************)
(* What both stores need to know about the record of a Run: a change of    *)
(* the statuses, the lease or the log that is made consistently keeps the  *)
(* record good (Good) and its log faithful (LogGood).                      *)
(***************************************************************************)
EXTENDS RunRecords, SequenceTheorems, FiniteSetTheorems, TLAPS

(* The inductive invariant of one row.                                     *)
Good(x) == x \in Run /\ Coherent(x) /\ Fenced(x)

Present(x) == x.status # "absent"

-----------------------------------------------------------------------------
(* All Attempts but the current one are lost.                              *)
Numbered(x) ==
  /\ x \in Run
  /\ Number(x) \in 1 .. MaxAttempts
  /\ \A i \in 1 .. Number(x) - 1 : x.attempts[i] = "lost"

(* Writing the status of the current Attempt keeps the list of Attempts a   *)
(* list with the earlier ones untouched.                                   *)
LEMMA SetCurrentAttempt ==
  ASSUME NEW x, Numbered(x), NEW status \in AttemptStatuses
  PROVE  /\ Number(x) \in 1 .. MaxAttempts
         /\ AttemptStatus(x) \in AttemptStatuses
         /\ SetAttempt(x, status) \in Seq(AttemptStatuses)
         /\ Len(SetAttempt(x, status)) = Number(x)
         /\ SetAttempt(x, status)[Number(x)] = status
         /\ \A i \in 1 .. Number(x) - 1 : SetAttempt(x, status)[i] = "lost"
<1>1. Number(x) \in 1 .. MaxAttempts
  BY DEF Numbered
<1>2. x.attempts \in Seq(AttemptStatuses) /\ Number(x) = Len(x.attempts)
  BY DEF Numbered, Run, Number
<1>3. Number(x) \in 1 .. Len(x.attempts) /\ Number(x) \in Nat
  BY <1>1, <1>2, ConstantsAssumption
<1>4. \A i \in 1 .. Number(x) - 1 : x.attempts[i] = "lost"
  BY DEF Numbered
<1>5. AttemptStatus(x) \in AttemptStatuses
  BY <1>2, <1>3, ElementOfSeq DEF AttemptStatus
<1>6. /\ SetAttempt(x, status) \in Seq(AttemptStatuses)
      /\ Len(SetAttempt(x, status)) = Len(x.attempts)
      /\ \A j \in 1 .. Len(x.attempts) :
           SetAttempt(x, status)[j] = IF j = Number(x) THEN status
                                                       ELSE x.attempts[j]
  BY <1>2, <1>3, ExceptSeq DEF SetAttempt
<1> QED
  BY <1>1, <1>2, <1>3, <1>4, <1>5, <1>6

(* In particular the record of a Run whose statuses agree.                 *)
LEMMA SetAttemptFacts ==
  ASSUME NEW x, Good(x), Present(x), NEW status \in AttemptStatuses
  PROVE  /\ Number(x) \in 1 .. MaxAttempts
         /\ AttemptStatus(x) \in AttemptStatuses
         /\ SetAttempt(x, status) \in Seq(AttemptStatuses)
         /\ Len(SetAttempt(x, status)) = Number(x)
         /\ SetAttempt(x, status)[Number(x)] = status
         /\ \A i \in 1 .. Number(x) - 1 : SetAttempt(x, status)[i] = "lost"
<1>1. Numbered(x)
  BY DEF Numbered, Good, Coherent, Present
<1> QED
  BY <1>1, SetCurrentAttempt

(* Events appended by a transaction keep the log a log.                    *)
LEMMA AppendEventFacts ==
  ASSUME NEW x, x \in Run, NEW first \in EventTypes, NEW second \in EventTypes
  PROVE  /\ appendEvent(x, first) \in Seq([type : EventTypes, attempt : Nat])
         /\ appendEvents(x, first, second)
              \in Seq([type : EventTypes, attempt : Nat])
         /\ Append(appendEvent(x, first), Event(second, Number(x) + 1))
              \in Seq([type : EventTypes, attempt : Nat])
<1>1. x.log \in Seq([type : EventTypes, attempt : Nat]) /\ Number(x) \in Nat
  BY DEF Run, Number
<1>2. /\ Event(first, Number(x)) \in [type : EventTypes, attempt : Nat]
      /\ Event(second, Number(x)) \in [type : EventTypes, attempt : Nat]
      /\ Event(second, Number(x) + 1) \in [type : EventTypes, attempt : Nat]
  BY <1>1 DEF Event
<1> QED
  BY <1>1, <1>2 DEF appendEvent, appendEvents

-----------------------------------------------------------------------------
(* A transaction that writes the statuses of a Run and of its current      *)
(* Attempt keeps the row good when the two statuses agree, the flags agree *)
(* with them and the lease is left alone.                                  *)
LEMMA StatusChange ==
  ASSUME NEW x, Good(x), Present(x),
         NEW y \in Run, y.status \in RunStatuses,
         NEW a \in CurrentAttemptOf[y.status], a \in AttemptStatuses,
         y.attempts = SetAttempt(x, a),
         y.cancelRequested <=> y.status \in {"cancelling", "cancelled"},
         y.outcome # NoValue <=> y.status \in {"succeeded", "failed"},
         y.token = x.token, y.grants = x.grants, y.ttl = x.ttl,
         a \in {"leased", "running"} => x.token > 0
  PROVE  Good(y)
<1>1. /\ Number(x) \in 1 .. MaxAttempts
      /\ Len(SetAttempt(x, a)) = Number(x)
      /\ SetAttempt(x, a)[Number(x)] = a
      /\ \A i \in 1 .. Number(x) - 1 : SetAttempt(x, a)[i] = "lost"
  BY SetAttemptFacts
<1>2. Number(y) = Number(x) /\ AttemptStatus(y) = a
  BY <1>1 DEF Number, AttemptStatus
<1>3. y.status # "absent"
  BY DEF RunStatuses
<1>4. Coherent(y)
  BY <1>1, <1>2, <1>3 DEF Coherent
<1>5. Fenced(y)
  BY <1>2 DEF Fenced, Good
<1> QED
  BY <1>4, <1>5 DEF Good

(* A Run that was never submitted is a good row.                           *)
LEMMA AbsentGood == Good(AbsentRun)
<1>1. AbsentRun \in Run
  BY DEF AbsentRun, Run
<1>2. Coherent(AbsentRun)
  BY DEF AbsentRun, Coherent
<1>3. Fenced(AbsentRun)
  BY DEF AbsentRun, Fenced
<1> QED
  BY <1>1, <1>2, <1>3 DEF Good

(* Submit writes a good row: one queued Attempt, no lease, two events.     *)
LEMMA SubmittedGood ==
  ASSUME NEW d \in {"none", "ahead"}
  PROVE  Good(Submitted(d))
<1> DEFINE as  == <<"queued">>
           log == <<Event("run.created", 1), Event("attempt.queued", 1)>>
           x   == Submitted(d)
<1>1. as \in Seq(AttemptStatuses) /\ Len(as) = 1 /\ as[1] = "queued"
  BY DEF AttemptStatuses
<1>2. log \in Seq([type : EventTypes, attempt : Nat])
  BY DEF Event, EventTypes, RunStatusOf
<1>3. x = [status |-> "queued", cancelRequested |-> FALSE, deadline |-> d,
           outcome |-> NoValue, attempts |-> as, available |-> TRUE,
           node |-> NoValue, token |-> 0, ttl |-> 0, grants |-> <<>>,
           log |-> log]
  BY Zenon DEF Submitted
<1> HIDE DEF as, log, x
<1>4. x \in Run
  <2> DEFINE Log == Seq([type : EventTypes, attempt : Nat])
  <2>1. /\ as \in Seq(AttemptStatuses) /\ log \in Log
    BY <1>1, <1>2
  <2>2. d \in {"none", "ahead", "passed"}
    OBVIOUS
  <2>3. <<>> \in Seq(Nat)
    OBVIOUS
  <2>4. Run = [status          : RunStatuses \union {"absent"},
               cancelRequested : BOOLEAN,
               deadline        : {"none", "ahead", "passed"},
               outcome         : Outcomes \union {NoValue},
               attempts        : Seq(AttemptStatuses),
               available       : BOOLEAN,
               node            : Nodes \union {NoValue},
               token           : Nat,
               ttl             : Nat,
               grants          : Seq(Nat),
               log             : Log]
    BY DEF Run
  <2> HIDE DEF Log
  <2> QED
    BY <1>3, <2>1, <2>2, <2>3, <2>4 DEF RunStatuses
<1>5. /\ x.status = "queued" /\ ~x.cancelRequested /\ x.outcome = NoValue
      /\ x.token = 0 /\ x.ttl = 0 /\ x.attempts = as
  BY <1>3
<1>6. Number(x) = 1 /\ AttemptStatus(x) = "queued"
  BY <1>1, <1>5 DEF Number, AttemptStatus
<1>7. Coherent(x)
  BY <1>5, <1>6, ConstantsAssumption DEF Coherent, CurrentAttemptOf, RunStatuses
<1>8. Fenced(x)
  BY <1>5, <1>6 DEF Fenced
<1> QED
  BY <1>4, <1>7, <1>8 DEF Good, x

-----------------------------------------------------------------------------
(* The log of a Run.  Faithful(l, status, n, begun) is what a log of n      *)
(* Attempts satisfies that leaves the Run in the given status; begun says  *)
(* whether the current Attempt may have been started.                      *)

LogEvent == [type : EventTypes, attempt : Nat]

Announcing == DOMAIN RunStatusOf

LastAnnounced(l, status) ==
  \E i \in DOMAIN l :
    /\ l[i].type \in Announcing
    /\ RunStatusOf[l[i].type] = status
    /\ \A j \in DOMAIN l : j > i => l[j].type \notin Announcing

Ends(l, status) ==
  \A i \in DOMAIN l :
    l[i].type \in TerminalEvents => i = Len(l) /\ terminalRunStatus(status)

QueuedOnce(l, m) ==
  \E i \in DOMAIN l : \A j \in DOMAIN l : l[j] = Event("attempt.queued", m) <=> j = i

OnceStarted(l) ==
  \A i, j \in DOMAIN l :
    l[i].type = "attempt.started" /\ l[i] = l[j] => i = j

Faithful(l, status, n, begun) ==
  /\ l \in Seq(LogEvent)
  /\ \A i \in DOMAIN l : l[i].attempt <= n
  /\ LastAnnounced(l, status)
  /\ Ends(l, status)
  /\ \A m \in 1 .. n : QueuedOnce(l, m)
  /\ OnceStarted(l)
  /\ ~begun => \A i \in DOMAIN l : l[i] # Event("attempt.started", n)

Begun(x) == AttemptStatus(x) \notin {"queued", "leased"}

LogGood(x) == Present(x) => Faithful(x.log, x.status, Number(x), Begun(x))

(* The same events as events of the Run, one after another.                *)
LEMMA AppendFacts ==
  ASSUME NEW l \in Seq(LogEvent), NEW e \in LogEvent
  PROVE  /\ Append(l, e) \in Seq(LogEvent)
         /\ Len(l) \in Nat
         /\ DOMAIN l = 1 .. Len(l)
         /\ DOMAIN Append(l, e) = 1 .. Len(l) + 1
         /\ Len(Append(l, e)) = Len(l) + 1
         /\ \A i \in 1 .. Len(l) : Append(l, e)[i] = l[i]
         /\ Append(l, e)[Len(l) + 1] = e
BY AppendProperties

(* An event that says nothing about the status of the Run, of its current   *)
(* Attempt, leaves the log faithful unless the Run has ended.              *)
LEMMA NeutralEvent ==
  ASSUME NEW l, NEW status, NEW n \in Nat, NEW begun \in BOOLEAN,
         Faithful(l, status, n, begun), ~terminalRunStatus(status),
         NEW type \in EventTypes \ (Announcing \union {"attempt.started"})
  PROVE  Faithful(Append(l, Event(type, n)), status, n, begun)
<1> DEFINE e == Event(type, n)
           m == Append(l, e)
<1>1. e \in LogEvent /\ e.type = type /\ e.attempt = n
  BY DEF LogEvent, Event
<1>2. l \in Seq(LogEvent)
  BY DEF Faithful
<1> HIDE DEF e
<1>3. /\ m \in Seq(LogEvent)
      /\ Len(l) \in Nat
      /\ DOMAIN l = 1 .. Len(l)
      /\ DOMAIN m = 1 .. Len(l) + 1
      /\ Len(m) = Len(l) + 1
      /\ \A i \in 1 .. Len(l) : m[i] = l[i]
      /\ m[Len(l) + 1] = e
  BY <1>1, <1>2, AppendFacts
<1> HIDE DEF m
<1>4. /\ type \notin TerminalEvents /\ type \notin Announcing
      /\ type # "attempt.queued" /\ type # "attempt.started"
  BY DEF TerminalEvents, Announcing, RunStatusOf
<1>5. \A i \in DOMAIN m : m[i].attempt <= n
  BY <1>1, <1>3 DEF Faithful
<1>6. LastAnnounced(m, status)
  <2>1. PICK i \in DOMAIN l :
          /\ l[i].type \in Announcing
          /\ RunStatusOf[l[i].type] = status
          /\ \A j \in DOMAIN l : j > i => l[j].type \notin Announcing
    BY DEF Faithful, LastAnnounced
  <2>2. \A j \in DOMAIN m : j > i => m[j].type \notin Announcing
    BY <1>1, <1>3, <1>4, <2>1
  <2> QED
    BY <1>3, <2>1, <2>2 DEF LastAnnounced
<1>7. Ends(m, status)
  BY <1>1, <1>3, <1>4 DEF Faithful, Ends
<1>8. ASSUME NEW k \in 1 .. n PROVE QueuedOnce(m, k)
  <2>1. PICK i \in DOMAIN l :
          \A j \in DOMAIN l : l[j] = Event("attempt.queued", k) <=> j = i
    BY DEF Faithful, QueuedOnce
  <2>2. e # Event("attempt.queued", k)
    BY <1>1, <1>4 DEF Event
  <2>3. \A j \in DOMAIN m : m[j] = Event("attempt.queued", k) <=> j = i
    BY <1>3, <2>1, <2>2
  <2> QED
    BY <1>3, <2>3 DEF QueuedOnce
<1>9. OnceStarted(m)
  BY <1>1, <1>3, <1>4 DEF Faithful, OnceStarted
<1>10. ~begun => \A i \in DOMAIN m : m[i] # Event("attempt.started", n)
  <2>1. e # Event("attempt.started", n)
    BY <1>1, <1>4 DEF Event
  <2> QED
    BY <1>3, <2>1 DEF Faithful
<1> QED
  BY <1>3, <1>5, <1>6, <1>7, <1>8, <1>9, <1>10 DEF Faithful, m, e

(* An event that announces a status brings the Run to that status.         *)
LEMMA AnnouncingEvent ==
  ASSUME NEW l, NEW status, NEW n \in Nat, NEW begun \in BOOLEAN,
         Faithful(l, status, n, begun), ~terminalRunStatus(status),
         NEW type \in Announcing \ {"attempt.queued"}
  PROVE  Faithful(Append(l, Event(type, n)), RunStatusOf[type], n, begun)
<1> DEFINE e == Event(type, n)
           m == Append(l, e)
<1>1. e \in LogEvent /\ e.type = type /\ e.attempt = n
  BY DEF LogEvent, Event, EventTypes, Announcing
<1>2. l \in Seq(LogEvent)
  BY DEF Faithful
<1> HIDE DEF e
<1>3. /\ m \in Seq(LogEvent)
      /\ Len(l) \in Nat
      /\ DOMAIN l = 1 .. Len(l)
      /\ DOMAIN m = 1 .. Len(l) + 1
      /\ Len(m) = Len(l) + 1
      /\ \A i \in 1 .. Len(l) : m[i] = l[i]
      /\ m[Len(l) + 1] = e
  BY <1>1, <1>2, AppendFacts
<1> HIDE DEF m
<1>4. /\ type \in TerminalEvents => terminalRunStatus(RunStatusOf[type])
      /\ type # "attempt.queued" /\ type # "attempt.started"
  BY DEF TerminalEvents, Announcing, RunStatusOf, terminalRunStatus
<1>5. \A i \in DOMAIN m : m[i].attempt <= n
  BY <1>1, <1>3 DEF Faithful
<1>6. LastAnnounced(m, RunStatusOf[type])
  <2>1. \A j \in DOMAIN m : j > Len(l) + 1 => m[j].type \notin Announcing
    BY <1>3
  <2> QED
    BY <1>1, <1>3, <2>1 DEF LastAnnounced
<1>7. Ends(m, RunStatusOf[type])
  BY <1>1, <1>3, <1>4 DEF Faithful, Ends
<1>8. ASSUME NEW k \in 1 .. n PROVE QueuedOnce(m, k)
  <2>1. PICK i \in DOMAIN l :
          \A j \in DOMAIN l : l[j] = Event("attempt.queued", k) <=> j = i
    BY DEF Faithful, QueuedOnce
  <2>2. e # Event("attempt.queued", k)
    BY <1>1, <1>4 DEF Event
  <2>3. \A j \in DOMAIN m : m[j] = Event("attempt.queued", k) <=> j = i
    BY <1>3, <2>1, <2>2
  <2> QED
    BY <1>3, <2>3 DEF QueuedOnce
<1>9. OnceStarted(m)
  BY <1>1, <1>3, <1>4 DEF Faithful, OnceStarted
<1>10. ~begun => \A i \in DOMAIN m : m[i] # Event("attempt.started", n)
  <2>1. e # Event("attempt.started", n)
    BY <1>1, <1>4 DEF Event
  <2> QED
    BY <1>3, <2>1 DEF Faithful
<1> QED
  BY <1>3, <1>5, <1>6, <1>7, <1>8, <1>9, <1>10 DEF Faithful, m, e

(* attempt.started is new when the current Attempt has not begun.          *)
LEMMA StartedEvent ==
  ASSUME NEW l, NEW status, NEW n \in Nat,
         Faithful(l, status, n, FALSE), ~terminalRunStatus(status)
  PROVE  Faithful(Append(l, Event("attempt.started", n)), status, n, TRUE)
<1> DEFINE e == Event("attempt.started", n)
           m == Append(l, e)
<1>1. e \in LogEvent /\ e.type = "attempt.started" /\ e.attempt = n
  BY DEF LogEvent, Event, EventTypes
<1>2. l \in Seq(LogEvent) /\ \A i \in DOMAIN l : l[i] # e
  BY DEF Faithful
<1> HIDE DEF e
<1>3. /\ m \in Seq(LogEvent)
      /\ Len(l) \in Nat
      /\ DOMAIN l = 1 .. Len(l)
      /\ DOMAIN m = 1 .. Len(l) + 1
      /\ Len(m) = Len(l) + 1
      /\ \A i \in 1 .. Len(l) : m[i] = l[i]
      /\ m[Len(l) + 1] = e
  BY <1>1, <1>2, AppendFacts
<1> HIDE DEF m
<1>4. "attempt.started" \notin TerminalEvents \union Announcing
  BY DEF TerminalEvents, Announcing, RunStatusOf
<1>5. \A i \in DOMAIN m : m[i].attempt <= n
  BY <1>1, <1>3 DEF Faithful
<1>6. LastAnnounced(m, status)
  <2>1. PICK i \in DOMAIN l :
          /\ l[i].type \in Announcing
          /\ RunStatusOf[l[i].type] = status
          /\ \A j \in DOMAIN l : j > i => l[j].type \notin Announcing
    BY DEF Faithful, LastAnnounced
  <2>2. \A j \in DOMAIN m : j > i => m[j].type \notin Announcing
    BY <1>1, <1>3, <1>4, <2>1
  <2> QED
    BY <1>3, <2>1, <2>2 DEF LastAnnounced
<1>7. Ends(m, status)
  BY <1>1, <1>3, <1>4 DEF Faithful, Ends
<1>8. ASSUME NEW k \in 1 .. n PROVE QueuedOnce(m, k)
  <2>1. PICK i \in DOMAIN l :
          \A j \in DOMAIN l : l[j] = Event("attempt.queued", k) <=> j = i
    BY DEF Faithful, QueuedOnce
  <2>2. e # Event("attempt.queued", k)
    BY <1>1 DEF Event
  <2>3. \A j \in DOMAIN m : m[j] = Event("attempt.queued", k) <=> j = i
    BY <1>3, <2>1, <2>2
  <2> QED
    BY <1>3, <2>3 DEF QueuedOnce
<1>9. OnceStarted(m)
  <2>1. OnceStarted(l)
    BY DEF Faithful
  <2> QED
    BY <1>2, <1>3, <2>1 DEF OnceStarted
<1> QED
  BY <1>3, <1>5, <1>6, <1>7, <1>8, <1>9 DEF Faithful, m, e

(* attempt.queued begins another Attempt.                                  *)
LEMMA QueuedEvent ==
  ASSUME NEW l, NEW status, NEW n \in Nat, NEW begun \in BOOLEAN,
         Faithful(l, status, n, begun), ~terminalRunStatus(status)
  PROVE  Faithful(Append(l, Event("attempt.queued", n + 1)), "queued",
                  n + 1, FALSE)
<1> DEFINE e == Event("attempt.queued", n + 1)
           m == Append(l, e)
<1>1. e \in LogEvent /\ e.type = "attempt.queued" /\ e.attempt = n + 1
  BY DEF LogEvent, Event, EventTypes, RunStatusOf
<1>2. l \in Seq(LogEvent) /\ \A i \in DOMAIN l : l[i].attempt <= n
  BY DEF Faithful
<1> HIDE DEF e
<1>3. /\ m \in Seq(LogEvent)
      /\ Len(l) \in Nat
      /\ DOMAIN l = 1 .. Len(l)
      /\ DOMAIN m = 1 .. Len(l) + 1
      /\ Len(m) = Len(l) + 1
      /\ \A i \in 1 .. Len(l) : m[i] = l[i]
      /\ m[Len(l) + 1] = e
  BY <1>1, <1>2, AppendFacts
<1> HIDE DEF m
<1>4. /\ "attempt.queued" \notin TerminalEvents
      /\ "attempt.queued" \in Announcing
      /\ RunStatusOf["attempt.queued"] = "queued"
  BY DEF TerminalEvents, Announcing, RunStatusOf
<1>5. \A i \in DOMAIN l : l[i].attempt \in Nat /\ l[i].attempt # n + 1
  <2>1. \A i \in DOMAIN l : l[i] \in LogEvent
    BY <1>2, <1>3, ElementOfSeq
  <2> QED
    BY <1>2, <2>1 DEF LogEvent
<1>6. \A i \in DOMAIN m : m[i].attempt <= n + 1
  BY <1>1, <1>2, <1>3, <1>5
<1>7. LastAnnounced(m, "queued")
  <2>1. \A j \in DOMAIN m : j > Len(l) + 1 => m[j].type \notin Announcing
    BY <1>3
  <2> QED
    BY <1>1, <1>3, <1>4, <2>1 DEF LastAnnounced
<1>8. Ends(m, "queued")
  BY <1>1, <1>3, <1>4 DEF Faithful, Ends
<1>9. ASSUME NEW k \in 1 .. n + 1 PROVE QueuedOnce(m, k)
  <2>1. CASE k \in 1 .. n
    <3>1. PICK i \in DOMAIN l :
            \A j \in DOMAIN l : l[j] = Event("attempt.queued", k) <=> j = i
      BY <2>1 DEF Faithful, QueuedOnce
    <3>2. e # Event("attempt.queued", k)
      <4>1. Event("attempt.queued", k).attempt = k /\ k # n + 1
        BY <2>1 DEF Event
      <4> QED
        BY <1>1, <4>1
    <3>3. \A j \in DOMAIN m : m[j] = Event("attempt.queued", k) <=> j = i
      BY <1>3, <3>1, <3>2
    <3> QED
      BY <1>3, <3>3 DEF QueuedOnce
  <2>2. CASE k = n + 1
    <3>1. \A j \in DOMAIN m : m[j] = e <=> j = Len(l) + 1
      BY <1>1, <1>3, <1>5
    <3> QED
      BY <1>3, <2>2, <3>1 DEF QueuedOnce, e
  <2> QED
    BY <2>1, <2>2
<1>10. OnceStarted(m)
  BY <1>1, <1>3 DEF Faithful, OnceStarted
<1>11. \A i \in DOMAIN m : m[i] # Event("attempt.started", n + 1)
  <2>1. Event("attempt.started", n + 1).attempt = n + 1
        /\ Event("attempt.started", n + 1).type = "attempt.started"
    BY DEF Event
  <2> QED
    BY <1>1, <1>3, <1>5, <2>1
<1> QED
  BY <1>3, <1>6, <1>7, <1>8, <1>9, <1>10, <1>11 DEF Faithful, m, e

(* Forgetting that the current Attempt has not begun.                      *)
LEMMA MayHaveBegun ==
  ASSUME NEW l, NEW status, NEW n, NEW begun \in BOOLEAN,
         Faithful(l, status, n, begun)
  PROVE  Faithful(l, status, n, TRUE)
BY DEF Faithful

(* A Run that ends, or is marked as cancelled, with an event of the        *)
(* Attempt and one of the Run keeps a faithful log.                        *)
LEMMA PairLogged ==
  ASSUME NEW x \in Run, Present(x), LogGood(x), ~terminalRunStatus(x.status),
         NEW y, Number(y) = Number(x), Begun(y),
         NEW first \in EventTypes \ (Announcing \union {"attempt.started"}),
         NEW second \in Announcing \ {"attempt.queued"},
         y.log = appendEvents(x, first, second),
         y.status = RunStatusOf[second]
  PROVE  LogGood(y)
<1>1. Number(x) \in Nat /\ Begun(x) \in BOOLEAN
  BY DEF Run, Number, Begun
<1>2. Faithful(x.log, x.status, Number(x), Begun(x))
  BY DEF LogGood
<1>3. Faithful(appendEvent(x, first), x.status, Number(x), Begun(x))
  BY <1>1, <1>2, NeutralEvent DEF appendEvent
<1>4. Faithful(y.log, y.status, Number(x), Begun(x))
  BY <1>1, <1>3, AnnouncingEvent DEF appendEvents
<1>5. Faithful(y.log, y.status, Number(x), TRUE)
  BY <1>1, <1>4, MayHaveBegun
<1> QED
  BY <1>5 DEF LogGood

(* A Run that starts keeps a faithful log: its Attempt had not begun.      *)
LEMMA StartLogged ==
  ASSUME NEW x \in Run, Present(x), LogGood(x), ~Begun(x),
         ~terminalRunStatus(x.status),
         NEW y, Number(y) = Number(x), Begun(y), y.status = "running",
         y.log = appendEvents(x, "attempt.started", "run.started")
  PROVE  LogGood(y)
<1>1. Number(x) \in Nat
  BY DEF Run, Number
<1>2. Begun(x) = FALSE /\ Begun(y) = TRUE
  BY DEF Begun
<1>3. Faithful(x.log, x.status, Number(x), FALSE)
  BY <1>2 DEF LogGood
<1>4. Faithful(appendEvent(x, "attempt.started"), x.status, Number(x), TRUE)
  BY <1>1, <1>3, StartedEvent DEF appendEvent
<1>5. /\ "run.started" \in Announcing \ {"attempt.queued"}
      /\ RunStatusOf["run.started"] = "running"
  BY DEF Announcing, RunStatusOf
<1>6. Faithful(y.log, "running", Number(x), TRUE)
  BY <1>1, <1>4, <1>5, AnnouncingEvent DEF appendEvents
<1> QED
  BY <1>2, <1>6 DEF LogGood

(* A cancellation request is announced.                                    *)
LEMMA CancelLogged ==
  ASSUME NEW x \in Run, Present(x), LogGood(x), ~terminalRunStatus(x.status),
         NEW y, y.attempts = x.attempts, y.status = "cancelling",
         y.log = appendEvent(x, "run.cancel_requested")
  PROVE  LogGood(y)
<1>1. Number(x) \in Nat /\ Begun(x) \in BOOLEAN
  BY DEF Run, Number, Begun
<1>2. Faithful(x.log, x.status, Number(x), Begun(x))
  BY DEF LogGood
<1>3. /\ "run.cancel_requested" \in Announcing \ {"attempt.queued"}
      /\ RunStatusOf["run.cancel_requested"] = "cancelling"
  BY DEF Announcing, RunStatusOf
<1>4. Faithful(y.log, "cancelling", Number(x), Begun(x))
  BY <1>1, <1>2, <1>3, AnnouncingEvent DEF appendEvent
<1>5. Number(y) = Number(x) /\ Begun(y) = Begun(x)
  BY DEF Number, Begun, AttemptStatus
<1> QED
  BY <1>4, <1>5 DEF LogGood

(* Another Attempt is announced after the loss of the present one.         *)
LEMMA RetryLogged ==
  ASSUME NEW x \in Run, Present(x), LogGood(x), ~terminalRunStatus(x.status),
         NEW y, Number(y) = Number(x) + 1, ~Begun(y), y.status = "queued",
         y.log = Append(appendEvent(x, "attempt.lost"),
                        Event("attempt.queued", Number(x) + 1))
  PROVE  LogGood(y)
<1>1. Number(x) \in Nat /\ Begun(x) \in BOOLEAN
  BY DEF Run, Number, Begun
<1>2. Faithful(x.log, x.status, Number(x), Begun(x))
  BY DEF LogGood
<1>3. "attempt.lost" \in EventTypes \ (Announcing \union {"attempt.started"})
  BY DEF EventTypes, Announcing, RunStatusOf
<1>4. Faithful(appendEvent(x, "attempt.lost"), x.status, Number(x), Begun(x))
  BY <1>1, <1>2, <1>3, NeutralEvent DEF appendEvent
<1>5. Faithful(y.log, "queued", Number(x) + 1, FALSE)
  BY <1>1, <1>4, QueuedEvent
<1>6. Begun(y) = FALSE
  BY DEF Begun
<1> QED
  BY <1>5, <1>6 DEF LogGood

(* Leases are granted and expire without a change of the Run's status.     *)
LEMMA LeaseLogged ==
  ASSUME NEW x \in Run, Present(x), LogGood(x), ~terminalRunStatus(x.status),
         NEW y, Number(y) = Number(x), y.status = x.status,
         Begun(y) = Begun(x),
         \/ y.log = appendEvent(x, "attempt.leased")
         \/ y.log = appendEvent(x, "attempt.lease_expired")
         \/ y.log = appendEvents(x, "attempt.lease_expired", "attempt.leased")
  PROVE  LogGood(y)
<1>1. Number(x) \in Nat /\ Begun(x) \in BOOLEAN
  BY DEF Run, Number, Begun
<1>2. Faithful(x.log, x.status, Number(x), Begun(x))
  BY DEF LogGood
<1>3. {"attempt.leased", "attempt.lease_expired"} \subseteq
        EventTypes \ (Announcing \union {"attempt.started"})
  BY DEF EventTypes, Announcing, RunStatusOf
<1>4. /\ Faithful(appendEvent(x, "attempt.leased"),
                  x.status, Number(x), Begun(x))
      /\ Faithful(appendEvent(x, "attempt.lease_expired"),
                  x.status, Number(x), Begun(x))
  BY <1>1, <1>2, <1>3, NeutralEvent DEF appendEvent
<1>5. Faithful(appendEvents(x, "attempt.lease_expired", "attempt.leased"),
               x.status, Number(x), Begun(x))
  BY <1>1, <1>3, <1>4, NeutralEvent DEF appendEvents
<1> QED
  BY <1>4, <1>5 DEF LogGood

(* A new Run has a faithful log, and a Run that was never submitted none.  *)
LEMMA FirstLog ==
  /\ LogGood(AbsentRun)
  /\ \A d : LogGood(Submitted(d))
<1>1. LogGood(AbsentRun)
  BY DEF LogGood, Present, AbsentRun
<1>2. ASSUME NEW d PROVE LogGood(Submitted(d))
  <2> DEFINE x == Submitted(d)
             a == Event("run.created", 1)
             b == Event("attempt.queued", 1)
             l == <<a, b>>
  <2>1. x.log = l /\ x.status = "queued" /\ x.attempts = <<"queued">>
    BY DEF Submitted
  <2>2. Number(x) = 1 /\ ~Begun(x)
    BY <2>1 DEF Number, Begun, AttemptStatus
  <2>3. /\ a \in LogEvent /\ a.type = "run.created" /\ a.attempt = 1
        /\ b \in LogEvent /\ b.type = "attempt.queued" /\ b.attempt = 1
    BY DEF LogEvent, Event, EventTypes, RunStatusOf
  <2>4. /\ "attempt.queued" \in Announcing
        /\ RunStatusOf["attempt.queued"] = "queued"
        /\ {"attempt.queued", "run.created"} \intersect TerminalEvents = {}
    BY DEF Announcing, RunStatusOf, TerminalEvents
  <2>5. a # Event("attempt.started", 1) /\ b # Event("attempt.started", 1)
    BY <2>3 DEF Event
  <2>6. a # b
    BY <2>3
  <2> HIDE DEF a, b, x
  <2>7. /\ l \in Seq(LogEvent) /\ DOMAIN l = {1, 2} /\ Len(l) = 2
        /\ l[1] = a /\ l[2] = b
    BY <2>3
  <2> HIDE DEF l
  <2>8. \A i \in DOMAIN l : l[i].attempt <= 1
    BY <2>3, <2>7
  <2>9. LastAnnounced(l, "queued")
    BY <2>3, <2>4, <2>7 DEF LastAnnounced
  <2>10. Ends(l, "queued")
    BY <2>3, <2>4, <2>7 DEF Ends
  <2>11. QueuedOnce(l, 1)
    BY <2>6, <2>7 DEF QueuedOnce, b
  <2>12. OnceStarted(l)
    BY <2>3, <2>7 DEF OnceStarted
  <2>13. \A i \in DOMAIN l : l[i] # Event("attempt.started", 1)
    BY <2>5, <2>7
  <2>14. Faithful(l, "queued", 1, Begun(x))
    BY <2>7, <2>8, <2>9, <2>10, <2>11, <2>12, <2>13 DEF Faithful
  <2> QED
    BY <2>1, <2>2, <2>14 DEF LogGood, x
<1> QED
  BY <1>1, <1>2

(* Faithful logs are what LogIsFaithful says of them.                      *)
LEMMA FaithfulLogs ==
  ASSUME \A r \in Runs : /\ Present(runs[r]) \/ runs[r] = AbsentRun
                         /\ LogGood(runs[r])
  PROVE  LogIsFaithful
<1> SUFFICES ASSUME NEW r \in Runs
             PROVE
               LET log == runs[r].log IN
               /\ LogTellsStatus(runs[r])
               /\ \A i \in DOMAIN log : log[i].type \in TerminalEvents
                                          => i = Len(log)
               /\ \A n \in 1 .. Number(runs[r]) :
                    Cardinality({i \in DOMAIN log :
                                   log[i] = Event("attempt.queued", n)}) = 1
               /\ StartedOnce(runs[r])
  BY DEF LogIsFaithful
<1> DEFINE x == runs[r]
<1>1. (Present(x) \/ x = AbsentRun) /\ LogGood(x)
  OBVIOUS
<1> HIDE DEF x
<1>2. CASE x.status = "absent"
  <2>1. AbsentRun.log = <<>> /\ AbsentRun.attempts = <<>>
    BY DEF AbsentRun
  <2>2. x.log = <<>> /\ x.attempts = <<>>
    BY <1>1, <1>2, <2>1 DEF Present
  <2>3. DOMAIN x.log = {} /\ Number(x) = 0
    BY <2>2 DEF Number
  <2> QED
    BY <1>2, <2>3 DEF LogTellsStatus, StartedOnce, x
<1>3. CASE Present(x)
  <2>1. Faithful(x.log, x.status, Number(x), Begun(x))
    BY <1>1, <1>3 DEF LogGood
  <2>2. LogTellsStatus(x)
    BY <2>1 DEF Faithful, LastAnnounced, Announcing, LogTellsStatus
  <2>3. StartedOnce(x)
    BY <2>1 DEF Faithful, OnceStarted, StartedOnce
  <2>4. \A i \in DOMAIN x.log : x.log[i].type \in TerminalEvents
                                  => i = Len(x.log)
    BY <2>1 DEF Faithful, Ends
  <2>5. ASSUME NEW n \in 1 .. Number(x)
        PROVE  Cardinality({i \in DOMAIN x.log :
                              x.log[i] = Event("attempt.queued", n)}) = 1
    <3>1. PICK i \in DOMAIN x.log :
            \A j \in DOMAIN x.log :
              x.log[j] = Event("attempt.queued", n) <=> j = i
      BY <2>1 DEF Faithful, QueuedOnce
    <3>2. {j \in DOMAIN x.log : x.log[j] = Event("attempt.queued", n)} = {i}
      BY <3>1
    <3> QED
      BY <3>2, FS_Singleton
  <2> QED
    BY <2>2, <2>3, <2>4, <2>5 DEF x
<1> QED
  BY <1>2, <1>3 DEF Present

-----------------------------------------------------------------------------
(* What one step of a store may do to the record of a Run.  Changed(x, y)   *)
(* summarises all operations by what they leave of a record.               *)

(* A report that was accepted came from the holder of a lease.             *)
Owned(x) ==
  \/ x.status = "succeeded"
  \/ x.status = "failed" /\ AttemptStatus(x) = "failed"
  => x.token > 0

(* Clocks, flags and nothing else; an expired lease stays expired.         *)
Kept(x, y) ==
  /\ y.status = x.status /\ y.outcome = x.outcome
  /\ y.attempts = x.attempts /\ y.log = x.log
  /\ y.token = x.token /\ y.grants = x.grants
  /\ x.ttl = 0 => y.ttl = 0

Inserted(x, y) ==
  /\ x = AbsentRun
  /\ y.status = "queued" /\ y.outcome = NoValue /\ Len(y.attempts) = 1
  /\ AttemptStatus(y) = "queued" /\ y.token = 0 /\ y.grants = x.grants

(* A new lease for the current Attempt.                                    *)
Granted(x, y) ==
  /\ x.status = "queued" /\ y.status = "queued" /\ y.outcome = x.outcome
  /\ Len(y.attempts) = Len(x.attempts) /\ AttemptStatus(y) = "leased"
  /\ Len(y.grants) = Len(x.grants) + 1
  /\ x.token # 0 => AttemptStatus(x) = "leased" /\ x.ttl = 0

(* Another Attempt.                                                        *)
Repeated(x, y) ==
  /\ x.status = "running" /\ y.status = "queued" /\ y.outcome = x.outcome
  /\ AttemptStatus(x) = "running" /\ x.ttl = 0
  /\ Number(x) < MaxAttempts
  /\ Len(y.attempts) = Len(x.attempts) + 1
  /\ y.attempts[Number(x)] = "lost"
  /\ AttemptStatus(y) = "queued" /\ y.token = 0 /\ y.grants = x.grants

(* The status of the Run moves on, and the lease stays what it is.         *)
Advanced(x, y) ==
  /\ Len(y.attempts) = Len(x.attempts)
  /\ y.token = x.token /\ y.grants = x.grants
  /\ \/ /\ x.status = "queued" /\ y.status = "running"
        /\ y.outcome = x.outcome
     \/ /\ x.status = "running" /\ y.status = "succeeded"
        /\ y.outcome \in Results /\ x.token > 0
     \/ /\ x.status \in {"queued", "running"} /\ y.status = "failed"
        /\ y.outcome \in Causes /\ x.token > 0
     \/ /\ x.status = "running" /\ y.status = "failed"
        /\ y.outcome = LeaseExpired /\ Number(x) = MaxAttempts
     \/ /\ x.status \in {"queued", "running"} /\ y.status = "cancelling"
        /\ y.outcome = x.outcome
     \/ /\ x.status \in {"queued", "running", "cancelling"}
        /\ y.status = "cancelled"
        /\ y.outcome = x.outcome

Changed(x, y) ==
  \/ Kept(x, y)
  \/ Inserted(x, y)
  \/ Granted(x, y)
  \/ Repeated(x, y)
  \/ Advanced(x, y)

PromisedStep(s, t) ==
  \/ t = s
  \/ Lifecycle!Accepted(s, t)
  \/ Lifecycle!Begun(s, t)
  \/ Lifecycle!Retried(s, t)
  \/ Lifecycle!GivenUp(s, t)
  \/ Lifecycle!Reported(s, t)
  \/ Lifecycle!Cancelled(s, t)

(* Seen through GetRun, each of these changes is a step of RunLifecycle or *)
(* none.                                                                   *)
LEMMA ViewStep ==
  ASSUME NEW x \in Run, NEW y \in Run, Changed(x, y)
  PROVE  PromisedStep(View(x), View(y))
<1> DEFINE s == View(x)
           t == View(y)
<1>1. /\ s = [status |-> x.status, tries |-> Len(x.attempts),
              outcome |-> x.outcome]
      /\ t = [status |-> y.status, tries |-> Len(y.attempts),
              outcome |-> y.outcome]
  BY DEF View, Number
<1>2. CASE Kept(x, y) \/ Granted(x, y)
  BY <1>1, <1>2 DEF Kept, Granted, PromisedStep
<1>3. CASE Inserted(x, y)
  <2>1. s = Lifecycle!Absent
    BY <1>3 DEF Inserted, View, AbsentRun, Number, Lifecycle!Absent
  <2>2. t = [status |-> "queued", tries |-> 1, outcome |-> NoValue]
    BY <1>1, <1>3 DEF Inserted
  <2> QED
    BY <2>1, <2>2 DEF Lifecycle!Accepted, PromisedStep
<1>4. s.status = x.status /\ s.tries = Number(x) /\ Number(x) \in Nat
  BY <1>1 DEF Number, Run
<1> HIDE DEF s, t
<1>5. CASE Repeated(x, y)
  <2>1. t = [s EXCEPT !.status = "queued", !.tries = s.tries + 1]
    <3>1. t = [status |-> "queued", tries |-> s.tries + 1,
               outcome |-> x.outcome]
      BY <1>1, <1>4, <1>5 DEF Repeated, Number
    <3>2. PICK u : u = [status |-> "queued", tries |-> Len(x.attempts),
                        outcome |-> x.outcome]
      OBVIOUS
    <3>3. [s EXCEPT !.status = "queued"] = u
      BY <1>1, <3>2
    <3>4. t = [u EXCEPT !.tries = s.tries + 1]
      BY <3>1, <3>2
    <3> QED
      BY <3>3, <3>4
  <2>2. Lifecycle!Retried(s, t)
    BY <1>4, <1>5, <2>1 DEF Repeated, Lifecycle!Retried
  <2> QED
    BY <2>2 DEF s, t, PromisedStep
<1>6. CASE Advanced(x, y)
  <2>1. /\ y.outcome = x.outcome => t = [s EXCEPT !.status = y.status]
        /\ t = [s EXCEPT !.status = y.status, !.outcome = y.outcome]
    <3>1. t = [status |-> y.status, tries |-> Len(x.attempts),
               outcome |-> y.outcome]
      BY <1>1, <1>6 DEF Advanced
    <3>2. PICK u : u = [status |-> y.status, tries |-> Len(x.attempts),
                        outcome |-> x.outcome]
      OBVIOUS
    <3>3. [s EXCEPT !.status = y.status] = u
      BY <1>1, <3>2
    <3>4. t = [u EXCEPT !.outcome = y.outcome]
      BY <3>1, <3>2
    <3>5. y.outcome = x.outcome => t = u
      BY <3>1, <3>2
    <3> QED
      BY <3>3, <3>4, <3>5
  <2>2. \/ Lifecycle!Begun(s, t)
        \/ Lifecycle!GivenUp(s, t)
        \/ Lifecycle!Reported(s, t)
        \/ Lifecycle!Cancelled(s, t)
    BY <1>4, <1>6, <2>1 DEF Advanced, Lifecycle!Begun,
       Lifecycle!GivenUp, Lifecycle!Reported, Lifecycle!Cancelled
  <2> QED
    BY <2>2 DEF s, t, PromisedStep
<1> QED
  BY <1>2, <1>3, <1>5, <1>6 DEF Changed, PromisedStep
===============================================================================
