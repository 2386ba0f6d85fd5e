--------------------------- MODULE EventLogProofs ---------------------------
(***************************************************************************)
(* The event log of a Run, those who write it and those who read it, for   *)
(* any number of writers, hosts, questions, artifacts and connections.     *)
(*                                                                         *)
(* The log.  At most one open transaction has inserted anything, and what  *)
(* it inserted continues the committed rows: sequence numbers are unique   *)
(* and without gaps.  A number that was read and not inserted yet may be   *)
(* stale, but never too high.                                              *)
(*                                                                         *)
(* Its writers (AttemptRecords).  Question says that at most one answer is *)
(* on record or about to be; Uploads, where the upload under way stands    *)
(* and what is on record about it, whether or not the service was told;    *)
(* Ending, that no success is reported without all uploads.                *)
(*                                                                         *)
(* Its readers (EventStream).  What was handled, followed by what is under *)
(* way, is the log up to the cursor of the handler (Delivered); rows that  *)
(* are committed later get higher numbers, so no cursor passes a row that  *)
(* is still to come.  A Run that has ended has its terminal row in the     *)
(* log, because both are committed together (Truthful); the last read      *)
(* follows the check, so an unbroken stream contains it (Unbroken).        *)
(***************************************************************************)
EXTENDS AttemptRecords, EventStream, SequenceTheorems, FiniteSetTheorems, TLAPS

EventTypes ==
  {"runtime.output", "capability.recorded", "artifact.created",
   "interaction.requested", "interaction.resolved", "attempt.succeeded",
   "run.succeeded", "attempt.failed", "run.failed"}

(* An event about one of the subjects S.                                   *)
Event(S) == [sequence : Nat, subject : S, type : EventTypes]

(* A transaction about one of the subjects S that writes one of the values V. *)
Transaction(S, V) ==
  [kind : Kinds \union {"none"}, subject : S, value : V, sequence : Nat,
   inserted : SUBSET Event(S), outcome : {"none", "open", "done", "failed"}]

(* A transaction that has inserted m events while n were committed.        *)
Continues(t, n) ==
  /\ IsFiniteSet(t.inserted)
  /\ Sequences(t.inserted) = (n + 1) .. (n + Cardinality(t.inserted))
  /\ t.sequence # 0 =>
       /\ t.sequence <= n + Cardinality(t.inserted) + 1
       /\ t.inserted # {} => t.sequence = n + Cardinality(t.inserted) + 1
       /\ Len(Appends[t.kind]) > Cardinality(t.inserted)
  /\ \A i \in 1 .. Cardinality(t.inserted) :
       \E e \in t.inserted : e.type = Appends[t.kind][i]
  /\ IF t.outcome = "open" THEN t.kind \in Kinds ELSE t.sequence = 0 /\ t.inserted = {}

LogInv(S, V) ==
  /\ tx \in [Writers -> Transaction(S, V)]
  /\ rows \in SUBSET Event(S) /\ IsFiniteSet(rows)
  /\ NoGaps
  /\ \A d, e \in rows : d.sequence = e.sequence => d = e
  /\ \A w \in Writers : Continues(tx[w], Cardinality(rows))
  /\ \A v, w \in Writers :
       tx[v].inserted # {} /\ tx[w].inserted # {} => v = w
  /\ \A w \in Writers : \A d, e \in tx[w].inserted :
       d.sequence = e.sequence => d = e

-----------------------------------------------------------------------------
(* The kinds of transactions.                                              *)
LEMMA KindsAre ==
  Kinds = {"append", "record", "artifact", "create", "resolve", "succeed", "fail"}
BY DEF Kinds, Appends

(* Every kind of transaction appends at least one event.                   *)
LEMMA AppendsTyped ==
  ASSUME NEW kind \in Kinds
  PROVE  /\ Len(Appends[kind]) \in Nat \ {0}
         /\ \A i \in 1 .. Len(Appends[kind]) : Appends[kind][i] \in EventTypes
<1>1. kind \in {"append", "record", "artifact", "create", "resolve", "succeed", "fail"}
  BY KindsAre
<1>2. /\ Appends["append"] = <<"runtime.output">>
      /\ Appends["record"] = <<"capability.recorded">>
      /\ Appends["artifact"] = <<"artifact.created">>
      /\ Appends["create"] = <<"interaction.requested">>
      /\ Appends["resolve"] = <<"interaction.resolved">>
      /\ Appends["succeed"] = <<"attempt.succeeded", "run.succeeded">>
      /\ Appends["fail"] = <<"attempt.failed", "run.failed">>
  BY DEF Appends
<1>3. \/ \E a \in EventTypes : Appends[kind] = <<a>>
      \/ \E a, b \in EventTypes : Appends[kind] = <<a, b>>
  BY <1>1, <1>2 DEF EventTypes
<1> HIDE DEF EventTypes
<1>4. CASE \E a \in EventTypes : Appends[kind] = <<a>>
  <2>1. PICK a \in EventTypes : Appends[kind] = <<a>>
    BY <1>4
  <2>2. Len(<<a>>) = 1 /\ <<a>>[1] = a
    OBVIOUS
  <2>3. \A i \in 1 .. 1 : i = 1
    OBVIOUS
  <2> QED
    BY <2>1, <2>2, <2>3
<1>5. CASE \E a, b \in EventTypes : Appends[kind] = <<a, b>>
  <2>1. PICK a, b \in EventTypes : Appends[kind] = <<a, b>>
    BY <1>5
  <2>2. Len(<<a, b>>) = 2 /\ <<a, b>>[1] = a /\ <<a, b>>[2] = b
    OBVIOUS
  <2>3. \A i \in 1 .. 2 : i = 1 \/ i = 2
    OBVIOUS
  <2> QED
    BY <2>1, <2>2, <2>3
<1> QED
  BY <1>3, <1>4, <1>5

(* The numbers in use when n events are committed and m more inserted.     *)
LEMMA NumbersInUse ==
  ASSUME NEW n \in Nat, NEW m \in Nat, NEW R, NEW I,
         Sequences(R) = 1 .. n, Sequences(I) = (n + 1) .. (n + m)
  PROVE  Sequences(R \union I) = 1 .. (n + m)
<1>1. \A s : s \in Sequences(R \union I) <=> s \in Sequences(R) \/ s \in Sequences(I)
  BY DEF Sequences
<1>2. \A s : s \in 1 .. n \/ s \in (n + 1) .. (n + m) <=> s \in 1 .. (n + m)
  OBVIOUS
<1> HIDE DEF Sequences
<1> QED
  BY <1>1, <1>2

(* COALESCE(MAX(sequence), 0) + 1 is one more than what is in use.         *)
LEMMA NextIs ==
  ASSUME NEW S, NEW V, LogInv(S, V), NEW w \in Writers
  PROVE  NextSequence(w) = Cardinality(rows) + Cardinality(tx[w].inserted) + 1
<1> DEFINE n == Cardinality(rows)
           m == Cardinality(tx[w].inserted)
           seen == Sequences(rows \union tx[w].inserted) \union {0}
<1>1. n \in Nat /\ m \in Nat
  BY FS_CardinalityType DEF LogInv, Continues
<1>2. Sequences(rows \union tx[w].inserted) = 1 .. (n + m)
  BY <1>1, NumbersInUse DEF LogInv, Continues, NoGaps
<1>3. seen = 0 .. (n + m)
  BY <1>1, <1>2
<1> DEFINE top == CHOOSE a \in seen : \A b \in seen : b <= a
<1>4. NextSequence(w) = 1 + top
  BY DEF NextSequence
<1> HIDE DEF seen, n, m
<1>5. top = n + m
  <2>1. n + m \in seen /\ \A b \in seen : b <= n + m
    BY <1>1, <1>3
  <2>2. top \in seen /\ \A b \in seen : b <= top
    BY <2>1
  <2> QED
    BY <1>1, <1>3, <2>1, <2>2
<1> HIDE DEF top
<1> QED
  BY <1>1, <1>4, <1>5 DEF n, m

-----------------------------------------------------------------------------
(* The transactions of other writers.                                      *)
LEMMA IdleContinues ==
  ASSUME NEW n \in Nat, NEW t, t.inserted = {}, t.sequence = 0,
         t.outcome = "open" => t.kind \in Kinds
  PROVE  Continues(t, n)
<1>1. IsFiniteSet({}) /\ Cardinality({}) = 0
  BY FS_EmptySet
<1>2. Sequences({}) = (n + 1) .. (n + 0)
  <2>1. \A s : s \notin (n + 1) .. (n + 0)
    OBVIOUS
  <2>2. \A s : s \notin Sequences({})
    BY DEF Sequences
  <2> HIDE DEF Sequences
  <2> QED
    BY <2>1, <2>2
<1> QED
  BY <1>1, <1>2 DEF Continues

(* A transaction begins.                                                   *)
LEMMA BeginKeepsLog ==
  ASSUME NEW S, NEW V, LogInv(S, V), NEW w \in Writers, NEW kind \in Kinds,
         NEW subject \in S, NEW value \in V, Begin(w, kind, subject, value)
  PROVE  /\ LogInv(S, V)' /\ UNCHANGED <<rows, changes>>
         /\ \A v \in Writers : v # w => tx'[v] = tx[v]
         /\ tx'[w].kind = kind /\ tx'[w].subject = subject
         /\ tx'[w].value = value /\ tx'[w].outcome = "open"
<1> DEFINE t == [kind |-> kind, subject |-> subject, value |-> value,
                 sequence |-> 0, inserted |-> {}, outcome |-> "open"]
<1>1. tx' = [tx EXCEPT ![w] = t] /\ UNCHANGED <<rows, changes>>
  <2>1. [Idle EXCEPT !.kind = kind, !.subject = subject, !.value = value,
                     !.outcome = "open"] = t
    <3>1. PICK i : i = Idle
      OBVIOUS
    <3>2. i \in [kind : {"none"}, subject : {"none"}, value : {"none"},
                 sequence : {0}, inserted : {{}}, outcome : {"none"}]
      BY <3>1 DEF Idle
    <3> DEFINE u == [i EXCEPT !.kind = kind, !.subject = subject,
                              !.value = value, !.outcome = "open"]
    <3>3. /\ u = [f \in DOMAIN i |-> u[f]]
          /\ DOMAIN i = {"kind", "subject", "value", "sequence", "inserted", "outcome"}
          /\ u.kind = kind /\ u.subject = subject /\ u.value = value
          /\ u.sequence = 0 /\ u.inserted = {} /\ u.outcome = "open"
      BY <3>2
    <3> HIDE DEF u
    <3>4. u = t
      BY <3>3
    <3> QED
      BY <3>1, <3>4 DEF u
  <2> HIDE DEF t
  <2> QED
    BY <2>1 DEF Begin
<1>2. /\ t \in Transaction(S, V) /\ t.inserted = {} /\ t.sequence = 0
      /\ t.kind = kind /\ t.subject = subject /\ t.value = value
      /\ t.outcome = "open"
  BY DEF Transaction
<1> HIDE DEF t
<1>3. /\ tx' \in [Writers -> Transaction(S, V)] /\ tx'[w] = t
      /\ \A v \in Writers : v # w => tx'[v] = tx[v]
  BY <1>1, <1>2 DEF LogInv
<1>4. Continues(t, Cardinality(rows))
  BY <1>2, IdleContinues, FS_CardinalityType DEF LogInv
<1>5. LogInv(S, V)'
  BY <1>1, <1>2, <1>3, <1>4 DEF LogInv, NoGaps
<1> QED
  BY <1>1, <1>2, <1>3, <1>5

(* A transaction ends without effect.                                      *)
LEMMA RollbackKeepsLog ==
  ASSUME NEW S, NEW V, LogInv(S, V), NEW w \in Writers, Rollback(w),
         "none" \in S, "none" \in V
  PROVE  /\ LogInv(S, V)' /\ UNCHANGED <<rows, changes>>
         /\ \A v \in Writers : v # w => tx'[v] = tx[v]
         /\ tx'[w].outcome = "failed"
<1> DEFINE t == [kind |-> "none", subject |-> "none", value |-> "none",
                 sequence |-> 0, inserted |-> {}, outcome |-> "failed"]
<1>1. tx' = [tx EXCEPT ![w] = t] /\ UNCHANGED <<rows, changes>>
  <2>1. [Idle EXCEPT !.outcome = "failed"] = t
    BY DEF Idle
  <2> HIDE DEF t
  <2> QED
    BY <2>1 DEF Rollback, Ends
<1>2. /\ t \in Transaction(S, V) /\ t.inserted = {} /\ t.sequence = 0
      /\ t.outcome = "failed"
  BY DEF Transaction
<1> HIDE DEF t
<1>3. /\ tx' \in [Writers -> Transaction(S, V)] /\ tx'[w] = t
      /\ \A v \in Writers : v # w => tx'[v] = tx[v]
  BY <1>1, <1>2 DEF LogInv
<1>4. Continues(t, Cardinality(rows))
  BY <1>2, IdleContinues, FS_CardinalityType DEF LogInv
<1>5. LogInv(S, V)'
  BY <1>1, <1>2, <1>3, <1>4 DEF LogInv, NoGaps
<1> QED
  BY <1>1, <1>2, <1>3, <1>5

(* appendEvent reads the next number.                                      *)
LEMMA ReadKeepsLog ==
  ASSUME NEW S, NEW V, LogInv(S, V), NEW w \in Writers, ReadSequence(w)
  PROVE  /\ LogInv(S, V)' /\ UNCHANGED <<rows, changes>>
         /\ \A v \in Writers : v # w => tx'[v] = tx[v]
         /\ tx'[w].kind = tx[w].kind /\ tx'[w].subject = tx[w].subject
         /\ tx'[w].value = tx[w].value /\ tx'[w].outcome = tx[w].outcome
<1> DEFINE n == Cardinality(rows)
           m == Cardinality(tx[w].inserted)
           s == NextSequence(w)
<1>1. /\ n \in Nat /\ m \in Nat /\ s = n + m + 1 /\ s \in Nat
      /\ tx[w] \in Transaction(S, V) /\ Continues(tx[w], n)
  <2>1. tx[w] \in Transaction(S, V) /\ Continues(tx[w], n)
    BY DEF LogInv
  <2>2. n \in Nat /\ m \in Nat
    BY <2>1, FS_CardinalityType DEF LogInv, Continues
  <2>3. s = n + m + 1
    BY NextIs
  <2> HIDE DEF n, m, s
  <2> QED
    BY <2>1, <2>2, <2>3
<1>2. /\ tx' = [tx EXCEPT ![w].sequence = s] /\ UNCHANGED <<rows, changes>>
      /\ tx[w].outcome = "open" /\ Len(Appends[tx[w].kind]) > m
  BY DEF ReadSequence, Open, Pending
<1> HIDE DEF s
<1>3. /\ tx' \in [Writers -> Transaction(S, V)]
      /\ \A v \in Writers : v # w => tx'[v] = tx[v]
      /\ tx'[w].sequence = s /\ tx'[w].inserted = tx[w].inserted
      /\ tx'[w].kind = tx[w].kind /\ tx'[w].subject = tx[w].subject
      /\ tx'[w].value = tx[w].value /\ tx'[w].outcome = tx[w].outcome
  BY <1>1, <1>2 DEF LogInv, Transaction
<1>4. Continues(tx'[w], n)
  BY <1>1, <1>2, <1>3 DEF Continues
<1>5. LogInv(S, V)'
  <2>1. \A v \in Writers : tx'[v].inserted = tx[v].inserted /\ Continues(tx'[v], n)
    BY <1>3, <1>4 DEF LogInv
  <2> QED
    BY <1>2, <1>3, <2>1 DEF LogInv, NoGaps
<1> QED
  BY <1>2, <1>3, <1>5

(* What an insertion adds to the events of its transaction.                *)
LEMMA OneMore ==
  ASSUME NEW I, NEW e, NEW n \in Nat, IsFiniteSet(I),
         Sequences(I) = (n + 1) .. (n + Cardinality(I)),
         e.sequence = n + Cardinality(I) + 1
  PROVE  /\ IsFiniteSet(I \union {e})
         /\ Cardinality(I \union {e}) = Cardinality(I) + 1
         /\ Sequences(I \union {e}) = (n + 1) .. (n + Cardinality(I \union {e}))
         /\ \A d \in I : d.sequence # e.sequence
<1> DEFINE m == Cardinality(I)
<1>1. m \in Nat
  BY FS_CardinalityType
<1>2. \A d \in I : d.sequence \in (n + 1) .. (n + m)
  BY DEF Sequences
<1>3. \A d \in I : d.sequence # e.sequence
  BY <1>1, <1>2
<1>4. e \notin I
  BY <1>3
<1>5. IsFiniteSet(I \union {e}) /\ Cardinality(I \union {e}) = m + 1
  BY <1>4, FS_AddElement
<1>6. \A s : s \in Sequences(I \union {e}) <=> s \in Sequences(I) \/ s = e.sequence
  BY DEF Sequences
<1>7. \A s : s \in (n + 1) .. (n + m) \/ s = n + m + 1 <=> s \in (n + 1) .. (n + (m + 1))
  BY <1>1
<1> HIDE DEF Sequences
<1>8. Sequences(I \union {e}) = (n + 1) .. (n + (m + 1))
  BY <1>6, <1>7
<1> QED
  BY <1>3, <1>5, <1>8

(* appendEvent inserts: the number is the next one, and nobody else has    *)
(* inserted anything.                                                      *)
LEMMA InsertsNext ==
  ASSUME NEW S, NEW V, LogInv(S, V), NEW w \in Writers, insertEvent(w)
  PROVE  /\ tx[w].sequence = Cardinality(rows) + Cardinality(tx[w].inserted) + 1
         /\ \A v \in Writers : v # w => tx[v].inserted = {}
<1> DEFINE n == Cardinality(rows)
           m == Cardinality(tx[w].inserted)
           s == tx[w].sequence
<1>1. n \in Nat /\ m \in Nat /\ s \in Nat \ {0}
  BY FS_CardinalityType DEF LogInv, Continues, insertEvent, Transaction
<1>2. /\ s <= n + m + 1
      /\ tx[w].inserted # {} => s = n + m + 1
      /\ tx[w].inserted = {} => m = 0
  BY FS_EmptySet DEF LogInv, Continues, insertEvent
<1>3. s \notin 1 .. n
  BY DEF insertEvent, Conflict, LogInv, NoGaps
<1>4. s = n + m + 1
  BY <1>1, <1>2, <1>3
<1>5. ASSUME NEW v \in Writers, v # w, tx[v].inserted # {} PROVE FALSE
  <2> DEFINE l == Cardinality(tx[v].inserted)
  <2>1. /\ Continues(tx[v], n) /\ IsFiniteSet(tx[v].inserted)
        /\ Sequences(tx[v].inserted) = (n + 1) .. (n + l)
    BY DEF LogInv, Continues
  <2>2. l \in Nat /\ l # 0
    BY <1>5, <2>1, FS_CardinalityType, FS_EmptySet
  <2>3. n + 1 \in Sequences(tx[v].inserted)
    BY <1>1, <2>1, <2>2
  <2>4. tx[w].inserted = {}
    BY <1>5 DEF LogInv
  <2>5. s = n + 1
    BY <1>1, <1>2, <1>4, <2>4
  <2>6. Open(v)
    BY <1>5, <2>1 DEF Open, Continues
  <2> QED
    BY <1>5, <2>3, <2>5, <2>6 DEF insertEvent, Waits
<1> QED
  BY <1>4, <1>5

(* It leaves everything in place.                                          *)
LEMMA InsertKeepsLog ==
  ASSUME NEW S, NEW V, LogInv(S, V), NEW w \in Writers, insertEvent(w)
  PROVE  /\ LogInv(S, V)' /\ UNCHANGED <<rows, changes>>
         /\ \A v \in Writers : v # w => tx'[v] = tx[v]
         /\ tx'[w].kind = tx[w].kind /\ tx'[w].subject = tx[w].subject
         /\ tx'[w].value = tx[w].value /\ tx'[w].outcome = tx[w].outcome
<1> DEFINE n == Cardinality(rows)
           t == tx[w]
           I == t.inserted
           m == Cardinality(I)
           e == [sequence |-> t.sequence, subject |-> t.subject,
                 type |-> Appends[t.kind][m + 1]]
           J == I \union {e}
<1>1. /\ n \in Nat /\ m \in Nat /\ t \in Transaction(S, V) /\ Continues(t, n)
      /\ t.sequence = n + m + 1 /\ t.sequence # 0 /\ t.outcome = "open"
      /\ \A v \in Writers : v # w => tx[v].inserted = {}
  BY InsertsNext, FS_CardinalityType DEF LogInv, Continues, insertEvent, Open
<1>2. tx' = [tx EXCEPT ![w].sequence = 0, ![w].inserted = J]
        /\ UNCHANGED <<rows, changes>>
  BY DEF insertEvent
<1>3. e \in Event(S) /\ e.sequence = n + m + 1
  <2>1. t.kind \in Kinds /\ Len(Appends[t.kind]) > m
    BY <1>1 DEF Continues
  <2>2. Appends[t.kind][m + 1] \in EventTypes
    <3>1. /\ Len(Appends[t.kind]) \in Nat
          /\ \A i \in 1 .. Len(Appends[t.kind]) : Appends[t.kind][i] \in EventTypes
      BY <2>1, AppendsTyped
    <3>2. m + 1 \in 1 .. Len(Appends[t.kind])
      BY <1>1, <2>1, <3>1
    <3> QED
      BY <3>1, <3>2
  <2> DEFINE type == Appends[t.kind][m + 1]
  <2> HIDE DEF type
  <2>3. [sequence |-> t.sequence, subject |-> t.subject, type |-> type] \in Event(S)
    BY <1>1, <2>2 DEF Event, Transaction, type
  <2> QED
    BY <1>1, <2>3 DEF type
<1> HIDE DEF e
<1>4. /\ IsFiniteSet(J) /\ Cardinality(J) = m + 1
      /\ Sequences(J) = (n + 1) .. (n + Cardinality(J))
      /\ \A d \in I : d.sequence # e.sequence
  <2>1. IsFiniteSet(I) /\ Sequences(I) = (n + 1) .. (n + m)
    BY <1>1 DEF Continues
  <2>2. n \in Nat /\ e.sequence = n + m + 1
    BY <1>1, <1>3
  <2> HIDE DEF n, I
  <2> QED
    BY <2>1, <2>2, OneMore
<1>5. J \in SUBSET Event(S)
  BY <1>1, <1>3 DEF Transaction
<1>6. \A c, d \in J : c.sequence = d.sequence => c = d
  BY <1>4 DEF LogInv
<1> HIDE DEF J
<1>7. /\ tx' \in [Writers -> Transaction(S, V)]
      /\ \A v \in Writers : v # w => tx'[v] = tx[v]
      /\ tx'[w].sequence = 0 /\ tx'[w].inserted = J
      /\ tx'[w].kind = t.kind /\ tx'[w].subject = t.subject
      /\ tx'[w].value = t.value /\ tx'[w].outcome = t.outcome
  BY <1>1, <1>2, <1>5 DEF LogInv, Transaction
<1>8. Continues(tx'[w], n)
  <2>1. \A i \in 1 .. m + 1 : \E d \in J : d.type = Appends[t.kind][i]
    <3>1. e.type = Appends[t.kind][m + 1] /\ e \in J /\ I \subseteq J
      BY DEF e, J
    <3>2. \A i \in 1 .. m : \E d \in I : d.type = Appends[t.kind][i]
      BY <1>1 DEF Continues
    <3>3. \A i \in 1 .. m + 1 : i \in 1 .. m \/ i = m + 1
      BY <1>1
    <3> QED
      BY <3>1, <3>2, <3>3
  <2> QED
    BY <1>1, <1>4, <1>7, <2>1 DEF Continues
<1>9. LogInv(S, V)'
  <2>1. rows' = rows
    BY <1>2
  <2>2. \A v \in Writers : Continues(tx'[v], n)
    BY <1>7, <1>8 DEF LogInv
  <2>3. \A v \in Writers : v # w => tx'[v].inserted = {}
    BY <1>1, <1>7
  <2>4. \A v \in Writers : \A c, d \in tx'[v].inserted : c.sequence = d.sequence => c = d
    BY <1>6, <1>7, <2>3
  <2> QED
    BY <1>7, <2>1, <2>2, <2>3, <2>4 DEF LogInv, NoGaps
<1> QED
  BY <1>2, <1>7, <1>9

(* A transaction is committed: its rows continue the log.                  *)
LEMMA CommitKeepsLog ==
  ASSUME NEW S, NEW V, LogInv(S, V), NEW w \in Writers,
         NEW outcome \in {"done", "failed"}, Commit(w, outcome),
         "none" \in S, "none" \in V
  PROVE  /\ LogInv(S, V)' /\ rows' = rows \union tx[w].inserted
         /\ changes' = changes \union {[kind |-> tx[w].kind, subject |-> tx[w].subject,
                                        value |-> tx[w].value]}
         /\ \A v \in Writers : v # w => tx'[v] = tx[v]
         /\ tx'[w].outcome = outcome
         /\ tx[w].outcome = "open" /\ tx[w].kind \in Kinds
         /\ \A i \in 1 .. Len(Appends[tx[w].kind]) :
              \E e \in tx[w].inserted : e.type = Appends[tx[w].kind][i]
<1> DEFINE t == [kind |-> "none", subject |-> "none", value |-> "none",
                 sequence |-> 0, inserted |-> {}, outcome |-> outcome]
           n == Cardinality(rows)
           I == tx[w].inserted
           m == Cardinality(I)
<1>1. /\ tx' = [tx EXCEPT ![w] = t] /\ rows' = rows \union I
      /\ changes' = changes \union {[kind |-> tx[w].kind, subject |-> tx[w].subject,
                                     value |-> tx[w].value]}
      /\ tx[w].outcome = "open"
  <2>1. [Idle EXCEPT !.outcome = outcome] = t
    BY DEF Idle
  <2> HIDE DEF t
  <2> QED
    BY <2>1 DEF Commit, Ends, Open
<1>2. /\ t \in Transaction(S, V) /\ t.inserted = {} /\ t.sequence = 0
      /\ t.outcome = outcome
  BY DEF Transaction
<1>3. /\ n \in Nat /\ m \in Nat /\ Continues(tx[w], n) /\ IsFiniteSet(I)
      /\ I \in SUBSET Event(S) /\ rows \in SUBSET Event(S) /\ IsFiniteSet(rows)
      /\ Sequences(rows) = 1 .. n /\ Sequences(I) = (n + 1) .. (n + m)
      /\ \A c, d \in rows : c.sequence = d.sequence => c = d
      /\ \A c, d \in I : c.sequence = d.sequence => c = d
      /\ tx \in [Writers -> Transaction(S, V)]
  BY FS_CardinalityType DEF LogInv, Continues, NoGaps, Transaction
<1>4. /\ tx[w].kind \in Kinds
      /\ \A i \in 1 .. Len(Appends[tx[w].kind]) :
           \E e \in I : e.type = Appends[tx[w].kind][i]
  <2>1. tx[w].kind \in Kinds
    BY <1>1, <1>3 DEF Continues
  <2>2. Len(Appends[tx[w].kind]) \in Nat
    BY <2>1, AppendsTyped
  <2>3. Len(Appends[tx[w].kind]) <= m
    BY <1>3, <2>2 DEF Commit, Pending
  <2>4. \A i \in 1 .. m : \E e \in I : e.type = Appends[tx[w].kind][i]
    BY <1>3 DEF Continues
  <2> QED
    BY <1>3, <2>1, <2>2, <2>3, <2>4
<1> HIDE DEF t
<1>5. /\ tx' \in [Writers -> Transaction(S, V)] /\ tx'[w] = t
      /\ \A v \in Writers : v # w => tx'[v] = tx[v]
  BY <1>1, <1>2, <1>3
<1>6. \A c \in rows, d \in I : c.sequence # d.sequence
  <2>1. \A c \in rows : c.sequence \in 1 .. n
    BY <1>3 DEF Sequences
  <2>2. \A d \in I : d.sequence \in (n + 1) .. (n + m)
    BY <1>3 DEF Sequences
  <2> QED
    BY <1>3, <2>1, <2>2
<1>7. IsFiniteSet(rows \union I) /\ Cardinality(rows \union I) = n + m
  <2>1. rows \intersect I = {}
    BY <1>6
  <2>2. /\ IsFiniteSet(rows \union I)
        /\ Cardinality(rows \union I) = n + m - Cardinality(rows \intersect I)
    BY <1>3, FS_Union
  <2>3. Cardinality(rows \intersect I) = 0
    BY <2>1, FS_EmptySet
  <2> QED
    BY <1>3, <2>2, <2>3
<1>8. Sequences(rows \union I) = 1 .. (n + m)
  BY <1>3, NumbersInUse
<1>9. /\ \A c, d \in rows \union I : c.sequence = d.sequence => c = d
      /\ rows \union I \in SUBSET Event(S)
  BY <1>3, <1>6
<1>10. ASSUME NEW v \in Writers PROVE Continues(tx'[v], n + m)
  <2>1. CASE v = w
    BY <1>2, <1>3, <1>5, <2>1, IdleContinues
  <2>2. CASE v # w /\ I = {}
    <3>1. m = 0
      BY <2>2, FS_EmptySet
    <3> QED
      BY <1>3, <1>5, <2>2, <3>1 DEF LogInv
  <2>3. CASE v # w /\ I # {}
    <3>1. tx[v].inserted = {} /\ Continues(tx[v], n) /\ tx[v] \in Transaction(S, V)
      BY <2>3 DEF LogInv
    <3>2. /\ IsFiniteSet({}) /\ Cardinality({}) = 0
      BY FS_EmptySet
    <3>3. Sequences({}) = (n + m + 1) .. (n + m + 0)
      <4>1. \A s : s \notin (n + m + 1) .. (n + m + 0)
        BY <1>3
      <4>2. \A s : s \notin Sequences({})
        BY DEF Sequences
      <4> HIDE DEF Sequences
      <4> QED
        BY <4>1, <4>2
    <3>4. tx[v].sequence \in Nat
      BY <3>1 DEF Transaction
    <3>5. tx[v].sequence # 0 => /\ tx[v].sequence <= n + m + 0 + 1
                                /\ Len(Appends[tx[v].kind]) > 0
      BY <1>3, <3>1, <3>2, <3>4 DEF Continues
    <3>6. IF tx[v].outcome = "open" THEN tx[v].kind \in Kinds ELSE tx[v].sequence = 0
      BY <3>1 DEF Continues
    <3> QED
      BY <1>5, <2>3, <3>1, <3>2, <3>3, <3>5, <3>6 DEF Continues
  <2> QED
    BY <2>1, <2>2, <2>3
<1>11. LogInv(S, V)'
  <2>1. \A v \in Writers : tx'[v].inserted # {} => v # w /\ tx'[v] = tx[v]
    BY <1>2, <1>5
  <2>2. \A u, v \in Writers : tx'[u].inserted # {} /\ tx'[v].inserted # {} => u = v
    BY <2>1 DEF LogInv
  <2>3. \A v \in Writers : \A c, d \in tx'[v].inserted : c.sequence = d.sequence => c = d
    BY <2>1 DEF LogInv
  <2>4. NoGaps' /\ Cardinality(rows') = n + m
    BY <1>1, <1>7, <1>8 DEF NoGaps
  <2> QED
    BY <1>1, <1>5, <1>7, <1>9, <1>10, <2>2, <2>3, <2>4 DEF LogInv
<1> QED
  BY <1>1, <1>2, <1>4, <1>5, <1>11

-----------------------------------------------------------------------------
(* The empty log.                                                          *)
LEMMA LogInitKeepsLog ==
  ASSUME NEW S, NEW V, "none" \in S, "none" \in V, LogInit
  PROVE  LogInv(S, V)
<1> DEFINE t == [kind |-> "none", subject |-> "none", value |-> "none",
                 sequence |-> 0, inserted |-> {}, outcome |-> "none"]
<1>1. /\ tx = [w \in Writers |-> t] /\ rows = {}
  BY DEF LogInit, Idle
<1>2. /\ t \in Transaction(S, V) /\ t.inserted = {} /\ t.sequence = 0
      /\ t.outcome = "none"
  BY DEF Transaction
<1>3. IsFiniteSet({}) /\ Cardinality({}) = 0
  BY FS_EmptySet
<1>4. Continues(t, 0)
  BY <1>2, IdleContinues
<1> HIDE DEF t
<1>5. NoGaps
  <2>1. \A s : s \notin 1 .. 0
    OBVIOUS
  <2>2. \A s : s \notin Sequences(rows)
    BY <1>1 DEF Sequences
  <2> HIDE DEF Sequences
  <2> QED
    BY <1>1, <1>3, <2>1, <2>2 DEF NoGaps
<1> QED
  BY <1>1, <1>2, <1>3, <1>4, <1>5 DEF LogInv

(* What a step of the transaction of w does to the rest of the state: it   *)
(* goes on, it ends without effect, or it ends with its changes.           *)
GoesOn(w) ==
  /\ UNCHANGED changes
  /\ tx'[w].kind = tx[w].kind /\ tx'[w].subject = tx[w].subject
  /\ tx'[w].value = tx[w].value /\ tx'[w].outcome = tx[w].outcome

GivesUp(w) == Open(w) /\ UNCHANGED changes /\ tx'[w].outcome = "failed"

TakesEffect(w, outcome) ==
  /\ Open(w) /\ tx[w].kind \in Kinds
  /\ changes' = changes \union {[kind |-> tx[w].kind, subject |-> tx[w].subject,
                                 value |-> tx[w].value]}
  /\ tx'[w].outcome = outcome

(* A transaction that is under way, whatever comes of it.                  *)
LEMMA StepKeepsLog ==
  ASSUME NEW S, NEW V, LogInv(S, V), NEW w \in Writers, "none" \in S, "none" \in V,
         NEW outcome \in {"done", "failed"},
         ReadSequence(w) \/ insertEvent(w) \/ Rollback(w) \/ Commit(w, outcome)
  PROVE  /\ LogInv(S, V)'
         /\ \A v \in Writers : v # w => tx'[v] = tx[v]
         /\ GoesOn(w) \/ GivesUp(w) \/ TakesEffect(w, outcome)
<1>1. CASE ReadSequence(w)
  BY <1>1, ReadKeepsLog DEF GoesOn
<1>2. CASE insertEvent(w)
  BY <1>2, InsertKeepsLog DEF GoesOn
<1>3. CASE Rollback(w)
  <2>1. Open(w)
    BY <1>3 DEF Rollback
  <2> QED
    BY <1>3, <2>1, RollbackKeepsLog DEF GivesUp
<1>4. CASE Commit(w, outcome)
  BY <1>4, CommitKeepsLog DEF TakesEffect, Open
<1> QED
  BY <1>1, <1>2, <1>3, <1>4

-----------------------------------------------------------------------------
(* Proofs about AttemptRecords.                                            *)

Subjects == Interactions \union Artifacts \union {"run", "none"}

Values == Hosts \union {"none"}

LogTypes ==
  /\ LogInv(Subjects, Values)
  /\ changes \in SUBSET [kind : Kinds, subject : Subjects, value : Values]

NodeRecord ==
  [pc       : {"executing", "creating", "polling", "uploading", "waiting",
               "failing", "reporting", "returned"},
   answer   : Values \union {"error"},
   asked    : Interactions \union {"none"},
   uploaded : SUBSET Artifacts,
   report   : {"none", "succeed", "fail", "given up"}]

UploadRecord ==
  [pc : {"none", "put", "add", "adding", "undo", "ok", "error"},
   id : Artifacts \union {"none"}]

Types ==
  /\ LogTypes
  /\ node \in NodeRecord /\ upload \in UploadRecord
  /\ node.pc = "reporting" => node.report \in {"succeed", "fail"}
  /\ blobs \in SUBSET Artifacts
  /\ told \in [Hosts -> {"none", "accepted", "refused", "unknown"}]
  /\ faults \in 0 .. MaxFaults

Writing(w, kind) == Open(w) /\ tx[w].kind = kind

(* There is one question, and at most one answer to it is on record or     *)
(* about to be.                                                            *)
Question ==
  /\ \A c \in Done("create") \union Done("resolve") :
       c.subject = node.asked /\ node.asked # "none"
  /\ \A w \in Writers : Writing(w, "create") =>
       tx[w].subject = node.asked /\ node.asked # "none"
  /\ \A w \in Writers : Writing(w, "resolve") =>
       /\ tx[w].subject = node.asked /\ node.asked # "none"
       /\ tx[w].value = w /\ Done("resolve") = {}
       /\ \A v \in Writers : Writing(v, "resolve") => v = w
  /\ \A c, d \in Done("resolve") : c = d
  /\ \A h \in Hosts :
       /\ Open(h) => tx[h].kind = "resolve"
       /\ Committed(h) \/ told[h] = "accepted" =>
            \E c \in Done("resolve") : c.value = h
  /\ node.answer \in {"none", "error"} \union {c.value : c \in Done("resolve")}

(* Where no upload is under way.                                           *)
Quiet == {"executing", "creating", "polling", "uploading"}

(* Where the upload under way stands.                                      *)
Uploading ==
  /\ \A w \in Writers : Writing(w, "artifact") => w = "upload"
  /\ Open("upload") => /\ tx["upload"].kind = "artifact" /\ upload.pc = "adding"
                       /\ tx["upload"].subject = upload.id
  /\ node.pc \in Quiet =>
       upload.pc = "none" \/ (upload.pc = "ok" /\ upload.id \in node.uploaded)
  /\ upload.pc # "none" => upload.id \in Artifacts
  /\ upload.pc \in {"put", "add", "adding", "undo"} =>
       upload.id \notin node.uploaded
  /\ upload.pc \in {"add", "adding", "undo", "ok"} => upload.id \in blobs

(* What is on record about artifacts.                                      *)
OnRecord ==
  /\ \A k \in Artifacts : Changed("artifact", k) =>
       \/ k \in node.uploaded
       \/ k = upload.id /\ upload.pc \in {"adding", "undo", "ok", "error"}
  /\ upload.pc = "ok" \/ (upload.pc = "adding" /\ Committed("upload")) =>
       Changed("artifact", upload.id)
  /\ faults = 0 /\ (upload.pc = "undo"
                    \/ (upload.pc = "adding" /\ ~Committed("upload"))) =>
       ~Changed("artifact", upload.id)

(* Uploads, records and blobs.                                             *)
Uploads == Uploading /\ OnRecord /\ UploadedIsOpenable /\ RecordHasBlob

(* A success is on record, about to be, or to be reported again.           *)
Successful ==
  \/ node.report = "succeed" \/ Done("succeed") # {}
  \/ \E w \in Writers : Writing(w, "succeed")

(* A success is reported with all artifacts.                               *)
Ending == Successful => node.uploaded = Artifacts

RecordsInv == Types /\ Question /\ Uploads /\ Ending

-----------------------------------------------------------------------------
(* Facts the steps have in common.                                         *)

(* The names of writers and subjects.                                      *)
LEMMA Names ==
  /\ Servers \subseteq Writers /\ Hosts \subseteq Writers
  /\ \A w \in Writers : w \in Servers \/ w \in Hosts
  /\ \A h \in Hosts : h \notin Servers
  /\ "none" \in Subjects /\ "run" \in Subjects /\ "none" \in Values
  /\ "none" \notin Interactions /\ MaxFaults \in Nat
BY RecordsAssumption DEF Servers, Subjects, Values

(* What is on record after a transaction took effect.                      *)
LEMMA DoneAfter ==
  ASSUME NEW r, changes' = changes \union {r}
  PROVE  \A kind : Done(kind)' = IF r.kind = kind THEN Done(kind) \union {r}
                                                  ELSE Done(kind)
BY DEF Done

(* A transaction begins, and the rest of the store is left alone.          *)
Begins(w, kind, subject, value) ==
  /\ w \in Writers /\ kind \in Kinds
  /\ LockFree(kind, subject) /\ Admitted(kind, subject) /\ ~Open(w)
  /\ UNCHANGED changes
  /\ \A v \in Writers : v # w => tx'[v] = tx[v]
  /\ tx'[w].kind = kind /\ tx'[w].subject = subject
  /\ tx'[w].value = value /\ tx'[w].outcome = "open"

(* A transaction that is under way makes a step.                           *)
Moves(w) ==
  /\ w \in Writers
  /\ \A v \in Writers : v # w => tx'[v] = tx[v]
  /\ \/ GoesOn(w) \/ GivesUp(w) \/ TakesEffect(w, "done")
     \/ faults' # 0 /\ TakesEffect(w, "failed")

(* Begin of EventLog.                                                      *)
LEMMA BeginBegins ==
  ASSUME LogTypes, NEW w \in Writers, NEW kind \in Kinds,
         NEW subject \in Subjects, NEW value \in Values,
         Begin(w, kind, subject, value)
  PROVE  LogTypes' /\ Begins(w, kind, subject, value)
<1>1. LockFree(kind, subject) /\ Admitted(kind, subject) /\ ~Open(w)
  BY DEF Begin
<1> QED
  BY <1>1, BeginKeepsLog DEF LogTypes, Begins

(* TxStep and TxFault.                                                     *)
LEMMA StepMoves ==
  ASSUME LogTypes, NEW w \in Writers,
         \/ Proceeds(w) \/ Rollback(w)
         \/ Commit(w, "failed") /\ faults' # 0
  PROVE  LogTypes' /\ Moves(w)
<1>1. PICK outcome \in {"done", "failed"} :
        /\ ReadSequence(w) \/ insertEvent(w) \/ Rollback(w) \/ Commit(w, outcome)
        /\ outcome = "failed" => faults' # 0
  BY DEF Proceeds, Violates
<1>2. /\ LogInv(Subjects, Values)'
      /\ \A v \in Writers : v # w => tx'[v] = tx[v]
      /\ GoesOn(w) \/ GivesUp(w) \/ TakesEffect(w, outcome)
  BY <1>1, StepKeepsLog, Names DEF LogTypes
<1>3. changes' \in SUBSET [kind : Kinds, subject : Subjects, value : Values]
  <2>1. CASE UNCHANGED changes
    BY <2>1 DEF LogTypes
  <2>2. CASE TakesEffect(w, outcome)
    <3> DEFINE r == [kind |-> tx[w].kind, subject |-> tx[w].subject,
                     value |-> tx[w].value]
    <3>1. tx[w] \in Transaction(Subjects, Values)
      BY DEF LogTypes, LogInv
    <3>2. r \in [kind : Kinds, subject : Subjects, value : Values]
      BY <2>2, <3>1 DEF TakesEffect, Transaction
    <3>3. changes' = changes \union {r}
      BY <2>2 DEF TakesEffect
    <3> HIDE DEF r
    <3> QED
      BY <3>2, <3>3 DEF LogTypes
  <2> QED
    BY <1>2, <2>1, <2>2 DEF GoesOn, GivesUp
<1> QED
  BY <1>1, <1>2, <1>3 DEF LogTypes, Moves

-----------------------------------------------------------------------------
(* The question and its answer.                                            *)

(* A transaction that is under way changes nothing, or puts on record what *)
(* was admitted when it began.                                             *)
LEMMA QuestionMoves ==
  ASSUME Question, NEW w, Moves(w), UNCHANGED <<node, told>>
  PROVE  Question'
<1>1. /\ w \in Writers /\ \A v \in Writers : v # w => tx'[v] = tx[v]
      /\ \A h \in Hosts : h \in Writers
  BY Names DEF Moves
<1>2. ASSUME NEW v \in Writers, NEW kind, Writing(v, kind)'
      PROVE  /\ Writing(v, kind)
             /\ tx'[v].subject = tx[v].subject /\ tx'[v].value = tx[v].value
  BY <1>1, <1>2 DEF Moves, Writing, Open, GoesOn, GivesUp, TakesEffect
<1>3. CASE GoesOn(w) \/ GivesUp(w)
  <2>1. \A kind : Done(kind)' = Done(kind)
    BY <1>3 DEF Done, GoesOn, GivesUp
  <2>2. \A v \in Writers : \A kind : Writing(v, kind)' => Writing(v, kind)
    BY <1>2
  <2>3. \A v \in Writers : Writing(v, "create")' =>
          tx'[v].subject = node.asked /\ node.asked # "none"
    BY <1>2 DEF Question
  <2>4. ASSUME NEW v \in Writers, Writing(v, "resolve")'
        PROVE  /\ tx'[v].subject = node.asked /\ node.asked # "none"
               /\ tx'[v].value = v /\ Done("resolve")' = {}
               /\ \A u \in Writers : Writing(u, "resolve")' => u = v
    BY <1>2, <2>1, <2>2, <2>4 DEF Question
  <2>5. ASSUME NEW h \in Hosts
        PROVE  /\ Open(h)' => tx'[h].kind = "resolve"
               /\ Committed(h)' => Committed(h)
    <3>1. h # w => tx'[h] = tx[h]
      BY <1>1
    <3>2. h = w => \/ tx'[h].kind = tx[h].kind /\ tx'[h].outcome = tx[h].outcome
                   \/ tx'[h].outcome = "failed"
      BY <1>3 DEF GoesOn, GivesUp
    <3> QED
      BY <3>1, <3>2 DEF Question, Open, Committed
  <2> QED
    BY <2>1, <2>3, <2>4, <2>5 DEF Question
<1>4. ASSUME NEW outcome, TakesEffect(w, outcome), outcome \in {"done", "failed"}
      PROVE  Question'
  <2> DEFINE r == [kind |-> tx[w].kind, subject |-> tx[w].subject,
                   value |-> tx[w].value]
  <2>1. /\ changes' = changes \union {r} /\ Open(w)
        /\ tx'[w].outcome = outcome /\ Writing(w, r.kind)
        /\ r.kind = tx[w].kind /\ r.subject = tx[w].subject /\ r.value = tx[w].value
    BY <1>4 DEF TakesEffect, Writing
  <2> HIDE DEF r
  <2>2. \A kind : Done(kind)' = IF r.kind = kind THEN Done(kind) \union {r}
                                                 ELSE Done(kind)
    BY <2>1, DoneAfter
  <2>3. \A v \in Writers : \A kind : Writing(v, kind)' => v # w /\ Writing(v, kind)
    BY <1>1, <1>4, <2>1 DEF Writing, Open
  <2>4. \A c \in Done("create")' \union Done("resolve")' :
          c.subject = node.asked /\ node.asked # "none"
    <3>1. r.kind \in {"create", "resolve"} => r.subject = node.asked /\ node.asked # "none"
      BY <1>1, <2>1 DEF Question
    <3> QED
      BY <2>2, <3>1 DEF Question
  <2>5. \A v \in Writers : Writing(v, "create")' =>
          tx'[v].subject = node.asked /\ node.asked # "none"
    BY <1>1, <2>3 DEF Question
  <2>6. ASSUME NEW v \in Writers, Writing(v, "resolve")'
        PROVE  /\ tx'[v].subject = node.asked /\ node.asked # "none"
               /\ tx'[v].value = v /\ Done("resolve")' = {}
               /\ \A u \in Writers : Writing(u, "resolve")' => u = v
    <3>1. v # w /\ Writing(v, "resolve") /\ tx'[v] = tx[v]
      BY <1>1, <2>3, <2>6
    <3>2. r.kind # "resolve"
      BY <1>1, <2>1, <3>1 DEF Question
    <3> QED
      BY <2>2, <2>3, <3>1, <3>2 DEF Question
  <2>7. \A c, d \in Done("resolve")' : c = d
    <3>1. r.kind = "resolve" => Done("resolve") = {}
      BY <1>1, <2>1 DEF Question
    <3> QED
      BY <2>2, <3>1 DEF Question
  <2>8. ASSUME NEW h \in Hosts
        PROVE  /\ Open(h)' => tx'[h].kind = "resolve"
               /\ Committed(h)' \/ told[h] = "accepted" =>
                    \E c \in Done("resolve")' : c.value = h
    <3>1. CASE h = w
      <4>1. r.kind = "resolve" /\ r.value = h
        BY <1>1, <2>1, <3>1 DEF Question, Writing
      <4>2. r \in Done("resolve")'
        BY <2>2, <4>1
      <4> QED
        BY <1>4, <2>1, <3>1, <4>1, <4>2 DEF Open
    <3>2. CASE h # w
      BY <1>1, <2>2, <3>2 DEF Question, Open, Committed
    <3> QED
      BY <3>1, <3>2
  <2>9. node.answer \in {"none", "error"} \union {c.value : c \in Done("resolve")'}
    BY <2>2 DEF Question
  <2> QED
    BY <2>4, <2>5, <2>6, <2>7, <2>8, <2>9 DEF Question
<1> QED
  BY <1>3, <1>4 DEF Moves, GoesOn, GivesUp

(* A transaction begins: the first question, an answer while there is none *)
(* and nobody else has one under way, or something else.                   *)
LEMMA QuestionBegins ==
  ASSUME Question, NEW w, NEW kind, NEW subject, NEW value,
         Begins(w, kind, subject, value), UNCHANGED told,
         node'.answer = node.answer,
         \/ /\ kind \notin {"create", "resolve"} /\ w \in Servers
            /\ node'.asked = node.asked
         \/ /\ kind = "create" /\ w \in Servers
            /\ node.asked = "none" /\ node'.asked = subject /\ subject # "none"
         \/ /\ kind = "resolve" /\ w \in Hosts /\ value = w
            /\ node'.asked = node.asked
  PROVE  Question'
<1>1. /\ w \in Writers /\ \A v \in Writers : v # w => tx'[v] = tx[v]
      /\ tx'[w].kind = kind /\ tx'[w].subject = subject
      /\ tx'[w].value = value /\ tx'[w].outcome = "open"
      /\ \A h \in Hosts : h \in Writers /\ h \notin Servers
  BY Names DEF Begins
<1>2. \A k : Done(k)' = Done(k)
  BY DEF Begins, Done
<1>3. \A v \in Writers : \A k :
        Writing(v, k)' <=> (v # w /\ Writing(v, k)) \/ (v = w /\ k = kind)
  BY <1>1 DEF Writing, Open
<1>4. kind = "create" =>
        /\ Done("create") = {} /\ Done("resolve") = {}
        /\ \A v \in Writers : ~Writing(v, "create") /\ ~Writing(v, "resolve")
  BY DEF Question
<1>5. kind = "resolve" =>
        /\ subject = node.asked /\ node.asked # "none" /\ Done("resolve") = {}
        /\ \A v \in Writers : ~Writing(v, "resolve")
  <2> SUFFICES ASSUME kind = "resolve"
               PROVE  /\ subject = node.asked /\ node.asked # "none"
                      /\ Done("resolve") = {}
                      /\ \A v \in Writers : ~Writing(v, "resolve")
    OBVIOUS
  <2>1. Changed("create", subject) /\ ~Changed("resolve", subject)
    BY DEF Begins, Admitted
  <2>2. subject = node.asked /\ node.asked # "none"
    BY <2>1 DEF Changed, Question
  <2>3. Done("resolve") = {}
    BY <2>1, <2>2 DEF Changed, Question
  <2>4. ASSUME NEW v \in Writers, Writing(v, "resolve") PROVE FALSE
    <3>1. tx[v].subject = node.asked
      BY <2>4 DEF Question
    <3> QED
      BY <2>2, <2>4, <3>1 DEF Begins, LockFree, Writing
  <2> QED
    BY <2>2, <2>3, <2>4
<1>6. \A c \in Done("create")' \union Done("resolve")' :
        c.subject = node'.asked /\ node'.asked # "none"
  BY <1>2, <1>4 DEF Question
<1>7. ASSUME NEW v \in Writers, Writing(v, "create")'
      PROVE  tx'[v].subject = node'.asked /\ node'.asked # "none"
  BY <1>1, <1>3, <1>4, <1>7 DEF Question
<1>8. ASSUME NEW v \in Writers, Writing(v, "resolve")'
      PROVE  /\ tx'[v].subject = node'.asked /\ node'.asked # "none"
             /\ tx'[v].value = v /\ Done("resolve")' = {}
             /\ \A u \in Writers : Writing(u, "resolve")' => u = v
  <2>1. CASE kind = "create"
    BY <1>3, <1>4, <1>8, <2>1
  <2>2. CASE kind = "resolve"
    BY <1>1, <1>2, <1>3, <1>5, <1>8, <2>2
  <2>3. CASE kind \notin {"create", "resolve"}
    BY <1>1, <1>2, <1>3, <1>8, <2>3 DEF Question
  <2> QED
    BY <2>1, <2>2, <2>3
<1>9. ASSUME NEW h \in Hosts
      PROVE  /\ Open(h)' => tx'[h].kind = "resolve"
             /\ Committed(h)' \/ told'[h] = "accepted" =>
                  \E c \in Done("resolve")' : c.value = h
  <2>1. h = w => kind = "resolve"
    BY <1>1
  <2> QED
    BY <1>1, <1>2, <2>1 DEF Question, Open, Committed
<1>10. /\ \A c, d \in Done("resolve")' : c = d
       /\ node'.answer \in {"none", "error"} \union {c.value : c \in Done("resolve")'}
  BY <1>2 DEF Question
<1> QED
  BY <1>6, <1>7, <1>8, <1>9, <1>10 DEF Question

(* Steps of the Node and of hosts that are told something.                 *)
LEMMA QuestionStays ==
  ASSUME Question, UNCHANGED <<changes, tx>>, node'.asked = node.asked,
         node'.answer \in {node.answer, "error"}
                            \union {c.value : c \in Done("resolve")},
         \A h \in Hosts : told'[h] = "accepted" => told[h] = "accepted" \/ Committed(h)
  PROVE  Question'
<1>1. /\ \A kind : Done(kind)' = Done(kind)
      /\ \A w \in Writers : /\ Open(w)' <=> Open(w)
                            /\ Committed(w)' <=> Committed(w)
                            /\ \A kind : Writing(w, kind)' <=> Writing(w, kind)
  BY DEF Done, Open, Committed, Writing
<1>2. \A h \in Hosts : h \in Writers
  BY Names
<1> QED
  BY <1>1, <1>2 DEF Question

(* One answer follows.                                                     *)
LEMMA QuestionAnswered ==
  ASSUME Question
  PROVE  OneAnswer
BY DEF Question, OneAnswer

-----------------------------------------------------------------------------
(* Uploads, records and blobs.                                             *)

(* A step that is not about artifacts.                                     *)
LEMMA UploadsStay ==
  ASSUME Types, Uploads, UNCHANGED <<upload, blobs>>, node'.uploaded = node.uploaded,
         node'.pc \in Quiet => node.pc \in Quiet,
         faults' = 0 => faults = 0,
         tx'["upload"] = tx["upload"],
         \A k : Changed("artifact", k)' <=> Changed("artifact", k),
         \A w \in Writers : Writing(w, "artifact")' => Writing(w, "artifact")
  PROVE  Uploads'
<1>1. /\ Open("upload")' <=> Open("upload")
      /\ Committed("upload")' <=> Committed("upload")
  BY DEF Open, Committed
<1>2. Uploading'
  BY <1>1 DEF Uploads, Uploading
<1>3. OnRecord'
  BY <1>1 DEF Uploads, OnRecord
<1>4. UploadedIsOpenable' /\ RecordHasBlob'
  BY DEF Uploads, UploadedIsOpenable, RecordHasBlob, OpenArtifact
<1> QED
  BY <1>2, <1>3, <1>4 DEF Uploads

(* A transaction begins that is not about artifacts.                       *)
LEMMA UploadsBegin ==
  ASSUME Types, Uploads, UNCHANGED <<upload, blobs, faults>>,
         node'.uploaded = node.uploaded, node'.pc \in Quiet => node.pc \in Quiet,
         NEW w, NEW kind, NEW subject, NEW value, Begins(w, kind, subject, value),
         w # "upload", kind # "artifact"
  PROVE  Uploads'
<1>1. tx'["upload"] = tx["upload"]
  BY Names DEF Begins, Servers
<1>2. \A k : Changed("artifact", k)' <=> Changed("artifact", k)
  BY DEF Begins, Changed, Done
<1>3. \A v \in Writers : Writing(v, "artifact")' => Writing(v, "artifact")
  BY DEF Begins, Writing, Open
<1> QED
  BY <1>1, <1>2, <1>3, UploadsStay

(* A transaction that is under way: only that of the upload is about       *)
(* artifacts.                                                              *)
LEMMA UploadsMove ==
  ASSUME Types, Uploads, UNCHANGED <<node, upload, blobs>>,
         faults' = 0 => faults = 0, NEW w, Moves(w)
  PROVE  Uploads'
<1>1. /\ w \in Writers /\ \A v \in Writers : v # w => tx'[v] = tx[v]
      /\ "upload" \in Writers
  BY Names DEF Moves, Servers
<1>2. \A v \in Writers : Writing(v, "artifact")' => Writing(v, "artifact")
  BY <1>1 DEF Moves, Writing, Open, GoesOn, GivesUp, TakesEffect
<1>3. CASE GoesOn(w) \/ GivesUp(w)
  <2>1. \A k : Changed("artifact", k)' <=> Changed("artifact", k)
    BY <1>3 DEF GoesOn, GivesUp, Changed, Done
  <2>2. /\ Open("upload")' => /\ Open("upload") /\ tx'["upload"].kind = tx["upload"].kind
                              /\ tx'["upload"].subject = tx["upload"].subject
        /\ Committed("upload")' <=> Committed("upload")
    BY <1>1, <1>3 DEF GoesOn, GivesUp, Open, Committed
  <2>3. Uploading'
    BY <1>2, <2>2 DEF Uploads, Uploading
  <2>4. OnRecord'
    BY <2>1, <2>2 DEF Uploads, OnRecord
  <2>5. UploadedIsOpenable' /\ RecordHasBlob'
    BY <2>1 DEF Uploads, UploadedIsOpenable, RecordHasBlob, OpenArtifact
  <2> QED
    BY <2>3, <2>4, <2>5 DEF Uploads
<1>4. ASSUME NEW outcome \in {"done", "failed"}, TakesEffect(w, outcome),
             outcome = "failed" => faults' # 0
      PROVE  Uploads'
  <2> DEFINE r == [kind |-> tx[w].kind, subject |-> tx[w].subject,
                   value |-> tx[w].value]
  <2>1. /\ changes' = changes \union {r} /\ Open(w) /\ Writing(w, r.kind)
        /\ tx'[w].outcome = outcome
        /\ r.kind = tx[w].kind /\ r.subject = tx[w].subject
    BY <1>4 DEF TakesEffect, Writing
  <2> HIDE DEF r
  <2>2. Done("artifact")' = IF r.kind = "artifact" THEN Done("artifact") \union {r}
                                                   ELSE Done("artifact")
    BY <2>1, DoneAfter
  <2>3. CASE w # "upload"
    <3>1. r.kind # "artifact"
      BY <1>1, <2>1, <2>3 DEF Uploads, Uploading
    <3>2. \A k : Changed("artifact", k)' <=> Changed("artifact", k)
      BY <2>2, <3>1 DEF Changed
    <3>3. tx'["upload"] = tx["upload"]
      BY <1>1, <2>3
    <3> QED
      BY <1>2, <3>2, <3>3, UploadsStay
  <2>4. CASE w = "upload"
    <3>1. r.kind = "artifact" /\ r.subject = upload.id /\ upload.pc = "adding"
      BY <2>1, <2>4 DEF Uploads, Uploading
    <3>2. \A k : Changed("artifact", k)' <=> Changed("artifact", k) \/ k = upload.id
      BY <2>2, <3>1 DEF Changed
    <3>3. Committed("upload")' <=> outcome = "done"
      BY <1>4, <2>1, <2>4 DEF Committed
    <3>4. ~Open("upload")'
      BY <1>4, <2>1, <2>4 DEF Open
    <3>5. Uploading'
      BY <1>2, <3>4 DEF Uploads, Uploading
    <3>6. OnRecord'
      BY <1>4, <3>1, <3>2, <3>3, <3>4 DEF Uploads, OnRecord
    <3>7. UploadedIsOpenable' /\ RecordHasBlob'
      BY <3>1, <3>2 DEF Uploads, UploadedIsOpenable, RecordHasBlob, OpenArtifact,
                        Uploading
    <3> QED
      BY <3>5, <3>6, <3>7 DEF Uploads
  <2> QED
    BY <2>3, <2>4
<1> QED
  BY <1>3, <1>4 DEF Moves

(* The fields of the upload.                                               *)
LEMMA UploadTyped ==
  ASSUME Types
  PROVE  /\ upload \in UploadRecord
         /\ faults \in Nat /\ blobs \subseteq Artifacts
         /\ node.uploaded \subseteq Artifacts
<1>1. node.uploaded \subseteq Artifacts
  BY DEF Types, NodeRecord
<1>2. faults \in Nat
  <2>1. MaxFaults \in Nat /\ faults \in 0 .. MaxFaults
    BY RecordsAssumption DEF Types
  <2> QED
    BY <2>1
<1> QED
  BY <1>1, <1>2 DEF Types

(* The Node calls UploadArtifact.                                          *)
LEMMA UploadCalled ==
  ASSUME Types, Uploads, NEW k \in Artifacts, UploadCall(k)
  PROVE  Uploads'
<1>1. /\ upload'.pc = "put" /\ upload'.id = k /\ k \notin node.uploaded
      /\ UNCHANGED <<changes, tx, blobs, faults>>
      /\ node.pc \in Quiet
  BY DEF UploadCall, logVars, Quiet
<1>2. node'.pc = "waiting" /\ node'.uploaded = node.uploaded
  BY DEF UploadCall, Types, NodeRecord
<1>3. /\ \A j : Changed("artifact", j)' <=> Changed("artifact", j)
      /\ Open("upload")' <=> Open("upload")
      /\ \A w \in Writers : Writing(w, "artifact")' <=> Writing(w, "artifact")
  BY <1>1 DEF Changed, Done, Open, Writing
<1>4. upload.pc = "none" \/ (upload.pc = "ok" /\ upload.id \in node.uploaded)
  BY <1>1 DEF Uploads, Uploading
<1>5. Uploading'
  BY <1>1, <1>2, <1>3, <1>4 DEF Uploads, Uploading, Quiet
<1>6. OnRecord'
  BY <1>1, <1>2, <1>3, <1>4 DEF Uploads, OnRecord
<1>7. UploadedIsOpenable' /\ RecordHasBlob'
  BY <1>1, <1>2, <1>3 DEF Uploads, UploadedIsOpenable, RecordHasBlob, OpenArtifact
<1> QED
  BY <1>5, <1>6, <1>7 DEF Uploads

(* The handler: blobs.Put, the record, and blobs.Delete when it was refused. *)
LEMMA UploadHandled ==
  ASSUME Types, Uploads, Put \/ Added \/ Undo
  PROVE  Uploads'
<1>1. /\ UNCHANGED <<changes, tx, node>> /\ upload'.id = upload.id
      /\ faults' = 0 => faults = 0
  BY UploadTyped DEF Put, Added, Undo, logVars, Fault, UploadRecord
<1>2. /\ \A j : Changed("artifact", j)' <=> Changed("artifact", j)
      /\ Open("upload")' <=> Open("upload")
      /\ Committed("upload")' <=> Committed("upload")
      /\ \A w \in Writers : Writing(w, "artifact")' <=> Writing(w, "artifact")
  BY <1>1 DEF Changed, Done, Open, Committed, Writing
<1>3. Put => /\ upload.pc = "put"
             /\ \/ upload'.pc = "add" /\ blobs' = blobs \union {upload.id}
                \/ upload'.pc = "error" /\ blobs' = blobs
  BY UploadTyped DEF Put, UploadRecord
<1>4. Added => /\ upload.pc = "adding" /\ blobs' = blobs /\ ~Open("upload")
               /\ faults' = faults
               /\ \/ upload'.pc = "ok" /\ Committed("upload")
                  \/ upload'.pc = "undo" /\ ~Committed("upload")
  BY UploadTyped DEF Added, Committed, Failed, Open, UploadRecord
<1>5. Undo => /\ upload.pc = "undo" /\ upload'.pc = "error"
              /\ \/ blobs' = blobs \ {upload.id} /\ faults' = faults
                 \/ blobs' = blobs
  BY UploadTyped DEF Undo, UploadRecord
<1>6. Uploading'
  BY <1>1, <1>2, <1>3, <1>4, <1>5 DEF Uploads, Uploading
<1>7. OnRecord'
  <2>1. upload.pc \in {"put", "undo"} => upload.id \notin node.uploaded
    BY DEF Uploads, Uploading
  <2> QED
    BY <1>1, <1>2, <1>3, <1>4, <1>5, <2>1 DEF Uploads, OnRecord
<1>8. UploadedIsOpenable'
  <2>1. \A k \in node.uploaded : k \in blobs => k \in blobs'
    BY <1>3, <1>4, <1>5 DEF Uploads, Uploading
  <2> QED
    BY <1>1, <1>2, <2>1 DEF Uploads, UploadedIsOpenable, OpenArtifact
<1>9. RecordHasBlob'
  <2>1. CASE Put \/ Added
    BY <1>1, <1>2, <1>3, <1>4, <2>1 DEF Uploads, RecordHasBlob
  <2>2. CASE Undo
    BY <1>1, <1>2, <1>5, <2>2 DEF Uploads, RecordHasBlob, OnRecord
  <2> QED
    BY <2>1, <2>2
<1> QED
  BY <1>6, <1>7, <1>8, <1>9 DEF Uploads

(* storage.AddArtifact begins, or is refused.                              *)
LEMMA RecordBegun ==
  ASSUME Types, Uploads, upload.pc = "add", upload'.id = upload.id,
         UNCHANGED <<node, blobs, faults>>,
         \/ /\ Begins("upload", "artifact", upload.id, "none")
            /\ upload'.pc = "adding"
         \/ UNCHANGED <<changes, tx>> /\ upload'.pc = "undo"
  PROVE  Uploads'
<1>1. \A j : Changed("artifact", j)' <=> Changed("artifact", j)
  BY DEF Changed, Done, Begins
<1>2. ~Open("upload")
  BY DEF Uploads, Uploading
<1>3. ~Changed("artifact", upload.id)
  BY DEF Uploads, Uploading, OnRecord
<1>4. /\ Open("upload")' => /\ tx'["upload"].kind = "artifact"
                            /\ tx'["upload"].subject = upload.id
                            /\ upload'.pc = "adding"
      /\ upload'.pc = "adding" => ~Committed("upload")'
      /\ \A w \in Writers : Writing(w, "artifact")' => w = "upload"
  <2>1. \A w \in Writers : w # "upload" => tx'[w] = tx[w]
    BY DEF Begins
  <2>2. \A w \in Writers : Writing(w, "artifact")' => w = "upload"
    <3>1. \A w \in Writers : w # "upload" => ~Writing(w, "artifact")
      BY DEF Uploads, Uploading
    <3> QED
      BY <2>1, <3>1 DEF Writing, Open
  <2>3. CASE UNCHANGED tx /\ upload'.pc = "undo"
    BY <1>2, <2>2, <2>3 DEF Open
  <2>4. CASE Begins("upload", "artifact", upload.id, "none") /\ upload'.pc = "adding"
    BY <2>2, <2>4 DEF Begins, Committed
  <2> QED
    BY <2>3, <2>4
<1>5. upload'.pc \in {"adding", "undo"}
  OBVIOUS
<1>6. Uploading'
  BY <1>4, <1>5 DEF Uploads, Uploading, Quiet
<1>7. OnRecord'
  BY <1>1, <1>3, <1>4, <1>5 DEF Uploads, OnRecord
<1>8. UploadedIsOpenable' /\ RecordHasBlob'
  BY <1>1 DEF Uploads, UploadedIsOpenable, RecordHasBlob, OpenArtifact
<1> QED
  BY <1>6, <1>7, <1>8 DEF Uploads

(* The server stops: the handler is gone, and its transaction with it.     *)
LEMMA UploadCrashes ==
  ASSUME Types, Uploads, upload.pc \in {"put", "add", "adding", "undo"},
         upload'.pc = "error", upload'.id = upload.id, faults' # 0,
         UNCHANGED <<node, blobs, changes>>,
         \A w \in Writers : w # "upload" => tx'[w] = tx[w],
         tx'["upload"].outcome # "open"
  PROVE  Uploads'
<1>1. \A j : Changed("artifact", j)' <=> Changed("artifact", j)
  BY DEF Changed, Done
<1>2. /\ ~Open("upload")'
      /\ \A w \in Writers : Writing(w, "artifact")' => w = "upload"
  BY DEF Uploads, Uploading, Open, Writing
<1>3. Uploading'
  BY <1>2 DEF Uploads, Uploading, Quiet
<1>4. OnRecord'
  BY <1>1 DEF Uploads, OnRecord
<1>5. UploadedIsOpenable' /\ RecordHasBlob'
  BY <1>1 DEF Uploads, UploadedIsOpenable, RecordHasBlob, OpenArtifact
<1> QED
  BY <1>3, <1>4, <1>5 DEF Uploads

(* The Node learns how the upload ended, or waits no longer.               *)
LEMMA UploadReturned ==
  ASSUME Types, Uploads, UploadReturns
  PROVE  Uploads'
<1>1. UNCHANGED <<changes, tx, upload, blobs>> /\ faults \in Nat
  BY UploadTyped DEF UploadReturns, logVars
<1>2. \/ /\ upload.pc = "ok" /\ faults' = faults /\ node'.pc = "uploading"
         /\ node'.uploaded = node.uploaded \union {upload.id}
      \/ node'.pc = "failing" /\ node'.uploaded = node.uploaded
  BY DEF UploadReturns, Types, NodeRecord
<1>3. /\ \A j : Changed("artifact", j)' <=> Changed("artifact", j)
      /\ Open("upload")' <=> Open("upload")
      /\ Committed("upload")' <=> Committed("upload")
      /\ \A w \in Writers : Writing(w, "artifact")' <=> Writing(w, "artifact")
  BY <1>1 DEF Changed, Done, Open, Committed, Writing
<1>4. faults' = 0 => faults = 0
  BY <1>1 DEF UploadReturns, Fault
<1>5. Uploading'
  BY <1>1, <1>2, <1>3 DEF Uploads, Uploading, Quiet
<1>6. OnRecord'
  BY <1>1, <1>2, <1>3, <1>4 DEF Uploads, OnRecord
<1>7. UploadedIsOpenable'
  BY <1>1, <1>2, <1>3 DEF Uploads, UploadedIsOpenable, OpenArtifact, Uploading, OnRecord
<1>8. RecordHasBlob'
  BY <1>1, <1>3, <1>4 DEF Uploads, RecordHasBlob
<1> QED
  BY <1>5, <1>6, <1>7, <1>8 DEF Uploads

-----------------------------------------------------------------------------
(* A success is reported with all artifacts.                               *)

(* No step takes anything from what was uploaded, and a transaction that   *)
(* records a success began with everything uploaded.                       *)
LEMMA EndingStays ==
  ASSUME Types, Ending, node.uploaded \subseteq node'.uploaded,
         node'.uploaded \subseteq Artifacts,
         Successful' => Successful \/ node'.uploaded = Artifacts
  PROVE  Ending'
BY DEF Ending, Successful

(* Steps that leave the store alone.                                       *)
LEMMA EndingUnmoved ==
  ASSUME Types, Ending, UNCHANGED <<changes, tx>>,
         node.uploaded \subseteq node'.uploaded, node'.uploaded \subseteq Artifacts,
         node'.report # "succeed" \/ node.report = "succeed"
  PROVE  Ending'
<1>1. Successful' => Successful
  BY DEF Successful, Done, Writing, Open
<1> QED
  BY <1>1, EndingStays

(* A transaction begins.                                                   *)
LEMMA EndingBegins ==
  ASSUME Types, Ending, NEW w, NEW kind, NEW subject, NEW value,
         Begins(w, kind, subject, value), node'.uploaded = node.uploaded,
         kind = "succeed" => node.report = "succeed" \/ node.uploaded = Artifacts,
         node'.report # "succeed" \/ node.report = "succeed" \/ kind = "succeed"
  PROVE  Ending'
<1>1. Done("succeed")' = Done("succeed")
  BY DEF Begins, Done
<1>2. \A v \in Writers : Writing(v, "succeed")' => Writing(v, "succeed") \/ kind = "succeed"
  BY DEF Begins, Writing, Open
<1>3. Successful' => Successful \/ node'.uploaded = Artifacts
  BY <1>1, <1>2 DEF Successful
<1> QED
  BY <1>3, EndingStays, UploadTyped

(* A transaction that is under way.                                        *)
LEMMA EndingMoves ==
  ASSUME Types, Ending, NEW w, Moves(w), UNCHANGED node
  PROVE  Ending'
<1>1. \A v \in Writers : Writing(v, "succeed")' => Writing(v, "succeed")
  BY DEF Moves, Writing, Open, GoesOn, GivesUp, TakesEffect
<1>2. Done("succeed")' # {} => Successful
  <2>1. CASE UNCHANGED changes
    BY <2>1 DEF Done, Successful
  <2>2. ASSUME NEW outcome, TakesEffect(w, outcome)
        PROVE  Done("succeed")' # {} => Successful
    <3> DEFINE r == [kind |-> tx[w].kind, subject |-> tx[w].subject,
                     value |-> tx[w].value]
    <3>1. /\ changes' = changes \union {r} /\ r.kind = tx[w].kind
          /\ w \in Writers /\ Open(w)
      BY <2>2 DEF TakesEffect, Moves
    <3> HIDE DEF r
    <3>2. Done("succeed")' # {} => Done("succeed") # {} \/ r.kind = "succeed"
      BY <3>1, DoneAfter
    <3> QED
      BY <3>1, <3>2 DEF Successful, Writing
  <2> QED
    BY <2>1, <2>2 DEF Moves, GoesOn, GivesUp
<1>3. Successful' => Successful
  BY <1>1, <1>2 DEF Successful
<1> QED
  BY <1>3, EndingStays, UploadTyped

-----------------------------------------------------------------------------
(* The steps.                                                              *)

(* The bound on faults, and the log when a step leaves it alone.           *)
LEMMA FaultTyped ==
  ASSUME Types, UNCHANGED faults \/ Fault
  PROVE  /\ faults' \in 0 .. MaxFaults
         /\ faults' = 0 => faults = 0
         /\ Fault => faults' # 0
<1>1. MaxFaults \in Nat /\ faults \in 0 .. MaxFaults
  BY RecordsAssumption DEF Types
<1> QED
  BY <1>1 DEF Fault

(* The log when a step leaves it alone.                                    *)
LEMMA LogTypesStay ==
  ASSUME LogTypes, UNCHANGED logVars
  PROVE  LogTypes' /\ UNCHANGED <<rows, changes, tx>>
<1>1. UNCHANGED <<rows, changes, tx>>
  BY DEF logVars
<1> QED
  BY <1>1 DEF LogTypes, LogInv, NoGaps

(* A transaction makes a step, with or without a fault.                    *)
LEMMA TxSteps ==
  ASSUME RecordsInv, NEW w \in Writers, TxStep(w) \/ TxFault(w)
  PROVE  RecordsInv'
<1>1. UNCHANGED <<node, upload, blobs, told>> /\ (UNCHANGED faults \/ Fault)
  BY DEF TxStep, TxFault, recordVars
<1>2. /\ faults' \in 0 .. MaxFaults /\ Types
      /\ faults' = 0 => faults = 0
  BY <1>1, FaultTyped DEF RecordsInv
<1>3. LogTypes' /\ Moves(w)
  <2>1. \/ Proceeds(w) \/ Rollback(w)
        \/ Commit(w, "failed") /\ faults' # 0
    BY <1>1, <1>2, FaultTyped DEF TxStep, TxFault
  <2> QED
    BY <1>2, <2>1, StepMoves DEF Types
<1>4. Types'
  BY <1>1, <1>2, <1>3 DEF Types
<1> QED
  BY <1>1, <1>2, <1>3, <1>4, QuestionMoves, UploadsMove, EndingMoves DEF RecordsInv

(* A transaction begins that is not an upload.                             *)
LEMMA BeginSteps ==
  ASSUME RecordsInv,
         \/ \E i \in Interactions : Request(i)
         \/ \E h \in Hosts, i \in Interactions : Resolve(h, i)
         \/ Report \/ ReportAgain \/ Reconcile
  PROVE  RecordsInv'
<1>1. /\ Types /\ Question /\ Uploads /\ Ending /\ LogTypes /\ node \in NodeRecord
      /\ node.pc = "reporting" => node.report \in {"succeed", "fail"}
  BY DEF RecordsInv, Types
<1>2. ASSUME NEW w \in Writers, NEW kind \in Kinds, NEW subject \in Subjects,
             NEW value \in Values, Begin(w, kind, subject, value),
             UNCHANGED <<upload, blobs, told, faults>>,
             node' \in NodeRecord, node'.answer = node.answer,
             node'.pc = "reporting" => node'.report \in {"succeed", "fail"},
             node'.uploaded = node.uploaded, node'.pc \in Quiet => node.pc \in Quiet,
             \/ /\ kind \notin {"create", "resolve"} /\ w \in Servers
                /\ node'.asked = node.asked
             \/ /\ kind = "create" /\ w \in Servers
                /\ node.asked = "none" /\ node'.asked = subject /\ subject # "none"
             \/ /\ kind = "resolve" /\ w \in Hosts /\ value = w
                /\ node'.asked = node.asked,
             w # "upload", kind # "artifact",
             kind = "succeed" => node.report = "succeed" \/ node.uploaded = Artifacts,
             node'.report # "succeed" \/ node.report = "succeed" \/ kind = "succeed"
      PROVE  RecordsInv'
  <2>1. LogTypes' /\ Begins(w, kind, subject, value)
    BY <1>1, <1>2, BeginBegins
  <2>2. Types'
    BY <1>1, <1>2, <2>1 DEF Types
  <2>3. Question'
    BY <1>1, <1>2, <2>1, QuestionBegins
  <2>4. Uploads'
    BY <1>1, <1>2, <2>1, UploadsBegin
  <2>5. Ending'
    BY <1>1, <1>2, <2>1, EndingBegins
  <2> QED
    BY <2>2, <2>3, <2>4, <2>5 DEF RecordsInv
<1>3. /\ {"broker", "report", "reconciler"} \subseteq Writers
      /\ {"broker", "report", "reconciler"} \subseteq Servers
      /\ "none" \in Values /\ "run" \in Subjects
      /\ {"create", "resolve", "succeed", "fail"} \subseteq Kinds
      /\ "none" \notin Interactions
  BY Names, KindsAre DEF Servers
<1>4. ASSUME NEW i \in Interactions, Request(i) PROVE RecordsInv'
  <2>1. /\ node.pc = "executing" /\ node.asked = "none"
        /\ Begin("broker", "create", i, "none")
        /\ node' = [node EXCEPT !.pc = "creating", !.asked = i]
        /\ UNCHANGED <<upload, blobs, told, faults>>
    BY <1>4 DEF Request
  <2>2. /\ node' \in NodeRecord /\ node'.asked = i /\ node'.pc = "creating"
        /\ node'.answer = node.answer /\ node'.uploaded = node.uploaded
        /\ node'.report = node.report
    BY <1>1, <2>1 DEF NodeRecord
  <2>3. i \in Subjects /\ i # "none" /\ "executing" \in Quiet
    BY <1>3 DEF Subjects, Quiet
  <2> QED
    BY <1>2, <1>3, <2>1, <2>2, <2>3
<1>5. ASSUME NEW h \in Hosts, NEW i \in Interactions, Resolve(h, i)
      PROVE  RecordsInv'
  <2>1. Begin(h, "resolve", i, h) /\ UNCHANGED <<node, upload, blobs, told, faults>>
    BY <1>5 DEF Resolve, recordVars
  <2>2. /\ h \in Writers /\ h \in Values /\ i \in Subjects
        /\ h # "upload"
    BY Names DEF Values, Subjects, Servers
  <2> QED
    BY <1>1, <1>2, <1>3, <2>1, <2>2
<1>6. CASE Report
  <2>1. /\ node' = [node EXCEPT !.pc = "reporting", !.report = Outcome]
        /\ Begin("report", Outcome, "run", "none")
        /\ UNCHANGED <<upload, blobs, told, faults>>
        /\ Outcome \in {"succeed", "fail"}
        /\ Outcome = "succeed" => node.uploaded = Artifacts
    BY <1>6 DEF Report, Ready, Outcome
  <2>2. PICK o : o = Outcome
    OBVIOUS
  <2>3. /\ node' \in NodeRecord /\ node'.asked = node.asked /\ node'.pc = "reporting"
        /\ node'.answer = node.answer /\ node'.uploaded = node.uploaded
        /\ node'.report = o
    BY <1>1, <2>1, <2>2 DEF NodeRecord
  <2>4. "reporting" \notin Quiet
    BY DEF Quiet
  <2> QED
    BY <1>2, <1>3, <2>1, <2>2, <2>3, <2>4
<1>7. CASE ReportAgain
  <2>1. /\ Begin("report", node.report, "run", "none") /\ node.pc = "reporting"
        /\ UNCHANGED <<node, upload, blobs, told, faults>>
    BY <1>7 DEF ReportAgain, recordVars
  <2>2. PICK o : o = node.report
    OBVIOUS
  <2>3. o \in {"succeed", "fail"}
    BY <1>1, <2>1, <2>2
  <2> QED
    BY <1>1, <1>2, <1>3, <2>1, <2>2, <2>3
<1>8. CASE Reconcile
  <2>1. /\ Begin("reconciler", "fail", "run", "none")
        /\ UNCHANGED <<node, upload, blobs, told, faults>>
    BY <1>8 DEF Reconcile, recordVars
  <2> QED
    BY <1>1, <1>2, <1>3, <2>1
<1> QED
  BY <1>4, <1>5, <1>6, <1>7, <1>8

(* Steps of the Node that leave the store and the upload alone.            *)
LEMMA NodeSteps ==
  ASSUME RecordsInv,
         \/ Created \/ RequestStopped \/ RequestFails
         \/ ExecuteReturns \/ ReportReturns
         \/ ReportTimesOut \/ \E i \in Interactions : Poll(i)
  PROVE  RecordsInv'
<1>1. /\ Types /\ Question /\ Uploads /\ Ending /\ LogTypes /\ node \in NodeRecord
      /\ node.pc = "reporting" => node.report \in {"succeed", "fail"}
      /\ changes \in SUBSET [kind : Kinds, subject : Subjects, value : Values]
  BY DEF RecordsInv, Types, LogTypes
<1>2. /\ UNCHANGED <<logVars, upload, blobs, told>> /\ (UNCHANGED faults \/ Fault)
  BY DEF Created, RequestStopped, RequestFails, ExecuteReturns, ReportReturns,
         ReportTimesOut, Poll
<1>3. \/ \E pc \in {"polling", "uploading", "failing", "returned"} :
           /\ node' = [node EXCEPT !.pc = pc]
           /\ pc \in Quiet => node.pc \in Quiet
      \/ \E value \in {"error"} \union {c.value : c \in Done("resolve")} :
           /\ node' = [node EXCEPT !.pc = "executing", !.answer = value]
           /\ node.pc \in Quiet
      \/ node' = [node EXCEPT !.pc = "returned", !.report = "given up"]
  <2>1. CASE Created
    BY <2>1 DEF Created, Answer, Quiet
  <2>2. CASE RequestStopped \/ RequestFails
    BY <2>2 DEF RequestStopped, RequestFails, Answer, Quiet
  <2>3. CASE ExecuteReturns
    BY <2>3 DEF ExecuteReturns, Quiet
  <2>4. CASE ReportReturns
    BY <2>4 DEF ReportReturns, Quiet
  <2>5. CASE ReportTimesOut
    BY <2>5 DEF ReportTimesOut
  <2>6. ASSUME NEW i \in Interactions, Poll(i)
        PROVE  \E value \in {c.value : c \in Done("resolve")} :
                 /\ node' = [node EXCEPT !.pc = "executing", !.answer = value]
                 /\ node.pc \in Quiet
    <3>1. PICK c \in Done("resolve") :
            node' = [node EXCEPT !.pc = "executing", !.answer = c.value]
      BY <2>6 DEF Poll, Answer
    <3>2. PICK value : value = c.value
      OBVIOUS
    <3>3. /\ node' = [node EXCEPT !.pc = "executing", !.answer = value]
          /\ value \in {d.value : d \in Done("resolve")}
      BY <3>1, <3>2
    <3>4. node.pc \in Quiet
      BY <2>6 DEF Poll, Quiet
    <3> QED
      BY <3>3, <3>4
  <2> QED
    BY <2>1, <2>2, <2>3, <2>4, <2>5, <2>6
<1>4. \A value \in {"error"} \union {c.value : c \in Done("resolve")} :
        value \in Values \union {"error"}
  BY <1>1 DEF Done
<1> DEFINE Kept ==
             /\ node' \in NodeRecord /\ node'.asked = node.asked
             /\ node'.uploaded = node.uploaded
             /\ node'.pc # "reporting"
             /\ node'.pc \in Quiet => node.pc \in Quiet
             /\ node'.answer \in {node.answer, "error"}
                                    \union {c.value : c \in Done("resolve")}
             /\ node'.report # "succeed" \/ node.report = "succeed"
<1>5. Kept
  <2>1. ASSUME NEW pc \in {"polling", "uploading", "failing", "returned"},
               node' = [node EXCEPT !.pc = pc], pc \in Quiet => node.pc \in Quiet
        PROVE  Kept
    BY <1>1, <2>1 DEF NodeRecord
  <2>2. ASSUME NEW value \in Values \union {"error"},
               value \in {"error"} \union {c.value : c \in Done("resolve")},
               node' = [node EXCEPT !.pc = "executing", !.answer = value],
               node.pc \in Quiet
        PROVE  Kept
    BY <1>1, <2>2 DEF NodeRecord
  <2>3. ASSUME node' = [node EXCEPT !.pc = "returned", !.report = "given up"]
        PROVE  Kept
    BY <1>1, <2>3 DEF NodeRecord, Quiet
  <2> HIDE DEF Kept
  <2> QED
    BY <1>3, <1>4, <2>1, <2>2, <2>3
<1>6. /\ LogTypes' /\ UNCHANGED <<rows, changes, tx>>
      /\ faults' \in 0 .. MaxFaults
      /\ faults' = 0 => faults = 0
  BY <1>1, <1>2, FaultTyped, LogTypesStay
<1>7. Types'
  BY <1>1, <1>2, <1>5, <1>6 DEF Types
<1>8. Question'
  BY <1>1, <1>2, <1>5, <1>6, QuestionStays
<1>9. Uploads'
  <2>1. /\ \A k : Changed("artifact", k)' <=> Changed("artifact", k)
        /\ \A w \in Writers : Writing(w, "artifact")' => Writing(w, "artifact")
    BY <1>6 DEF Changed, Done, Writing, Open
  <2> QED
    BY <1>1, <1>2, <1>5, <1>6, <2>1, UploadsStay
<1>10. Ending'
  BY <1>1, <1>5, <1>6, EndingUnmoved, UploadTyped
<1> QED
  BY <1>7, <1>8, <1>9, <1>10 DEF RecordsInv

(* A host is told what became of its answer.                               *)
LEMMA HostSteps ==
  ASSUME RecordsInv, NEW h \in Hosts,
         Resolved(h) \/ \E i \in Interactions : ResolveRefused(h, i)
  PROVE  RecordsInv'
<1>1. /\ Types /\ Question /\ Uploads /\ Ending /\ LogTypes
      /\ told \in [Hosts -> {"none", "accepted", "refused", "unknown"}]
  BY DEF RecordsInv, Types
<1>2. /\ UNCHANGED <<logVars, node, upload, blobs>> /\ (UNCHANGED faults \/ Fault)
      /\ \E a \in {"accepted", "unknown", "refused"} :
           told' = [told EXCEPT ![h] = a] /\ (a = "accepted" => Committed(h))
  BY DEF Resolved, ResolveRefused
<1>3. /\ LogTypes' /\ UNCHANGED <<rows, changes, tx>>
      /\ faults' \in 0 .. MaxFaults
      /\ faults' = 0 => faults = 0
  BY <1>1, <1>2, FaultTyped, LogTypesStay
<1>4. /\ told' \in [Hosts -> {"none", "accepted", "refused", "unknown"}]
      /\ \A g \in Hosts : told'[g] = "accepted" => told[g] = "accepted" \/ Committed(g)
  BY <1>1, <1>2
<1>5. Types'
  BY <1>1, <1>2, <1>3, <1>4 DEF Types
<1>6. Question'
  BY <1>1, <1>2, <1>3, <1>4, QuestionStays
<1>7. Uploads'
  <2>1. /\ \A k : Changed("artifact", k)' <=> Changed("artifact", k)
        /\ \A w \in Writers : Writing(w, "artifact")' => Writing(w, "artifact")
    BY <1>3 DEF Changed, Done, Writing, Open
  <2> QED
    BY <1>1, <1>2, <1>3, <2>1, UploadsStay
<1>8. Ending'
  BY <1>1, <1>2, <1>3, EndingUnmoved, UploadTyped
<1> QED
  BY <1>5, <1>6, <1>7, <1>8 DEF RecordsInv

(* The upload, from the call of the Node to its answer.                    *)
LEMMA UploadSteps ==
  ASSUME RecordsInv,
         \/ \E k \in Artifacts : UploadCall(k)
         \/ UploadStep \/ ServerCrash \/ UploadReturns
  PROVE  RecordsInv'
<1>1. /\ Types /\ Question /\ Uploads /\ Ending /\ LogTypes
      /\ node \in NodeRecord /\ upload \in UploadRecord
      /\ blobs \in SUBSET Artifacts
      /\ node.pc = "reporting" => node.report \in {"succeed", "fail"}
      /\ upload.pc # "none" => upload.id \in Artifacts
  BY DEF RecordsInv, Types, Uploads, Uploading
<1>2. /\ UNCHANGED told /\ (UNCHANGED faults \/ Fault)
  BY DEF UploadCall, UploadStep, Put, AddArtifact, Added, Undo, ServerCrash, UploadReturns
<1>3. /\ faults' \in 0 .. MaxFaults
      /\ faults' = 0 => faults = 0
  BY <1>1, <1>2, FaultTyped
<1>4. ASSUME UNCHANGED logVars, Uploads', node' \in NodeRecord, upload' \in UploadRecord,
             blobs' \in SUBSET Artifacts, node'.asked = node.asked,
             node'.answer = node.answer, node'.report = node.report,
             node'.pc = "reporting" => node.pc = "reporting",
             node.uploaded \subseteq node'.uploaded
      PROVE  RecordsInv'
  <2>1. LogTypes' /\ UNCHANGED <<rows, changes, tx>>
    BY <1>1, <1>4, LogTypesStay
  <2>2. Types'
    BY <1>1, <1>2, <1>3, <1>4, <2>1 DEF Types
  <2>3. Question'
    BY <1>1, <1>2, <1>4, <2>1, QuestionStays
  <2>4. node'.uploaded \subseteq Artifacts
    BY <1>4 DEF NodeRecord
  <2>5. Ending'
    BY <1>1, <1>4, <2>1, <2>4, EndingUnmoved
  <2> QED
    BY <1>4, <2>2, <2>3, <2>5 DEF RecordsInv
<1>5. ASSUME NEW k \in Artifacts, UploadCall(k) PROVE RecordsInv'
  <2>1. /\ UNCHANGED <<logVars, blobs>> /\ upload' = [pc |-> "put", id |-> k]
        /\ node' = [node EXCEPT !.pc = "waiting"]
    BY <1>5 DEF UploadCall
  <2>2. upload' \in UploadRecord
    BY <2>1 DEF UploadRecord
  <2>3. /\ node' \in NodeRecord /\ node'.asked = node.asked
        /\ node'.answer = node.answer /\ node'.report = node.report
        /\ node'.pc # "reporting" /\ node'.uploaded = node.uploaded
    BY <1>1, <2>1 DEF NodeRecord
  <2>4. Uploads'
    BY <1>1, <1>5, UploadCalled
  <2> QED
    BY <1>1, <1>4, <2>1, <2>2, <2>3, <2>4
<1>6. CASE Put \/ Added \/ Undo
  <2>1. /\ UNCHANGED <<logVars, node>> /\ upload.pc # "none"
        /\ \E pc \in {"add", "error", "ok", "undo"} : upload' = [upload EXCEPT !.pc = pc]
        /\ \/ blobs' = blobs \union {upload.id} \/ blobs' = blobs
           \/ blobs' = blobs \ {upload.id}
    BY <1>6 DEF Put, Added, Undo
  <2>2. upload' \in UploadRecord
    BY <1>1, <2>1 DEF UploadRecord
  <2>3. blobs' \in SUBSET Artifacts
    BY <1>1, <2>1
  <2>4. Uploads'
    BY <1>1, <1>6, UploadHandled
  <2> QED
    BY <1>1, <1>4, <2>1, <2>2, <2>3, <2>4
<1>7. CASE UploadReturns
  <2>1. /\ UNCHANGED <<logVars, upload, blobs>>
        /\ \/ /\ upload.pc = "ok"
              /\ node' = [node EXCEPT !.pc = "uploading",
                                      !.uploaded = @ \union {upload.id}]
           \/ node' = [node EXCEPT !.pc = "failing"]
    BY <1>7 DEF UploadReturns
  <2>2. /\ node' \in NodeRecord /\ node'.asked = node.asked
        /\ node'.answer = node.answer /\ node'.report = node.report
        /\ node'.pc # "reporting" /\ node.uploaded \subseteq node'.uploaded
    <3> DEFINE more == node.uploaded \union {upload.id}
    <3>1. upload.pc = "ok" => more \in SUBSET Artifacts
      BY <1>1 DEF NodeRecord
    <3>2. \/ upload.pc = "ok" /\ node' = [node EXCEPT !.pc = "uploading", !.uploaded = more]
          \/ node' = [node EXCEPT !.pc = "failing"]
      BY <2>1
    <3>3. node.uploaded \subseteq more
      OBVIOUS
    <3> HIDE DEF more
    <3> QED
      BY <1>1, <3>1, <3>2, <3>3 DEF NodeRecord
  <2>3. Uploads'
    BY <1>1, <1>7, UploadReturned
  <2> QED
    BY <1>1, <1>4, <2>1, <2>2, <2>3
<1>8. CASE AddArtifact
  <2>1. /\ upload.pc = "add" /\ UNCHANGED <<node, blobs, told, faults>>
    BY <1>8 DEF AddArtifact
  <2>2. CASE Ended /\ upload' = [upload EXCEPT !.pc = "undo"] /\ UNCHANGED logVars
    <3>1. upload' \in UploadRecord /\ upload'.pc = "undo" /\ upload'.id = upload.id
      BY <1>1, <2>2 DEF UploadRecord
    <3>2. UNCHANGED <<changes, tx>>
      BY <2>2 DEF logVars
    <3>3. Uploads'
      BY <1>1, <2>1, <3>1, <3>2, RecordBegun
    <3> QED
      BY <1>1, <1>4, <2>1, <2>2, <3>1, <3>3
  <2>3. CASE /\ Begin("upload", "artifact", upload.id, "none")
             /\ upload' = [upload EXCEPT !.pc = "adding"]
    <3>1. upload' \in UploadRecord /\ upload'.pc = "adding" /\ upload'.id = upload.id
      BY <1>1, <2>3 DEF UploadRecord
    <3>2. /\ "upload" \in Servers /\ "upload" \in Writers /\ "artifact" \in Kinds
          /\ "none" \in Values /\ upload.id \in Subjects
      BY <1>1, <2>1, Names, KindsAre DEF Servers, Subjects
    <3>3. LogTypes' /\ Begins("upload", "artifact", upload.id, "none")
      BY <1>1, <2>3, <3>2, BeginBegins
    <3>4. Types'
      BY <1>1, <2>1, <3>1, <3>3 DEF Types
    <3>5. Uploads'
      BY <1>1, <2>1, <3>1, <3>3, RecordBegun
    <3>6. Question'
      BY <1>1, <2>1, <3>2, <3>3, QuestionBegins
    <3>7. Ending'
      BY <1>1, <2>1, <3>3, EndingBegins
    <3> QED
      BY <3>4, <3>5, <3>6, <3>7 DEF RecordsInv
  <2> QED
    BY <1>8, <2>2, <2>3 DEF AddArtifact
<1>9. CASE ServerCrash
  <2>1. /\ upload.pc \in {"put", "add", "adding", "undo"}
        /\ UNCHANGED <<node, blobs, told>> /\ Fault
        /\ upload' = [upload EXCEPT !.pc = "error"]
    BY <1>9 DEF ServerCrash
  <2>2. upload' \in UploadRecord /\ upload'.pc = "error" /\ upload'.id = upload.id
    BY <1>1, <2>1 DEF UploadRecord
  <2>3. faults' # 0
    BY <1>1, <2>1, FaultTyped
  <2>4. CASE ~Open("upload")
    <3>1. UNCHANGED logVars
      BY <1>9, <2>4 DEF ServerCrash
    <3>2. UNCHANGED <<changes, tx>>
      BY <3>1 DEF logVars
    <3>3. Uploads'
      BY <1>1, <2>1, <2>2, <2>3, <2>4, <3>2, UploadCrashes DEF Open
    <3> QED
      BY <1>1, <1>4, <2>1, <2>2, <3>1, <3>3
  <2>5. CASE Open("upload")
    <3>1. Rollback("upload") /\ "upload" \in Writers
      BY <1>9, <2>5, Names DEF ServerCrash, Servers
    <3>2. LogTypes' /\ Moves("upload")
      BY <1>1, <3>1, StepMoves
    <3>3. /\ UNCHANGED changes
          /\ \A w \in Writers : w # "upload" => tx'[w] = tx[w]
          /\ tx'["upload"].outcome = "failed"
      BY <1>1, <3>1, RollbackKeepsLog, Names DEF LogTypes
    <3>4. Types'
      BY <1>1, <1>3, <2>1, <2>2, <3>2 DEF Types
    <3>5. Uploads'
      BY <1>1, <2>1, <2>2, <2>3, <3>3, UploadCrashes
    <3>6. Question'
      BY <1>1, <2>1, <3>2, QuestionMoves
    <3>7. Ending'
      BY <1>1, <2>1, <3>2, EndingMoves
    <3> QED
      BY <3>4, <3>5, <3>6, <3>7 DEF RecordsInv
  <2> QED
    BY <2>4, <2>5
<1> QED
  BY <1>5, <1>6, <1>7, <1>8, <1>9 DEF UploadStep

(* RecordsInv holds in every reachable state.                              *)
LEMMA AlwaysRecordsInv == Spec => []RecordsInv
<1>1. Init => RecordsInv
  <2> SUFFICES ASSUME Init PROVE RecordsInv
    OBVIOUS
  <2>1. /\ LogInit /\ changes = {} /\ blobs = {} /\ faults = 0
        /\ upload = [pc |-> "none", id |-> "none"]
        /\ node = [pc |-> "executing", answer |-> "none", asked |-> "none",
                   uploaded |-> {}, report |-> "none"]
        /\ told = [h \in Hosts |-> "none"]
    BY DEF Init, LogInit
  <2>2. /\ \A kind : Done(kind) = {}
        /\ \A w \in Writers : ~Open(w) /\ ~Committed(w)
    BY <2>1 DEF LogInit, Idle, Done, Open, Committed
  <2>3. /\ upload.pc = "none" /\ upload.id = "none"
        /\ node.pc = "executing" /\ node.answer = "none" /\ node.asked = "none"
        /\ node.uploaded = {} /\ node.report = "none"
    BY <2>1
  <2>4. Types
    <3>1. LogTypes
      BY <2>1, LogInitKeepsLog, Names DEF LogTypes
    <3>2. node \in NodeRecord
      BY <2>1, Names DEF NodeRecord
    <3>3. upload \in UploadRecord
      BY <2>1 DEF UploadRecord
    <3>4. faults \in 0 .. MaxFaults
      BY <2>1, RecordsAssumption
    <3> QED
      BY <2>1, <2>3, <3>1, <3>2, <3>3, <3>4 DEF Types
  <2>5. Question
    <3>1. \A h \in Hosts : told[h] = "none" /\ h \in Writers
      BY <2>1, Names
    <3> QED
      BY <2>2, <2>3, <3>1 DEF Question, Writing
  <2>6. Uploads
    <3>1. "upload" \in Writers
      BY Names DEF Servers
    <3> QED
      BY <2>2, <2>3, <3>1 DEF Uploads, Uploading, OnRecord, UploadedIsOpenable,
                              RecordHasBlob, Changed, Writing
  <2>7. Ending
    BY <2>2, <2>3 DEF Ending, Successful, Writing
  <2> QED
    BY <2>4, <2>5, <2>6, <2>7 DEF RecordsInv
<1>2. RecordsInv /\ [Next]_vars => RecordsInv'
  <2> SUFFICES ASSUME RecordsInv, [Next]_vars PROVE RecordsInv'
    OBVIOUS
  <2>1. CASE UNCHANGED vars
    <3>1. UNCHANGED <<logVars, node, upload, blobs, told, faults>>
      BY <2>1 DEF vars, recordVars
    <3>2. /\ Types /\ Question /\ Uploads /\ Ending /\ LogTypes
      BY DEF RecordsInv, Types
    <3>3. LogTypes' /\ UNCHANGED <<rows, changes, tx>>
      BY <3>1, <3>2, LogTypesStay
    <3>4. Types'
      BY <3>1, <3>2, <3>3 DEF Types
    <3>5. Question'
      BY <3>1, <3>2, <3>3, QuestionStays
    <3>6. Uploads'
      <4>1. /\ \A k : Changed("artifact", k)' <=> Changed("artifact", k)
            /\ \A w \in Writers : Writing(w, "artifact")' => Writing(w, "artifact")
        BY <3>3 DEF Changed, Done, Writing, Open
      <4> QED
        BY <3>1, <3>2, <3>3, <4>1, UploadsStay
    <3>7. Ending'
      BY <3>1, <3>2, <3>3, EndingUnmoved, UploadTyped
    <3> QED
      BY <3>4, <3>5, <3>6, <3>7 DEF RecordsInv
  <2>2. CASE Next
    BY <2>2, TxSteps, BeginSteps, NodeSteps, HostSteps, UploadSteps DEF Next, NodeStep
  <2> QED
    BY <2>1, <2>2
<1> QED
  BY <1>1, <1>2, PTL DEF Spec

-----------------------------------------------------------------------------
(* A question has one answer: ResolveInteraction locks the row of the      *)
(* interaction and refuses a second answer, so that the host that was told *)
(* it was accepted is the one whose answer the broker hands to the runtime, *)
(* whatever numbers were lost to other transactions and whatever commits   *)
(* stayed unknown.                                                         *)
THEOREM AnswersAreUnique == Spec => []OneAnswer
<1>1. RecordsInv => OneAnswer
  BY QuestionAnswered DEF RecordsInv
<1> QED
  BY <1>1, AlwaysRecordsInv, PTL

(* UploadArtifact writes the blob before the record and the Node reports   *)
(* success after the last upload: what it was told is uploaded can be      *)
(* opened, a Run succeeds only with all artifacts of its result, and only  *)
(* a fault leaves a record without its blob.                               *)
THEOREM ArtifactsAlwaysSound == Spec => []ArtifactsSound
<1>1. RecordsInv => ArtifactsSound
  <2> SUFFICES ASSUME RecordsInv PROVE ArtifactsSound
    OBVIOUS
  <2>1. /\ Types /\ LogInv(Subjects, Values) /\ UploadedIsOpenable /\ RecordHasBlob
        /\ Ending
    BY DEF RecordsInv, Types, LogTypes, Uploads
  <2>2. LogTypeOK
    <3>1. /\ Cardinality(rows) \in Nat /\ Sequences(rows) = 1 .. Cardinality(rows)
          /\ \A w \in Writers : tx[w] \in Transaction(Subjects, Values)
      BY <2>1, FS_CardinalityType DEF LogInv, NoGaps
    <3>2. \A e \in rows : e.sequence \in 1 .. Cardinality(rows)
      BY <3>1 DEF Sequences
    <3>3. \A e \in rows : e.sequence \in Nat \ {0}
      BY <3>1, <3>2
    <3>4. \A w \in Writers : tx[w].outcome \in {"none", "open", "done", "failed"}
      BY <3>1 DEF Transaction
    <3> QED
      BY <3>3, <3>4 DEF LogTypeOK
  <2>3. TypeOK
    BY <2>1, <2>2, UploadTyped DEF TypeOK, Types
  <2>4. SucceededWithArtifacts
    BY <2>1 DEF Ending, Successful, SucceededWithArtifacts, UploadedIsOpenable
  <2> QED
    BY <2>1, <2>3, <2>4 DEF ArtifactsSound
<1> QED
  BY <1>1, AlwaysRecordsInv, PTL

(* The log of the Run has neither gaps nor duplicate numbers, although     *)
(* ResolveInteraction appends to it without locking the Run.               *)
THEOREM RecordsLeaveNoGaps == Spec => []NoGaps
<1>1. RecordsInv => NoGaps
  BY DEF RecordsInv, Types, LogTypes, LogInv
<1> QED
  BY <1>1, AlwaysRecordsInv, PTL

-----------------------------------------------------------------------------
(* Proofs about EventStream.                                               *)

StreamSubjects == Interactions \union {"run", "none"}

Server == [pc : {"opening", "checking", "waiting", "tail", "closed"}, after : Nat]

Watcher == [pc : {"connect", "reading", "asking", "returned"}, after : Nat,
            terminal : BOOLEAN, handled : Seq(Event(StreamSubjects)),
            stream : {"none", "complete", "interrupted"},
            result : {"none", "ended", "error"}]

StreamTypes ==
  /\ LogInv(StreamSubjects, {"none"})
  /\ server \in Server /\ wire \in Seq(Event(StreamSubjects)) /\ watcher \in Watcher
  /\ breaks \in 0 .. MaxBreaks

(* s holds the rows of the log after number n, in order.                   *)
FollowsLog(s, n) ==
  \A i \in 1 .. Len(s) : s[i] \in rows /\ s[i].sequence = n + i

Delivered ==
  /\ Len(watcher.handled) = watcher.after
  /\ watcher.after + Len(wire) <= Cardinality(rows)
  /\ FollowsLog(watcher.handled, 0)
  /\ FollowsLog(wire, watcher.after)
  /\ watcher.pc # "reading" => wire = <<>>
  /\ server.pc # "closed" => watcher.pc = "reading"
  /\ server.pc # "closed" => server.after = watcher.after + Len(wire)

(* Events up to number n include a terminal one.                           *)
TerminalBy(n) == \E e \in rows : terminalEvent(e) /\ e.sequence <= n

HandledTerminal ==
  \E i \in 1 .. Len(watcher.handled) : terminalEvent(watcher.handled[i])

Truthful ==
  /\ Ended => \E e \in rows : terminalEvent(e)
  /\ server.pc = "tail" => Ended
  /\ watcher.terminal => HandledTerminal
  /\ watcher.stream = "complete" => HandledTerminal

Unbroken ==
  breaks = 0 =>
    /\ watcher.pc = "connect" => watcher.handled = <<>>
    /\ HandledTerminal => watcher.terminal
    /\ watcher.pc = "reading" /\ server.pc = "closed" =>
         Ended /\ TerminalBy(watcher.after + Len(wire))
    /\ watcher.pc = "asking" => Ended
    /\ watcher.stream # "interrupted"

StreamInv == StreamTypes /\ Delivered /\ Truthful /\ Unbroken

-----------------------------------------------------------------------------
(* The log as a function: number i in 1 .. n names exactly one row.        *)
LEMMA RowNumbers ==
  ASSUME NEW S, NEW V, LogInv(S, V)
  PROVE  /\ Cardinality(rows) \in Nat /\ IsFiniteSet(rows)
         /\ \A e \in rows : e \in Event(S) /\ e.sequence \in 1 .. Cardinality(rows)
         /\ \A i \in 1 .. Cardinality(rows) : \E e \in rows : e.sequence = i
         /\ \A d, e \in rows : d.sequence = e.sequence => d = e
<1>1. Cardinality(rows) \in Nat
  BY FS_CardinalityType DEF LogInv
<1>2. Sequences(rows) = 1 .. Cardinality(rows)
  BY DEF LogInv, NoGaps
<1> DEFINE n == Cardinality(rows)
<1> HIDE DEF n
<1>3. /\ \A e \in rows : e.sequence \in 1 .. n
      /\ \A i \in 1 .. n : \E e \in rows : e.sequence = i
  BY <1>2 DEF Sequences, n
<1> QED
  BY <1>1, <1>3 DEF LogInv, n

(* The rows with numbers above a and up to b are b - a many.               *)
LEMMA RowsBetween ==
  ASSUME NEW S, NEW V, LogInv(S, V), NEW a \in Nat, NEW b \in Nat,
         a <= b, b <= Cardinality(rows)
  PROVE  Cardinality({d \in rows : d.sequence > a /\ d.sequence <= b}) = b - a
<1> DEFINE T == {d \in rows : d.sequence > a /\ d.sequence <= b}
           I == (a + 1) .. b
           f == [d \in T |-> d.sequence]
<1>1. IsFiniteSet(T)
  BY RowNumbers, FS_Subset
<1>2. f \in [T -> I]
  <2>1. \A d \in T : d.sequence \in I
    BY RowNumbers
  <2> QED
    BY <2>1
<1>3. \A c, d \in T : f[c] = f[d] => c = d
  BY RowNumbers
<1>4. \A i \in I : \E d \in T : f[d] = i
  <2>1. \A i \in I : i \in 1 .. Cardinality(rows) /\ i > a /\ i <= b
    BY RowNumbers
  <2> QED
    BY <2>1, RowNumbers
<1> HIDE DEF T, I, f
<1>5. f \in Bijection(T, I)
  BY <1>2, <1>3, <1>4 DEF Bijection, Injection, Surjection, IsInjective
<1>6. Cardinality(T) = Cardinality(I)
  BY <1>1, <1>5, FS_Bijection DEF ExistsBijection
<1>7. Cardinality(I) = b - a
  <2>1. Cardinality(I) = IF a + 1 > b THEN 0 ELSE b - (a + 1) + 1
    BY FS_Interval DEF I
  <2> QED
    BY <2>1
<1> QED
  BY <1>6, <1>7 DEF T

(* EventsAfter(a) is the log after number a, in order and to its end.      *)
LEMMA EventsAfterFollow ==
  ASSUME NEW S, NEW V, LogInv(S, V), NEW a \in Nat, a <= Cardinality(rows)
  PROVE  /\ EventsAfter(a) \in Seq(Event(S))
         /\ Len(EventsAfter(a)) = Cardinality(rows) - a
         /\ FollowsLog(EventsAfter(a), a)
<1> DEFINE n == Cardinality(rows)
           above == {e \in rows : e.sequence > a}
           pos(e) == Cardinality({d \in above : d.sequence <= e.sequence})
           el(i) == CHOOSE e \in above : pos(e) = i
           m == n - a
<1>1. n \in Nat /\ m \in Nat
  BY RowNumbers
<1>2. Cardinality(above) = m
  <2>1. above = {d \in rows : d.sequence > a /\ d.sequence <= n}
    BY RowNumbers
  <2> QED
    BY <1>1, <2>1, RowsBetween
<1>3. \A e \in above : e \in rows /\ e.sequence \in (a + 1) .. n /\ pos(e) = e.sequence - a
  <2> SUFFICES ASSUME NEW e \in above
               PROVE  e \in rows /\ e.sequence \in (a + 1) .. n /\ pos(e) = e.sequence - a
    OBVIOUS
  <2>1. e \in rows /\ e.sequence \in (a + 1) .. n
    BY <1>1, RowNumbers
  <2>2. {d \in above : d.sequence <= e.sequence}
          = {d \in rows : d.sequence > a /\ d.sequence <= e.sequence}
    OBVIOUS
  <2>3. e.sequence \in Nat /\ a <= e.sequence /\ e.sequence <= n
    BY <1>1, <2>1
  <2>4. Cardinality({d \in rows : d.sequence > a /\ d.sequence <= e.sequence})
          = e.sequence - a
    BY <2>3, RowsBetween
  <2> QED
    BY <2>1, <2>2, <2>4
<1>4. \A i \in 1 .. m : \E e \in above : e.sequence = a + i
  <2>1. \A i \in 1 .. m : a + i \in 1 .. n /\ a + i > a
    BY <1>1
  <2> QED
    BY <2>1, RowNumbers
<1> HIDE DEF above, pos, n, m
<1>5. \A i \in 1 .. m : el(i) \in above /\ pos(el(i)) = i
  <2> SUFFICES ASSUME NEW i \in 1 .. m
               PROVE  el(i) \in above /\ pos(el(i)) = i
    OBVIOUS
  <2>1. PICK e \in above : e.sequence = a + i
    BY <1>4
  <2>2. pos(e) = i
    BY <1>1, <1>3, <2>1
  <2> QED
    BY <2>2
<1> HIDE DEF el
<1>6. \A i \in 1 .. m : el(i) \in rows /\ el(i).sequence = a + i
  <2> SUFFICES ASSUME NEW i \in 1 .. m
               PROVE  el(i) \in rows /\ el(i).sequence = a + i
    OBVIOUS
  <2>1. /\ el(i) \in rows /\ el(i).sequence \in (a + 1) .. n
        /\ i = el(i).sequence - a
    BY <1>3, <1>5
  <2> QED
    BY <1>1, <2>1
<1>7. EventsAfter(a) = [i \in 1 .. m |-> el(i)]
  BY <1>2 DEF EventsAfter, above, pos, el
<1>8. \A i \in 1 .. m : el(i) \in Event(S)
  BY <1>6, RowNumbers
<1> DEFINE E == EventsAfter(a)
<1>9. E \in Seq(Event(S)) /\ Len(E) = m /\ \A i \in 1 .. m : E[i] = el(i)
  BY <1>1, <1>7, <1>8
<1> HIDE DEF E
<1>10. FollowsLog(E, a)
  BY <1>6, <1>9 DEF FollowsLog
<1> QED
  BY <1>9, <1>10 DEF E, m, n

-----------------------------------------------------------------------------
(* The transactions of the Run.                                            *)

(* The numbers of a log that only grows stay good.                         *)
LEMMA FollowsGrowing ==
  ASSUME NEW s, NEW n, rows \subseteq rows', FollowsLog(s, n)
  PROVE  \A i \in 1 .. Len(s) : s[i] \in rows' /\ s[i].sequence = n + i
BY DEF FollowsLog

(* What a transaction appends when it ends the Run.                        *)
LEMMA EndsWithTerminal ==
  /\ Len(Appends["succeed"]) = 2 /\ Appends["succeed"][2] = "run.succeeded"
  /\ Len(Appends["fail"]) = 2 /\ Appends["fail"][2] = "run.failed"
BY DEF Appends

(* A transaction leaves the rows that are there, and a status that says    *)
(* the Run has ended comes with the terminal row.                          *)
LEMMA LogSteps ==
  ASSUME StreamTypes, LogStep, Ended => \E e \in rows : terminalEvent(e)
  PROVE  /\ LogInv(StreamSubjects, {"none"})'
         /\ rows \subseteq rows'
         /\ Ended => Ended'
         /\ Ended' => \E e \in rows' : terminalEvent(e)
<1>1. PICK w \in Writers : Submits(w) \/ Proceeds(w) \/ Rollback(w)
  BY DEF LogStep
<1>2. LogInv(StreamSubjects, {"none"}) /\ "none" \in StreamSubjects /\ "none" \in {"none"}
  BY DEF StreamTypes, StreamSubjects
<1>3. CASE UNCHANGED <<rows, changes>> /\ LogInv(StreamSubjects, {"none"})'
  BY <1>3 DEF Ended, Done
<1>4. CASE Submits(w)
  <2>1. PICK kind \in Reported : \E subject \in Subject(kind) :
           Begin(w, kind, subject, "none")
    BY <1>4 DEF Submits
  <2>2. PICK subject \in Subject(kind) : Begin(w, kind, subject, "none")
    BY <2>1
  <2>3. kind \in Kinds /\ subject \in StreamSubjects
    BY StreamAssumption DEF Subject, StreamSubjects
  <2> QED
    BY <1>2, <1>3, <2>2, <2>3, BeginKeepsLog
<1>5. CASE ReadSequence(w)
  BY <1>2, <1>3, <1>5, ReadKeepsLog
<1>6. CASE insertEvent(w)
  BY <1>2, <1>3, <1>6, InsertKeepsLog
<1>7. CASE Rollback(w)
  BY <1>2, <1>3, <1>7, RollbackKeepsLog
<1>8. CASE Commit(w, "done")
  <2> DEFINE t == tx[w]
             r == [kind |-> t.kind, subject |-> t.subject, value |-> t.value]
  <2>1. /\ LogInv(StreamSubjects, {"none"})' /\ rows' = rows \union t.inserted
        /\ changes' = changes \union {r}
        /\ \A i \in 1 .. Len(Appends[t.kind]) :
             \E e \in t.inserted : e.type = Appends[t.kind][i]
    BY <1>2, <1>8, CommitKeepsLog
  <2>2. r.kind = t.kind
    OBVIOUS
  <2> HIDE DEF t, r
  <2>3. /\ Ended => Ended'
        /\ Ended' => Ended \/ t.kind = "succeed" \/ t.kind = "fail"
    BY <2>1, <2>2 DEF Ended, Done
  <2>4. t.kind = "succeed" \/ t.kind = "fail" => \E e \in t.inserted : terminalEvent(e)
    BY <2>1, EndsWithTerminal DEF terminalEvent
  <2> QED
    BY <2>1, <2>3, <2>4
<1> QED
  BY <1>1, <1>4, <1>5, <1>6, <1>7, <1>8 DEF Proceeds, Violates

(* A watcher is told no less by a log that has grown.                      *)
LEMMA LogStepKeepsStream ==
  ASSUME StreamInv, LogStep, UNCHANGED connVars
  PROVE  StreamInv'
<1>1. /\ LogInv(StreamSubjects, {"none"})' /\ rows \subseteq rows' /\ StreamTypes
      /\ Ended => Ended'
      /\ Ended' => \E e \in rows' : terminalEvent(e)
  BY LogSteps DEF StreamInv, Truthful
<1>2. /\ server' = server /\ wire' = wire /\ watcher' = watcher /\ breaks' = breaks
  BY DEF connVars
<1>3. StreamTypes'
  BY <1>1, <1>2 DEF StreamTypes
<1>4. Cardinality(rows) <= Cardinality(rows') /\ Cardinality(rows) \in Nat
        /\ Cardinality(rows') \in Nat
  <2>1. IsFiniteSet(rows) /\ IsFiniteSet(rows')
    BY <1>1 DEF StreamTypes, LogInv
  <2> QED
    BY <1>1, <2>1, FS_Subset, FS_CardinalityType
<1>5. Delivered'
  <2>1. Delivered
    BY DEF StreamInv
  <2>2. FollowsLog(watcher.handled, 0)' /\ FollowsLog(wire, watcher.after)'
    BY <1>1, <1>2, <2>1, FollowsGrowing DEF Delivered, FollowsLog
  <2>3. Len(wire) \in Nat /\ watcher.after \in Nat
    BY <1>1, LenProperties DEF StreamTypes, Watcher
  <2>4. watcher.after + Len(wire) <= Cardinality(rows')
    BY <1>4, <2>1, <2>3 DEF Delivered
  <2> QED
    BY <1>2, <2>1, <2>2, <2>4 DEF Delivered
<1>6. Truthful'
  BY <1>1, <1>2 DEF StreamInv, Truthful, HandledTerminal
<1>7. Unbroken'
  <2>1. Unbroken
    BY DEF StreamInv
  <2>2. TerminalBy(watcher.after + Len(wire)) => TerminalBy(watcher.after + Len(wire))'
    BY <1>1, <1>2 DEF TerminalBy
  <2> QED
    BY <1>1, <1>2, <2>1, <2>2 DEF Unbroken, HandledTerminal
<1> QED
  BY <1>3, <1>5, <1>6, <1>7 DEF StreamInv

-----------------------------------------------------------------------------
(* The handler.                                                            *)

(* writeEvents after a read from the cursor: everything the log holds is   *)
(* under way, behind what was under way before.                            *)
LEMMA WriteEventsDelivers ==
  ASSUME StreamInv, server.pc # "closed",
         NEW pc \in {"opening", "checking", "waiting", "tail", "closed"},
         writeEvents(pc, EventsAfter(server.after)), UNCHANGED rows
  PROVE  /\ wire' \in Seq(Event(StreamSubjects)) /\ server' \in Server /\ server'.pc = pc
         /\ server'.after = watcher.after + Len(wire')
         /\ watcher.after + Len(wire') = Cardinality(rows)
         /\ FollowsLog(wire', watcher.after)
<1> DEFINE n == Cardinality(rows)
           a == watcher.after
           l == Len(wire)
           c == server.after
           E == EventsAfter(c)
           m == Len(E)
<1>1. /\ StreamTypes /\ LogInv(StreamSubjects, {"none"}) /\ wire \in Seq(Event(StreamSubjects))
      /\ a \in Nat /\ l \in Nat /\ n \in Nat
  BY LenProperties, RowNumbers DEF StreamInv, StreamTypes, Watcher
<1>2. c = a + l /\ a + l <= n /\ FollowsLog(wire, a)
  BY DEF StreamInv, Delivered
<1>3. c \in Nat /\ c <= n
  BY <1>1, <1>2
<1>4. E \in Seq(Event(StreamSubjects)) /\ m = n - c /\ FollowsLog(E, c) /\ m \in Nat
  BY <1>1, <1>3, EventsAfterFollow
<1>5. /\ wire' = wire \o E
      /\ server' = [pc |-> pc, after |-> IF E = <<>> THEN c ELSE Last(E).sequence]
  BY DEF writeEvents
<1> HIDE DEF E, c, n, a, l, m
<1>6. /\ wire' \in Seq(Event(StreamSubjects)) /\ Len(wire') = l + m
      /\ \A i \in 1 .. l + m : wire'[i] = IF i <= l THEN wire[i] ELSE E[i - l]
  BY <1>1, <1>4, <1>5, ConcatProperties DEF l, m
<1>7. a + Len(wire') = n
  BY <1>1, <1>2, <1>4, <1>6
<1>8. (IF E = <<>> THEN c ELSE Last(E).sequence) = n
  <2>1. CASE E = <<>>
    <3>1. m = 0
      BY <2>1 DEF m
    <3> QED
      BY <1>1, <1>3, <1>4, <2>1, <3>1
  <2>2. CASE E # <<>>
    <3>1. m \in Nat \ {0}
      BY <1>4, <2>2, EmptySeq DEF m
    <3>2. Last(E).sequence = c + m
      BY <1>4, <3>1 DEF FollowsLog, Last, m
    <3> QED
      BY <1>1, <1>3, <1>4, <2>2, <3>2
  <2> QED
    BY <2>1, <2>2
<1>9. FollowsLog(wire', a)
  <2> SUFFICES ASSUME NEW i \in 1 .. l + m
               PROVE  wire'[i] \in rows /\ wire'[i].sequence = a + i
    BY <1>6 DEF FollowsLog
  <2>1. CASE i <= l
    <3>1. i \in 1 .. Len(wire) /\ wire'[i] = wire[i]
      BY <1>1, <1>4, <1>6, <2>1 DEF l
    <3> QED
      BY <1>2, <3>1 DEF FollowsLog
  <2>2. CASE ~(i <= l)
    <3>1. i - l \in 1 .. m
      BY <1>1, <1>4, <2>2
    <3>2. wire'[i] = E[i - l]
      BY <1>6, <2>2
    <3>3. i - l \in 1 .. Len(E)
      BY <3>1 DEF m
    <3>4. E[i - l] \in rows /\ E[i - l].sequence = c + (i - l)
      BY <1>4, <3>3 DEF FollowsLog
    <3> QED
      BY <1>1, <1>2, <3>1, <3>2, <3>4
  <2> QED
    BY <2>1, <2>2
<1>10. server' \in Server /\ server'.pc = pc /\ server'.after = n
  BY <1>1, <1>5, <1>8 DEF Server
<1> QED
  BY <1>6, <1>7, <1>9, <1>10 DEF n, a

(* A step of anyone but the writers leaves the log alone.                  *)
LEMMA LogUnmoved ==
  ASSUME UNCHANGED logVars, LogInv(StreamSubjects, {"none"})
  PROVE  LogInv(StreamSubjects, {"none"})' /\ rows' = rows /\ (Ended' <=> Ended)
<1>1. rows' = rows /\ changes' = changes /\ tx' = tx
  BY DEF logVars
<1>2. LogInv(StreamSubjects, {"none"})'
  BY <1>1 DEF LogInv, NoGaps
<1> QED
  BY <1>1, <1>2 DEF Ended, Done

(* A step of the handler that keeps its cursor at the end of what is under *)
(* way, and that ends the stream only after the tail was read.             *)
LEMMA ServerMoves ==
  ASSUME StreamInv, UNCHANGED <<logVars, watcher, breaks>>, server.pc # "closed",
         server' \in Server, wire' \in Seq(Event(StreamSubjects)),
         server'.after = watcher.after + Len(wire'),
         watcher.after + Len(wire') <= Cardinality(rows),
         FollowsLog(wire', watcher.after),
         server'.pc = "tail" => Ended,
         server'.pc = "closed" =>
           Ended /\ watcher.after + Len(wire') = Cardinality(rows)
  PROVE  StreamInv'
<1>1. /\ LogInv(StreamSubjects, {"none"})' /\ rows' = rows /\ (Ended' <=> Ended)
      /\ watcher' = watcher /\ breaks' = breaks
  BY LogUnmoved DEF StreamInv, StreamTypes
<1>2. watcher.pc = "reading"
  BY DEF StreamInv, Delivered
<1>3. StreamTypes'
  BY <1>1 DEF StreamInv, StreamTypes
<1>4. Delivered'
  BY <1>1, <1>2 DEF StreamInv, Delivered, FollowsLog
<1>5. Truthful'
  BY <1>1 DEF StreamInv, Truthful, HandledTerminal
<1>6. Unbroken'
  <2>1. server'.pc = "closed" => TerminalBy(watcher.after + Len(wire'))
    <3> SUFFICES ASSUME server'.pc = "closed"
                 PROVE  TerminalBy(Cardinality(rows))
      OBVIOUS
    <3>1. PICK e \in rows : terminalEvent(e)
      BY DEF StreamInv, Truthful
    <3>2. e.sequence <= Cardinality(rows)
      BY RowNumbers DEF StreamInv, StreamTypes
    <3> QED
      BY <3>1, <3>2 DEF TerminalBy
  <2>2. Unbroken
    BY DEF StreamInv
  <2>3. server'.pc = "closed" => TerminalBy(watcher.after + Len(wire))'
    BY <1>1, <2>1 DEF TerminalBy
  <2> QED
    BY <1>1, <1>2, <2>2, <2>3 DEF Unbroken, HandledTerminal
<1> QED
  BY <1>3, <1>4, <1>5, <1>6 DEF StreamInv

(* streamEvents reads and writes.                                          *)
LEMMA ServerWrites ==
  ASSUME StreamInv, UNCHANGED <<logVars, watcher, breaks>>, server.pc # "closed",
         NEW pc \in {"checking", "closed"}, pc = "closed" => server.pc = "tail",
         writeEvents(pc, EventsAfter(server.after))
  PROVE  StreamInv'
<1>1. rows' = rows
  BY DEF logVars
<1>2. /\ wire' \in Seq(Event(StreamSubjects)) /\ server' \in Server /\ server'.pc = pc
      /\ server'.after = watcher.after + Len(wire')
      /\ watcher.after + Len(wire') = Cardinality(rows)
      /\ FollowsLog(wire', watcher.after)
  BY <1>1, WriteEventsDelivers
<1>3. Cardinality(rows) <= Cardinality(rows)
  BY RowNumbers DEF StreamInv, StreamTypes
<1>4. pc = "closed" => Ended
  BY DEF StreamInv, Truthful
<1> QED
  BY <1>2, <1>3, <1>4, ServerMoves

(* streamEvents checks the status, or writes a keepalive.                  *)
LEMMA ServerTurns ==
  ASSUME StreamInv, UNCHANGED <<logVars, wire, watcher, breaks>>, server.pc # "closed",
         NEW pc \in {"checking", "waiting", "tail"}, pc = "tail" => Ended,
         server' = [server EXCEPT !.pc = pc]
  PROVE  StreamInv'
<1>1. server' \in Server /\ server'.pc = pc /\ server'.after = server.after
  BY DEF StreamInv, StreamTypes, Server
<1>2. wire' = wire /\ wire \in Seq(Event(StreamSubjects)) /\ UNCHANGED <<logVars, watcher, breaks>>
  BY DEF StreamInv, StreamTypes
<1>3. /\ server'.after = watcher.after + Len(wire')
      /\ watcher.after + Len(wire') <= Cardinality(rows)
      /\ FollowsLog(wire', watcher.after)
  BY <1>1, <1>2 DEF StreamInv, Delivered
<1> QED
  BY <1>1, <1>2, <1>3, ServerMoves

(* Every step of the handler.                                              *)
LEMMA ServerKeepsStream ==
  ASSUME StreamInv, ServerStep
  PROVE  StreamInv'
<1>1. CASE ServerOpens
  BY <1>1, ServerWrites DEF ServerOpens
<1>2. CASE ServerChecks
  <2> DEFINE pc == IF streamTerminal THEN "tail" ELSE "waiting"
  <2>1. pc \in {"checking", "waiting", "tail"} /\ (pc = "tail" => Ended)
    BY DEF streamTerminal
  <2>2. server' = [server EXCEPT !.pc = pc]
    BY <1>2 DEF ServerChecks
  <2> HIDE DEF pc
  <2> QED
    BY <1>2, <2>1, <2>2, ServerTurns DEF ServerChecks
<1>3. CASE ServerPolls
  <2>1. CASE writeEvents("checking", EventsAfter(server.after))
    BY <1>3, <2>1, ServerWrites DEF ServerPolls
  <2>2. CASE server' = [server EXCEPT !.pc = "checking"] /\ UNCHANGED wire
    BY <1>3, <2>2, ServerTurns DEF ServerPolls
  <2> QED
    BY <1>3, <2>1, <2>2 DEF ServerPolls
<1>4. CASE ServerTail
  BY <1>4, ServerWrites DEF ServerTail
<1> QED
  BY <1>1, <1>2, <1>3, <1>4 DEF ServerStep

(* The connection breaks: what is under way is cut off somewhere.          *)
LEMMA BreaksKeepsStream ==
  ASSUME StreamInv, Breaks
  PROVE  StreamInv'
<1>1. /\ LogInv(StreamSubjects, {"none"})' /\ rows' = rows /\ (Ended' <=> Ended)
      /\ watcher' = watcher
  BY LogUnmoved DEF StreamInv, StreamTypes, Breaks
<1>2. /\ StreamTypes /\ wire \in Seq(Event(StreamSubjects)) /\ Len(wire) \in Nat
      /\ watcher.after \in Nat /\ Cardinality(rows) \in Nat
  BY LenProperties, RowNumbers DEF StreamInv, StreamTypes, Watcher
<1>3. PICK l \in 0 .. Len(wire) : wire' = SubSeq(wire, 1, l)
  BY DEF Breaks, Prefixes
<1>4. /\ wire' \in Seq(Event(StreamSubjects)) /\ Len(wire') = l
      /\ \A i \in 1 .. l : wire'[i] = wire[i]
  <2>1. l \in Int /\ 1 \in Int /\ \A i \in 1 .. l : wire[i] \in Event(StreamSubjects)
    BY <1>2, ElementOfSeq
  <2>2. /\ SubSeq(wire, 1, l) \in Seq(Event(StreamSubjects))
        /\ Len(SubSeq(wire, 1, l)) = IF 1 <= l THEN l - 1 + 1 ELSE 0
        /\ \A i \in 1 .. l - 1 + 1 : SubSeq(wire, 1, l)[i] = wire[1 + i - 1]
    BY <2>1, SubSeqProperties
  <2> QED
    BY <1>2, <1>3, <2>2
<1>5. server' \in Server /\ server'.pc = "closed"
  BY <1>2 DEF StreamTypes, Server, Breaks
<1>6. breaks' \in 0 .. MaxBreaks /\ breaks' # 0
  BY <1>2, StreamAssumption DEF StreamTypes, Breaks
<1>7. StreamTypes'
  BY <1>1, <1>2, <1>4, <1>5, <1>6 DEF StreamTypes
<1>8. Delivered'
  <2>1. Delivered /\ watcher.pc = "reading"
    BY DEF StreamInv, Breaks
  <2>2. watcher.after + l <= Cardinality(rows)
    BY <1>2, <2>1 DEF Delivered
  <2>3. \A i \in 1 .. l : wire[i] \in rows /\ wire[i].sequence = watcher.after + i
    BY <1>2, <2>1 DEF Delivered, FollowsLog
  <2> QED
    BY <1>1, <1>4, <1>5, <2>1, <2>2, <2>3 DEF Delivered, FollowsLog
<1>9. Truthful'
  BY <1>1, <1>5 DEF StreamInv, Truthful, HandledTerminal
<1>10. Unbroken'
  BY <1>6 DEF Unbroken
<1> QED
  BY <1>7, <1>8, <1>9, <1>10 DEF StreamInv

-----------------------------------------------------------------------------
(* The client.                                                             *)

(* watchRun subscribes from the last event it printed.                     *)
LEMMA ConnectKeepsStream ==
  ASSUME StreamInv, Connect
  PROVE  StreamInv'
<1>1. /\ LogInv(StreamSubjects, {"none"})' /\ rows' = rows /\ (Ended' <=> Ended)
      /\ breaks' = breaks /\ wire' = <<>> /\ watcher.pc = "connect"
  BY LogUnmoved DEF StreamInv, StreamTypes, Connect
<1>2. /\ StreamTypes /\ watcher \in Watcher /\ watcher.after \in Nat
      /\ Cardinality(rows) \in Nat
  BY RowNumbers DEF StreamInv, StreamTypes, Watcher
<1>3. /\ watcher' \in Watcher /\ watcher'.pc = "reading" /\ watcher'.terminal = FALSE
      /\ watcher'.after = watcher.after /\ watcher'.handled = watcher.handled
      /\ watcher'.stream = watcher.stream
  BY <1>2 DEF Connect, StreamFrom, Watcher
<1>4. server' \in Server /\ server'.pc = "opening" /\ server'.after = watcher.after
  BY <1>2 DEF Connect, StreamFrom, Server
<1>5. wire' \in Seq(Event(StreamSubjects)) /\ Len(wire') = 0
  BY <1>1, EmptySeq
<1>6. StreamTypes'
  BY <1>1, <1>2, <1>3, <1>4, <1>5 DEF StreamTypes
<1>7. Delivered'
  <2>1. Delivered /\ wire = <<>> /\ Len(wire) = 0
    BY <1>1, EmptySeq DEF StreamInv, Delivered
  <2>2. watcher.after + 0 <= Cardinality(rows) /\ watcher.after = watcher.after + 0
    BY <1>2, <2>1 DEF Delivered
  <2> QED
    BY <1>1, <1>3, <1>4, <1>5, <2>1, <2>2 DEF Delivered, FollowsLog
<1>8. Truthful'
  BY <1>1, <1>3, <1>4 DEF StreamInv, Truthful, HandledTerminal
<1>9. Unbroken'
  <2>1. Unbroken
    BY DEF StreamInv
  <2>2. breaks = 0 => ~HandledTerminal'
    <3>1. breaks = 0 => watcher.handled = <<>>
      BY <1>1, <2>1 DEF Unbroken
    <3>2. Len(<<>>) = 0
      BY EmptySeq
    <3> QED
      BY <1>3, <3>1, <3>2 DEF HandledTerminal
  <2> QED
    BY <1>1, <1>3, <1>4, <2>1, <2>2 DEF Unbroken
<1> QED
  BY <1>6, <1>7, <1>8, <1>9 DEF StreamInv

(* StreamEvents takes the next event: it is the next row of the log, so it *)
(* is never dropped as one that was seen before.                           *)
LEMMA ReceiveKeepsStream ==
  ASSUME StreamInv, Receive
  PROVE  StreamInv'
<1> DEFINE e == Head(wire)
           a == watcher.after
           h == watcher.handled
           n == Cardinality(rows)
           terminal == watcher.terminal \/ terminalEvent(e)
<1>1. /\ LogInv(StreamSubjects, {"none"})' /\ rows' = rows /\ (Ended' <=> Ended)
      /\ breaks' = breaks /\ server' = server /\ wire' = Tail(wire)
      /\ watcher.pc = "reading" /\ wire # <<>>
  BY LogUnmoved DEF StreamInv, StreamTypes, Receive
<1>2. /\ StreamTypes /\ watcher \in Watcher /\ wire \in Seq(Event(StreamSubjects))
      /\ a \in Nat /\ n \in Nat /\ h \in Seq(Event(StreamSubjects))
      /\ watcher.terminal \in BOOLEAN
  BY RowNumbers DEF StreamInv, StreamTypes, Watcher
<1>3. /\ e \in Event(StreamSubjects) /\ wire' \in Seq(Event(StreamSubjects))
      /\ Len(wire) \in Nat \ {0} /\ Len(wire') = Len(wire) - 1
      /\ \A i \in 1 .. Len(wire') : wire'[i] = wire[i + 1]
  BY <1>1, <1>2, HeadTailProperties, EmptySeq
<1>4. e = wire[1]
  BY <1>1, <1>2
<1>5. Delivered /\ Len(h) = a /\ FollowsLog(h, 0) /\ FollowsLog(wire, a)
        /\ a + Len(wire) <= n
  BY DEF StreamInv, Delivered
<1>6. e \in rows /\ e.sequence = a + 1
  BY <1>3, <1>4, <1>5 DEF FollowsLog
<1>7. terminal \in BOOLEAN
  BY DEF terminalEvent
<1>8. watcher' = [watcher EXCEPT !.after = e.sequence, !.handled = Append(h, e),
                                 !.terminal = terminal]
  BY <1>2, <1>6 DEF Receive
<1>9. /\ Append(h, e) \in Seq(Event(StreamSubjects)) /\ Len(Append(h, e)) = a + 1
      /\ \A i \in 1 .. a : Append(h, e)[i] = h[i]
      /\ Append(h, e)[a + 1] = e
  BY <1>2, <1>3, <1>5, AppendProperties
<1> DEFINE k == Append(h, e)
<1> HIDE DEF e, terminal, k
<1>10. /\ watcher' \in Watcher /\ watcher'.pc = watcher.pc /\ watcher'.after = a + 1
       /\ watcher'.handled = k /\ watcher'.terminal = terminal
       /\ watcher'.stream = watcher.stream
  <2>1. k \in Seq(Event(StreamSubjects)) /\ e.sequence = a + 1 /\ a + 1 \in Nat
    BY <1>2, <1>6, <1>9 DEF k
  <2>2. watcher' = [watcher EXCEPT !.after = a + 1, !.handled = k, !.terminal = terminal]
    BY <1>8, <2>1 DEF k
  <2> DEFINE b == a + 1
  <2> HIDE DEF b
  <2> QED
    BY <1>2, <1>7, <2>1, <2>2 DEF Watcher, b
<1>11. StreamTypes'
  BY <1>1, <1>2, <1>3, <1>10 DEF StreamTypes
<1>12. (a + 1) + Len(wire') = a + Len(wire)
  BY <1>2, <1>3
<1>13. Delivered'
  <2>1. \A i \in 1 .. Len(k) : k[i] \in rows /\ k[i].sequence = 0 + i
    <3> SUFFICES ASSUME NEW i \in 1 .. a + 1
                 PROVE  k[i] \in rows /\ k[i].sequence = 0 + i
      BY <1>9 DEF k
    <3>1. CASE i = a + 1
      BY <1>2, <1>6, <1>9, <3>1 DEF k
    <3>2. CASE i # a + 1
      <4>1. i \in 1 .. a /\ k[i] = h[i]
        BY <1>2, <1>9, <3>2 DEF k
      <4> QED
        BY <1>5, <4>1 DEF FollowsLog
    <3> QED
      BY <3>1, <3>2
  <2>2. \A i \in 1 .. Len(wire') : wire'[i] \in rows /\ wire'[i].sequence = (a + 1) + i
    <3> SUFFICES ASSUME NEW i \in 1 .. Len(wire')
                 PROVE  wire'[i] \in rows /\ wire'[i].sequence = (a + 1) + i
      OBVIOUS
    <3>1. i + 1 \in 1 .. Len(wire) /\ wire'[i] = wire[i + 1]
      BY <1>3
    <3>2. wire[i + 1] \in rows /\ wire[i + 1].sequence = a + (i + 1)
      BY <1>5, <3>1 DEF FollowsLog
    <3> QED
      BY <1>2, <3>1, <3>2
  <2>3. Len(k) = a + 1
    BY <1>9 DEF k
  <2> HIDE DEF a, n
  <2>4. FollowsLog(watcher.handled, 0)' /\ FollowsLog(wire, watcher.after)'
    BY <1>1, <1>10, <2>1, <2>2 DEF FollowsLog
  <2>5. /\ watcher'.after + Len(wire') <= Cardinality(rows')
        /\ server.pc # "closed" => server.after = watcher'.after + Len(wire')
    BY <1>1, <1>5, <1>10, <1>12 DEF Delivered, a, n
  <2> QED
    BY <1>1, <1>10, <2>3, <2>4, <2>5 DEF Delivered
<1>14. HandledTerminal' <=> HandledTerminal \/ terminalEvent(e)
  <2>1. HandledTerminal' <=> \E i \in 1 .. a + 1 : terminalEvent(k[i])
    BY <1>9, <1>10 DEF HandledTerminal, k
  <2>2. HandledTerminal <=> \E i \in 1 .. a : terminalEvent(h[i])
    BY <1>5 DEF HandledTerminal
  <2>3. \A i : i \in 1 .. a + 1 <=> i \in 1 .. a \/ i = a + 1
    BY <1>2
  <2>4. k[a + 1] = e /\ \A i \in 1 .. a : k[i] = h[i]
    BY <1>9 DEF k
  <2> HIDE DEF a, h
  <2> QED
    BY <2>1, <2>2, <2>3, <2>4
<1>15. Truthful'
  BY <1>1, <1>10, <1>14 DEF StreamInv, Truthful, terminal
<1>16. Unbroken'
  <2>1. Unbroken
    BY DEF StreamInv
  <2>2. TerminalBy(watcher.after + Len(wire)) => TerminalBy(watcher.after + Len(wire))'
    BY <1>1, <1>10, <1>12 DEF TerminalBy
  <2> QED
    BY <1>1, <1>10, <1>14, <2>1, <2>2 DEF Unbroken, terminal
<1> QED
  BY <1>11, <1>13, <1>15, <1>16 DEF StreamInv

(* A terminal row that is within what was handled was handled.             *)
LEMMA TerminalHandled ==
  ASSUME StreamInv, TerminalBy(watcher.after)
  PROVE  HandledTerminal
<1>1. PICK e \in rows : terminalEvent(e) /\ e.sequence <= watcher.after
  BY DEF TerminalBy
<1>2. e.sequence \in 1 .. Cardinality(rows) /\ watcher.after \in Nat
        /\ Cardinality(rows) \in Nat
  BY RowNumbers DEF StreamInv, StreamTypes, Watcher
<1>3. e.sequence \in 1 .. Len(watcher.handled)
  BY <1>1, <1>2 DEF StreamInv, Delivered
<1> DEFINE d == watcher.handled[e.sequence]
<1>4. d \in rows /\ d.sequence = e.sequence
  BY <1>2, <1>3 DEF StreamInv, Delivered, FollowsLog
<1>5. d = e
  BY <1>4, RowNumbers DEF StreamInv, StreamTypes
<1> QED
  BY <1>1, <1>3, <1>5 DEF HandledTerminal

(* StreamEvents returns at the end of the body.                            *)
LEMMA StreamEndsKeepsStream ==
  ASSUME StreamInv, StreamEnds
  PROVE  StreamInv'
<1>1. /\ LogInv(StreamSubjects, {"none"})' /\ rows' = rows /\ (Ended' <=> Ended)
      /\ breaks' = breaks /\ server' = server /\ wire' = wire
      /\ watcher.pc = "reading" /\ wire = <<>> /\ server.pc = "closed"
  BY LogUnmoved DEF StreamInv, StreamTypes, StreamEnds
<1>2. StreamTypes /\ watcher \in Watcher /\ watcher.after \in Nat /\ Len(wire) = 0
  BY <1>1, EmptySeq DEF StreamInv, StreamTypes, Watcher
<1>3. /\ EndOfStream \in {"complete", "interrupted"}
      /\ EndOfStream = "complete" <=> watcher.terminal
  BY DEF EndOfStream
<1>4. /\ watcher' \in Watcher /\ watcher'.pc = "asking" /\ watcher'.after = watcher.after
      /\ watcher'.handled = watcher.handled /\ watcher'.terminal = watcher.terminal
      /\ watcher'.stream = EndOfStream
  BY <1>2, <1>3 DEF StreamEnds, Watcher
<1>5. StreamTypes'
  BY <1>1, <1>2, <1>4 DEF StreamTypes
<1>6. Delivered'
  BY <1>1, <1>4 DEF StreamInv, Delivered, FollowsLog
<1>7. Truthful'
  BY <1>1, <1>3, <1>4 DEF StreamInv, Truthful, HandledTerminal
<1>8. Unbroken'
  <2>1. Unbroken
    BY DEF StreamInv
  <2>2. breaks = 0 => Ended /\ TerminalBy(watcher.after + 0)
    BY <1>1, <1>2, <2>1 DEF Unbroken
  <2>3. breaks = 0 => watcher.terminal
    <3>1. watcher.after + 0 = watcher.after
      BY <1>2
    <3> QED
      BY <2>1, <2>2, <3>1, TerminalHandled DEF Unbroken
  <2> QED
    BY <1>1, <1>3, <1>4, <2>1, <2>2, <2>3 DEF Unbroken, HandledTerminal
<1> QED
  BY <1>5, <1>6, <1>7, <1>8 DEF StreamInv

(* watchRun asks for the Run, and the answer may be an error.              *)
LEMMA AskKeepsStream ==
  ASSUME StreamInv, Ask \/ AskFails
  PROVE  StreamInv'
<1>1. /\ LogInv(StreamSubjects, {"none"})' /\ rows' = rows /\ (Ended' <=> Ended)
      /\ server' = server /\ wire' = wire /\ watcher.pc = "asking"
  BY LogUnmoved DEF StreamInv, StreamTypes, Ask, AskFails
<1>2. StreamTypes /\ watcher \in Watcher /\ breaks \in 0 .. MaxBreaks
  BY DEF StreamInv, StreamTypes
<1>3. /\ watcher' \in Watcher /\ watcher'.pc \in {"returned", "connect"}
      /\ watcher'.after = watcher.after
      /\ watcher'.handled = watcher.handled /\ watcher'.terminal = watcher.terminal
      /\ watcher'.stream = watcher.stream
      /\ breaks' = 0 => breaks = 0 /\ (watcher'.pc = "connect" => ~Ended)
      /\ breaks' \in 0 .. MaxBreaks
  <2>1. CASE Ask /\ Ended
    BY <1>2, <2>1 DEF Ask, Watcher
  <2>2. CASE Ask /\ ~Ended
    BY <1>2, <2>2 DEF Ask, Watcher
  <2>3. CASE AskFails
    <3>1. breaks' \in 0 .. MaxBreaks /\ breaks' # 0
      BY <1>2, <2>3, StreamAssumption DEF AskFails
    <3> QED
      BY <1>2, <2>3, <3>1 DEF AskFails, Watcher
  <2> QED
    BY <2>1, <2>2, <2>3
<1>4. StreamTypes'
  BY <1>1, <1>2, <1>3 DEF StreamTypes
<1>5. wire = <<>> /\ server.pc = "closed"
  BY <1>1 DEF StreamInv, Delivered
<1>6. Delivered'
  BY <1>1, <1>3, <1>5 DEF StreamInv, Delivered, FollowsLog
<1>7. Truthful'
  BY <1>1, <1>3 DEF StreamInv, Truthful, HandledTerminal
<1>8. Unbroken'
  <2>1. Unbroken
    BY DEF StreamInv
  <2> QED
    BY <1>1, <1>3, <2>1 DEF Unbroken, HandledTerminal
<1> QED
  BY <1>4, <1>6, <1>7, <1>8 DEF StreamInv

-----------------------------------------------------------------------------
(* The invariant holds before anyone writes or watches.                    *)
LEMMA InitStream == StreamInit => StreamInv
<1> SUFFICES ASSUME StreamInit PROVE StreamInv
  OBVIOUS
<1>1. LogInv(StreamSubjects, {"none"}) /\ rows = {} /\ changes = {}
  BY LogInitKeepsLog DEF StreamInit, LogInit, StreamSubjects
<1>2. /\ server = [pc |-> "closed", after |-> 0] /\ wire = <<>> /\ breaks = 0
      /\ watcher = [pc |-> "connect", after |-> 0, terminal |-> FALSE,
                    handled |-> <<>>, stream |-> "none", result |-> "none"]
  BY DEF StreamInit
<1>3. <<>> \in Seq(Event(StreamSubjects)) /\ Len(<<>>) = 0
  BY EmptySeq
<1>4. Cardinality(rows) = 0
  BY <1>1, FS_EmptySet
<1>5. StreamTypes
  BY <1>1, <1>2, <1>3, StreamAssumption DEF StreamTypes, Server, Watcher
<1>6. Delivered
  BY <1>2, <1>3, <1>4 DEF Delivered, FollowsLog
<1>7. ~Ended
  BY <1>1 DEF Ended, Done
<1>8. ~HandledTerminal
  BY <1>2, <1>3 DEF HandledTerminal
<1>9. Truthful /\ Unbroken
  BY <1>2, <1>7, <1>8 DEF Truthful, Unbroken
<1> QED
  BY <1>5, <1>6, <1>9 DEF StreamInv

(* Every step of the writers, the handler, the client and the network      *)
(* keeps the invariant.                                                    *)
LEMMA AlwaysStreamInv == StreamSpec => []StreamInv
<1>1. StreamInv /\ [StreamNext]_streamVars => StreamInv'
  <2> SUFFICES ASSUME StreamInv, [StreamNext]_streamVars PROVE StreamInv'
    OBVIOUS
  <2>1. CASE LogStep /\ UNCHANGED connVars
    BY <2>1, LogStepKeepsStream
  <2>2. CASE ServerStep
    BY <2>2, ServerKeepsStream
  <2>3. CASE WatcherStep
    BY <2>3, ConnectKeepsStream, ReceiveKeepsStream, StreamEndsKeepsStream,
       AskKeepsStream DEF WatcherStep
  <2>4. CASE Breaks
    BY <2>4, BreaksKeepsStream
  <2>5. CASE AskFails
    BY <2>5, AskKeepsStream
  <2>6. CASE UNCHANGED streamVars
    <3>1. UNCHANGED logVars /\ UNCHANGED connVars
      BY <2>6 DEF streamVars
    <3>2. /\ LogInv(StreamSubjects, {"none"})' /\ rows' = rows /\ (Ended' <=> Ended)
      BY <3>1, LogUnmoved DEF StreamInv, StreamTypes
    <3>3. server' = server /\ wire' = wire /\ watcher' = watcher /\ breaks' = breaks
      BY <3>1 DEF connVars
    <3>4. StreamTypes'
      BY <3>2, <3>3 DEF StreamInv, StreamTypes
    <3>5. Delivered'
      BY <3>2, <3>3 DEF StreamInv, Delivered, FollowsLog
    <3>6. Truthful'
      BY <3>2, <3>3 DEF StreamInv, Truthful, HandledTerminal
    <3>7. Unbroken'
      BY <3>2, <3>3 DEF StreamInv, Unbroken, HandledTerminal, TerminalBy
    <3> QED
      BY <3>4, <3>5, <3>6, <3>7 DEF StreamInv
  <2> QED
    BY <2>1, <2>2, <2>3, <2>4, <2>5, <2>6 DEF StreamNext
<1> QED
  BY <1>1, InitStream, PTL DEF StreamSpec

(* The stream tells the truth about its end: StreamEvents returns nil only *)
(* to a caller that was given the terminal event, an unbroken stream of a  *)
(* Run that has ended contains it, and the log has neither gaps nor        *)
(* duplicate numbers.                                                      *)
THEOREM StreamAlwaysSound == StreamSpec => []StreamSound
<1>1. StreamInv => StreamSound
  <2> SUFFICES ASSUME StreamInv PROVE StreamSound
    OBVIOUS
  <2>1. /\ LogInv(StreamSubjects, {"none"}) /\ watcher \in Watcher /\ server \in Server
        /\ breaks \in 0 .. MaxBreaks
    BY DEF StreamInv, StreamTypes
  <2>2. \A e \in rows : e.sequence \in Nat \ {0}
    BY <2>1, RowNumbers
  <2>3. \A w \in Writers : tx[w].outcome \in {"none", "open", "done", "failed"}
    <3>1. tx \in [Writers -> Transaction(StreamSubjects, {"none"})]
      BY <2>1 DEF LogInv
    <3> QED
      BY <3>1 DEF Transaction
  <2>4. StreamTypeOK
    BY <2>1, <2>2, <2>3 DEF StreamTypeOK, LogTypeOK, Server, Watcher
  <2>5. NoGaps
    BY <2>1 DEF LogInv
  <2>6. watcher.handled \in Seq(Event(StreamSubjects))
    BY <2>1 DEF Watcher
  <2>7. DOMAIN watcher.handled = 1 .. Len(watcher.handled)
    BY <2>6, LenProperties
  <2>8. CompleteMeansTerminal
    BY <2>7 DEF StreamInv, Truthful, CompleteMeansTerminal, HandledTerminal
  <2>9. UnbrokenIsComplete
    BY DEF StreamInv, Unbroken, UnbrokenIsComplete
  <2> QED
    BY <2>4, <2>5, <2>8, <2>9 DEF StreamSound
<1> QED
  BY <1>1, AlwaysStreamInv, PTL

(* Reconnecting neither loses, repeats nor reorders: the callback of       *)
(* StreamEvents has been given the log up to some point, however many      *)
(* connections watchRun needed and whatever is committed meanwhile.        *)
THEOREM HandledAlwaysPrefix == StreamSpec => []HandledIsPrefix
<1>1. StreamInv => HandledIsPrefix
  <2> SUFFICES ASSUME StreamInv PROVE HandledIsPrefix
    OBVIOUS
  <2> DEFINE h == watcher.handled
             E == EventsAfter(0)
             n == Cardinality(rows)
             l == Len(h)
  <2>1. /\ LogInv(StreamSubjects, {"none"}) /\ h \in Seq(Event(StreamSubjects))
        /\ n \in Nat /\ l \in Nat /\ watcher.after \in Nat /\ Len(wire) \in Nat
        /\ DOMAIN h = 1 .. l
    BY LenProperties, RowNumbers DEF StreamInv, StreamTypes, Watcher
  <2>2. l = watcher.after /\ watcher.after + Len(wire) <= n /\ FollowsLog(h, 0)
    BY DEF StreamInv, Delivered
  <2>3. l <= n
    BY <2>1, <2>2
  <2>4. E \in Seq(Event(StreamSubjects)) /\ Len(E) = n /\ FollowsLog(E, 0)
    BY <2>1, EventsAfterFollow
  <2> HIDE DEF h, E, n
  <2>5. \A i \in 1 .. l : h[i] = E[i] /\ h[i].sequence = i
    <3> SUFFICES ASSUME NEW i \in 1 .. l
                 PROVE  h[i] = E[i] /\ h[i].sequence = i
      OBVIOUS
    <3>1. /\ h[i] \in rows /\ h[i].sequence = 0 + i
          /\ E[i] \in rows /\ E[i].sequence = 0 + i
      BY <2>1, <2>2, <2>3, <2>4 DEF FollowsLog
    <3>2. h[i] = E[i]
      BY <2>1, <3>1, RowNumbers
    <3> QED
      BY <3>1, <3>2
  <2>6. SubSeq(h, 1, l) = SubSeq(E, 1, l)
    BY <2>1, <2>3, <2>4, <2>5
  <2>7. IsPrefix(h, E)
    BY <2>1, <2>3, <2>4, <2>6 DEF IsPrefix
  <2> QED
    BY <2>1, <2>5, <2>7 DEF HandledIsPrefix, h, E
<1> QED
  BY <1>1, AlwaysStreamInv, PTL
=============================================================================
