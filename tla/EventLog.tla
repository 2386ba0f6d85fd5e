------------------------------ MODULE EventLog ------------------------------
(***************************************************************************)
(* The event log of one Run in PostgreSQL, at the level of statements.     *)
(*                                                                         *)
(* Every call that records something appends events in the transaction     *)
(* that changes the other rows: it reads the highest sequence number it    *)
(* can see, adds one and inserts.  Calls made under a lease, CancelRun and  *)
(* the reconciler lock the row of the Run first; ResolveInteraction locks  *)
(* the row of the interaction only.  Two transactions can therefore read    *)
(* the same number, and UNIQUE (run_id, sequence) lets one of them commit. *)
(*                                                                         *)
(* Transactions run at READ COMMITTED: a statement sees the rows committed *)
(* before it and those of its own transaction, and an insertion waits for  *)
(* the transaction that holds the same key.                                *)
(***************************************************************************)
EXTENDS Naturals, Sequences, FiniteSets

CONSTANTS
  Writers,       \* connections that run transactions
  Interactions   \* questions a runtime may ask

VARIABLES
  rows,     \* the committed rows of relay_events
  changes,  \* what the committed transactions did to the other tables
  tx        \* the transaction of each writer

logVars == <<rows, changes, tx>>

(* What each kind of transaction appends.  "append" stands for AppendEvent  *)
(* and for the lifecycle events before the last one.                       *)
Appends ==
  [append   |-> <<"runtime.output">>,
   record   |-> <<"capability.recorded">>,
   artifact |-> <<"artifact.created">>,
   create   |-> <<"interaction.requested">>,
   resolve  |-> <<"interaction.resolved">>,
   succeed  |-> <<"attempt.succeeded", "run.succeeded">>,
   fail     |-> <<"attempt.failed", "run.failed">>]

Kinds == DOMAIN Appends

Done(kind) == {c \in changes : c.kind = kind}

Changed(kind, subject) == \E c \in Done(kind) : c.subject = subject

(* relay_runs.status is terminal.                                          *)
Ended == Done("succeed") \union Done("fail") # {}

Idle == [kind |-> "none", subject |-> "none", value |-> "none",
         sequence |-> 0, inserted |-> {}, outcome |-> "none"]

LogInit ==
  /\ rows = {} /\ changes = {}
  /\ tx = [w \in Writers |-> Idle]

-----------------------------------------------------------------------------
Open(w) == tx[w].outcome = "open"

(* FOR UPDATE: of the Run for all kinds but one, of the interaction for    *)
(* that one.                                                               *)
LockFree(kind, subject) ==
  \A w \in Writers :
    Open(w) => IF kind = "resolve"
               THEN tx[w].kind = "resolve" => tx[w].subject # subject
               ELSE tx[w].kind = "resolve"

(* Mutant: a resolved interaction can be resolved again. *)
AdmittedAgain(kind, subject) ==
  CASE kind = "record"  -> TRUE
    [] kind = "resolve" -> Changed("create", subject)
    [] OTHER            -> ~Ended

(* What the transaction checks once it has its lock.  FinishCapability and *)
(* ResolveInteraction do not ask whether the Run has ended.                *)
Admitted(kind, subject) ==
  CASE kind = "record"  -> TRUE
    [] kind = "resolve" -> Changed("create", subject)
                           /\ ~Changed("resolve", subject)
    [] OTHER            -> ~Ended

Sequences(events) == {e.sequence : e \in events}

Begin(w, kind, subject, value) ==
  /\ ~Open(w)
  /\ LockFree(kind, subject)
  /\ Admitted(kind, subject)
  /\ tx' = [tx EXCEPT ![w] =
              [Idle EXCEPT !.kind = kind, !.subject = subject,
                           !.value = value, !.outcome = "open"]]
  /\ UNCHANGED <<rows, changes>>

(* COALESCE(MAX(sequence), 0) + 1 over the rows this statement can see.    *)
NextSequence(w) ==
  LET seen == Sequences(rows \union tx[w].inserted) \union {0}
  IN  1 + (CHOOSE n \in seen : \A m \in seen : m <= n)

Pending(w) == Len(Appends[tx[w].kind]) > Cardinality(tx[w].inserted)

(* appendEvent, first statement.                                           *)
ReadSequence(w) ==
  /\ Open(w) /\ Pending(w)
  /\ tx[w].sequence = 0
  /\ tx' = [tx EXCEPT ![w].sequence = NextSequence(w)]
  /\ UNCHANGED <<rows, changes>>

(* UNIQUE (run_id, sequence).                                              *)
Conflict(w) == tx[w].sequence \in Sequences(rows)

(* An insertion waits while another open transaction holds the key.        *)
Waits(w) ==
  \E v \in Writers \ {w} : Open(v) /\ tx[w].sequence \in Sequences(tx[v].inserted)

(* appendEvent, second statement.                                          *)
insertEvent(w) ==
  LET t     == tx[w]
      event == [sequence |-> t.sequence, subject |-> t.subject,
                type |-> Appends[t.kind][Cardinality(t.inserted) + 1]]
  IN  /\ Open(w)
      /\ t.sequence # 0
      /\ ~Conflict(w) /\ ~Waits(w)
      /\ tx' = [tx EXCEPT ![w].sequence = 0,
                          ![w].inserted = @ \union {event}]
      /\ UNCHANGED <<rows, changes>>

Ends(w, outcome) == tx' = [tx EXCEPT ![w] = [Idle EXCEPT !.outcome = outcome]]

(* The constraint fails, or the connection is lost: nothing remains.       *)
Rollback(w) ==
  /\ Open(w)
  /\ Ends(w, "failed")
  /\ UNCHANGED <<rows, changes>>

Violates(w) == tx[w].sequence # 0 /\ Conflict(w) /\ Rollback(w)

(* The caller may not learn that its transaction was committed.            *)
Commit(w, outcome) ==
  LET t == tx[w] IN
  /\ Open(w) /\ ~Pending(w)
  /\ rows' = rows \union t.inserted
  /\ changes' = changes \union
       {[kind |-> t.kind, subject |-> t.subject, value |-> t.value]}
  /\ Ends(w, outcome)

(* A transaction that is under way goes on.                                *)
Proceeds(w) == ReadSequence(w) \/ insertEvent(w) \/ Violates(w) \/ Commit(w, "done")

-----------------------------------------------------------------------------
LogTypeOK ==
  /\ \A e \in rows : e.sequence \in Nat \ {0}
  /\ \A w \in Writers : tx[w].outcome \in {"none", "open", "done", "failed"}

(* Sequence numbers are unique and without gaps: two transactions that read *)
(* the same number never both commit, and one that rolls back leaves none. *)
NoGaps == Sequences(rows) = 1 .. Cardinality(rows)
=============================================================================
