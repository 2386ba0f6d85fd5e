------------------------------ MODULE RunRecords ------------------------------
(***************************************************************************)
(* What the two implementations of Storage (postgres.Store and             *)
(* MemoryStorage) have in common: the record of a Run with its Attempts,   *)
(* lease and lifecycle events, and the promises made about these records   *)
(* whatever the store.                                                     *)
(*                                                                         *)
(* Clocks are abstracted to what the code compares: a lease has `ttl' units *)
(* left (0 when it has expired), a deadline is ahead or passed, a retry is *)
(* available or still backing off.                                         *)
(***************************************************************************)
EXTENDS RunTypes, FiniteSets

CONSTANTS
  Runs,            \* idempotency scopes a client may submit (one Run each)
  Nodes,           \* Node ids
  Results,         \* results a Node may report
  Causes,          \* failure causes a Node may report
  LeaseExpired,    \* the cause Reconcile records: "attempt lease expired"
  NoValue,         \* NULL: no node, no result, no error
  Compatible,      \* pairs <<n, r>> for which nodeMatches holds
  Capacities,      \* capacities a Node may register with
  MaxAttempts,     \* request.Retry.MaxAttempts
  LeaseTTL,        \* length of a lease, in clock units
  ReconcileLimit,  \* the limit argument of Reconcile
  MaxGrants        \* bound: unstarted leases expire while fewer were granted

ASSUME ConstantsAssumption ==
  /\ Compatible \subseteq Nodes \X Runs
  /\ Capacities \subseteq Nat \ {0}
  /\ MaxAttempts \in Nat \ {0}
  /\ LeaseTTL \in Nat \ {0}
  /\ ReconcileLimit \in Nat \ {0}
  /\ MaxGrants \in Nat
  /\ NoValue \notin Nodes \union Results \union Causes \union {LeaseExpired}

VARIABLE runs      \* the record of each Run

-----------------------------------------------------------------------------
(* Rows.  The lease columns are those of the current Attempt: the ones of  *)
(* an earlier Attempt are never read again.  grants[k] is the number of    *)
(* the Attempt token k was granted for; newID never repeats a token, so    *)
(* the k-th token of a Run is the number k and 0 is the empty string.      *)
(* log holds the lifecycle events of the Run in the order of their         *)
(* sequence numbers; the events of producers, artifacts, capability calls  *)
(* and interactions, which no transaction here reads, are not in it.       *)

Outcomes == Results \union Causes \union {LeaseExpired}

Run ==
  [status          : RunStatuses \union {"absent"},
   cancelRequested : BOOLEAN,
   deadline        : {"none", "ahead", "passed"},
   outcome         : Outcomes \union {NoValue},
   attempts        : Seq(AttemptStatuses),
   available       : BOOLEAN,
   node            : Nodes \union {NoValue},
   token           : Nat,
   ttl             : Nat,
   grants          : Seq(Nat),
   log             : Seq([type : EventTypes, attempt : Nat])]

AbsentRun ==
  [status |-> "absent", cancelRequested |-> FALSE, deadline |-> "none",
   outcome |-> NoValue, attempts |-> <<>>, available |-> FALSE,
   node |-> NoValue, token |-> 0, ttl |-> 0, grants |-> <<>>, log |-> <<>>]

Submitted(deadline) ==
  [status |-> "queued", cancelRequested |-> FALSE, deadline |-> deadline,
   outcome |-> NoValue, attempts |-> <<"queued">>, available |-> TRUE,
   node |-> NoValue, token |-> 0, ttl |-> 0, grants |-> <<>>,
   log |-> <<Event("run.created", 1), Event("attempt.queued", 1)>>]

Number(x) == Len(x.attempts)

AttemptStatus(x) == x.attempts[Number(x)]

SetAttempt(x, status) == [x.attempts EXCEPT ![Number(x)] = status]

appendEvent(x, type) == Append(x.log, Event(type, Number(x)))

appendEvents(x, first, second) ==
  Append(appendEvent(x, first), Event(second, Number(x)))

-----------------------------------------------------------------------------
(* Promises.                                                               *)

(* The status of a Run and the statuses of its Attempts are written by     *)
(* separate UPDATEs in nine transactions; in every reachable state they    *)
(* tell the same story.  In particular a cancelling Run has an Attempt a    *)
(* Node may still acknowledge or the reconciler will find, all Attempts    *)
(* but the current one are lost, and no Run exceeds its retry policy.      *)
CurrentAttemptOf ==
  [status \in RunStatuses |->
     CASE status = "queued"     -> {"queued", "leased"}
       [] status = "running"    -> {"running"}
       [] status = "cancelling" -> {"leased", "running"}
       [] status = "cancelled"  -> {"cancelled"}
       [] status = "succeeded"  -> {"succeeded"}
       [] status = "failed"     -> {"failed", "lost"}]

Coherent(x) ==
  IF x.status = "absent" THEN x = AbsentRun
  ELSE /\ Number(x) \in 1 .. MaxAttempts
       /\ AttemptStatus(x) \in CurrentAttemptOf[x.status]
       /\ \A i \in 1 .. Number(x) - 1 : x.attempts[i] = "lost"
       /\ x.cancelRequested <=> x.status \in {"cancelling", "cancelled"}
       /\ x.outcome # NoValue <=> x.status \in {"succeeded", "failed"}

RunsCoherent == \A r \in Runs : Coherent(runs[r])

(* Lease fencing: the token on a row is the last one granted, it was        *)
(* granted for the current Attempt, and an Attempt a Node may be working   *)
(* on has a token.  With unique tokens this leaves one holder per Run.     *)
Fenced(x) ==
  /\ x.token \in {0, Len(x.grants)}
  /\ x.token > 0 => x.grants[x.token] = Number(x)
  /\ x.status # "absent" /\ AttemptStatus(x) \in {"leased", "running"}
       => x.token > 0
  /\ x.token = 0 => x.ttl = 0

LeasesFenced == \A r \in Runs : Fenced(runs[r])

(* The event log tells what the rows say: the last event that announces a  *)
(* status announces the present one, each Attempt was queued once, and no  *)
(* lifecycle event follows a terminal one.  streamEvents and its clients   *)
(* rely on it: they follow a Run by its events alone.                      *)
LogTellsStatus(x) ==
  x.status # "absent" =>
    \E i \in DOMAIN x.log :
      /\ x.log[i].type \in DOMAIN RunStatusOf
      /\ RunStatusOf[x.log[i].type] = x.status
      /\ \A j \in DOMAIN x.log :
           j > i => x.log[j].type \notin DOMAIN RunStatusOf

(* An Attempt is executed by one Node at most once: no interleaving of     *)
(* claims, expiries, late Start calls and retries starts it twice.         *)
StartedOnce(x) ==
  \A i, j \in DOMAIN x.log :
    x.log[i].type = "attempt.started" /\ x.log[i] = x.log[j] => i = j

LogIsFaithful ==
  \A r \in Runs :
    LET log == runs[r].log IN
    /\ LogTellsStatus(runs[r])
    /\ \A i \in DOMAIN log : log[i].type \in TerminalEvents => i = Len(log)
    /\ \A n \in 1 .. Number(runs[r]) :
         Cardinality({i \in DOMAIN log :
                        log[i] = Event("attempt.queued", n)}) = 1
    /\ StartedOnce(runs[r])

(* A lease that has not expired is never taken from its holder, and once   *)
(* the Attempt runs its token is never replaced: Claim cannot hand out a   *)
(* second token for an Attempt that was started.                           *)
LeaseNotStolen ==
  [][\A r \in Runs :
       LET x == runs[r]
           y == runs'[r]
       IN  x.token # 0 /\ y.token # x.token =>
             /\ x.ttl = 0
             /\ \/ Number(y) = Number(x) /\ AttemptStatus(x) = "leased"
                \/ Number(y) = Number(x) + 1 /\ AttemptStatus(x) = "running"
                     /\ y.attempts[Number(x)] = "lost"]_runs

(* The first terminal status wins for good: late reports, cancellations,   *)
(* deadlines and reconciliations leave a finished Run, its Attempts and    *)
(* its lifecycle events as they are.                                       *)
TerminalIsFinal ==
  [][\A r \in Runs :
       terminalRunStatus(runs[r].status) =>
         /\ runs'[r].status = runs[r].status
         /\ runs'[r].outcome = runs[r].outcome
         /\ runs'[r].attempts = runs[r].attempts
         /\ runs'[r].log = runs[r].log]_runs

(* A cancellation always completes, by acknowledgement of the Node or, if   *)
(* the Node is gone, by the reconciler once the lease has expired.         *)
CancellationCompletes ==
  \A r \in Runs :
    runs[r].status = "cancelling" ~> runs[r].status = "cancelled"

(* A Run whose deadline has passed ends, whatever its Node does.           *)
DeadlineEnforced ==
  \A r \in Runs :
    runs[r].deadline = "passed" ~> terminalRunStatus(runs[r].status)

(* A running Attempt whose lease expired does not stay running: the        *)
(* reconciler marks it lost or cancelled.                                  *)
ExpiredAttemptRecovered ==
  \A r \in Runs, n \in 1 .. MaxAttempts :
    (/\ Number(runs[r]) = n
     /\ runs[r].attempts[n] = "running"
     /\ runs[r].ttl = 0)
    ~> (/\ n \in DOMAIN runs[r].attempts
        /\ runs[r].attempts[n] \in {"lost", "cancelled"})

(* A lease that expires before the Attempt was started is handed out again, *)
(* or the Run is cancelled.                                                *)
UnstartedLeaseReclaimed ==
  \A r \in Runs :
    (/\ runs[r].status = "queued"
     /\ AttemptStatus(runs[r]) = "leased"
     /\ runs[r].ttl = 0)
    ~> (runs[r].status # "queued" \/ runs[r].ttl > 0)

(* The abstract Run the client sees: what GetRun returns of the row.        *)
View(x) == [status |-> x.status, tries |-> Number(x), outcome |-> x.outcome]

Lifecycle == INSTANCE RunLifecycle
               WITH job <- [r \in Runs |-> View(runs[r])]

(* Refinement: every behaviour of the store, with its leases, races and    *)
(* reconciliations, is one that RunLifecycle promises to clients.          *)
RefinesLifecycle == Lifecycle!Spec
=============================================================================
