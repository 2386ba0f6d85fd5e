# A TLA+ model of Relay

Relay is a control plane for agent executions.  Clients submit *Runs*; *Nodes*
poll the control plane, lease one *Attempt* of a Run at a time, execute it with a
local agent runtime and report events, artifacts and an outcome.  The control
plane keeps everything in one of two interchangeable stores (PostgreSQL or a
mutex-protected map) and a reconciler repairs what dead Nodes leave behind.

This directory holds the TLA+ modules that model it, the TLC configurations that
check them and the TLAPS proofs about them.  `PROJECT.json` lists components,
runs, mutants, the map from definitions to source lines, hazards, findings and
theorems.

## 1. Inventory

| Component | State | Operations | Talks to |
|---|---|---|---|
| Postgres store (`controlplane/postgres/store.go`) | rows for nodes, runs, attempts, events, artifacts, capability calls, interactions | Submit, Claim, Renew, Start, Complete, Fail, AcknowledgeCancellation, CancelRun, Reconcile, AppendEvent, AddArtifact, ReserveCapability/FinishCapability, Create/Get/ResolveInteraction | everything below, through `controlplane.Service` |
| In-memory storage (`controlplane/memory.go`) | the same as maps, plus a load counter per Node | the same | the same |
| Service (`controlplane/service.go`) | none (clock, lease TTL, blob store) | defaults, access checks, UploadArtifact (blob, then record, then undo) | store, blobs |
| Reconciler (`cmd/relay-server`) | none | Reconcile every 2 s, at most 100 rows | service |
| Node worker (`node/worker.go`, `final.go`, `events.go`) | one execution per slot, lease deadline, cancellation | RunOnce, keepLease, event delivery, final report with retries | HTTP client, outbox, executor |
| Node outbox (`node/outbox.go`) | one file per undelivered event | save, deliver, remove, Recover after a restart | disk, HTTP client |
| Capability invoker (`capability.go`) | map of calls by idempotency key | Call: join, reserve, invoke, record | store, bindings |
| HTTP API (`transport/httpapi`) | none | errors as status and message, authentication, one handler per call | store, Nodes, hosts |
| Event stream (`handler.go`, `client.go`, `relayctl watch`) | cursor of a subscriber | poll, tail read at the end, reconnect with `after` | store |
| Interactions (`store.go`, `node/worker.go`) | a question and its answer | create, poll, resolve | runtime, hosts |
| Artifacts (`service.go`, `file_blob.go`) | a record and a blob | upload with undo, open | store, blob store |
| Runtime executors (`runtime/codex`, `runtime/trae`, `runtime/process`) | a process group and its output | Execute with two protocols, cancel, kill | runtime, bridge |
| Tool bridge (`runtime/toolbridge`) | request and response files | file protocol between an agent and its Node | capability invoker |
| Workspace manager (`workspace/manager.go`) | directories | Prepare, Cleanup | git, file system |
| Engine (`engine.go`, `store.go`) | in-process runs and their events | Execute | executor, observer |
| Bindings, object store, SDK, console, adapters | | I/O | |

What is hard here: several Nodes and several claim loops of one Node call the
store at the same time; leases expire while calls are under way; a Node that
lost its lease is not stopped and keeps calling; responses are lost after the
commit and the call is repeated; a Node dies between any two calls; deadlines,
cancellations, reports and the reconciler race for the end of a Run.  The
hazards are listed in `PROJECT.json` at the line where each of them bites.

What makes each component correct:

* *stores*: rows that are written separately agree with each other and with the
  event log; at most one token acts on a Run; an Attempt is started at most
  once; the first outcome is final; capacity and retry policy are bounds; a
  cancellation, an expired lease and a passed deadline are always acted upon;
* *capability invoker*: one side effect per idempotency key, the right answer
  for the right request, every caller is answered;
* *node worker and outbox*: every event is delivered once, in order, or the
  Attempt fails; a Node that lost its lease stops; an outcome is reported;
* *event log and stream*: numbers without gaps although one writer does not lock
  the Run; a subscriber that reconnects sees every event once, in order, and is
  told the truth about the end of the stream;
* *interactions and artifacts*: one answer wins and arrives; a Run succeeds only
  with artifacts that can be opened; a report that loses a race is repeated;
* *HTTP API*: an error is taken for a verdict of the store only when the store sent it
  (of a success the client does not ask, section 5);
* *executors and bridge*: success is that of the own runtime; a cancelled
  execution returns, whatever its runtime left behind; a tool call is made once, for
  its own execution, and answered as long as bindings answer;
* *engine*: a key is executed once and no caller gets a Run nobody will finish.

## 2. Modules

| Module | Models | Correspondence |
|---|---|---|
| `RunTypes` | `types.go`, event types | statuses, terminal statuses, the status each event announces |
| `RunLifecycle` | nothing directly: the contract | what a client that only calls GetRun may observe |
| `RunRecords` | the record of a Run as both stores keep it | `runs[r]` is the row of `relay_runs` joined with the rows of `relay_attempts` and the lifecycle rows of `relay_events`; also the promises shared by both stores and the refinement mapping to `RunLifecycle` |
| `PostgresStore` | `controlplane/postgres/store.go`, runs and leases | one action per transaction; Claim, the one transaction that reads before it locks, is two (`ClaimBegin` takes the snapshot, `ClaimCommit` rechecks and writes) and any number of them are under way at once (`claims`) |
| `MemoryStorage` | `controlplane/memory.go`, runs, leases, load counter | one action per method (each holds the mutex throughout); `active` is `node.Active` |
| `CapabilityCalls` | `capability.go` and the reservations of both stores | the goroutines of the callers of every Attempt, each step up to the next lock or network call |
| `NodeWorker` | `node/worker.go`, `events.go`, `final.go`, `outbox.go`, AppendEvent of the store, the start of `cmd/relay-node` | extends `PostgresStore` and replaces its arbitrary callers by Nodes: `worker[n]` is the claim loop of a Node and the locals of its RunOnce, `files[n]` its outbox directory, `recorded` the rows of `relay_events` that AppendEvent wrote; one action per call, per return of the runtime and per step of the `keepLease` goroutine |
| `HttpApi` | `writeError` of the handler, `do` of the client, the refusals of `auth.go` | pure operators: the reply of the store, the response on the wire and what the Node takes it for; `ForeignStatuses` are the statuses of answers that are not the handler's; used by `NodeWorker` |
| `EventLog` | the appending transactions of `store.go`, statement by statement | `rows` are the rows of `relay_events`, `tx[w]` the transaction of a connection between its lock and its commit, `changes` what the committed ones did to other tables |
| `EventStream` | `streamEvents`, `StreamEvents`, `watchRun` | extends `EventLog`; `server` is the handler with its cursor, `wire` the bytes under way, `watcher` the client |
| `AttemptRecords` | interactions, artifacts and the final report: `interactionBroker`, `UploadArtifact`, `file_blob.go`, the store's part, `retryFinalReport` | extends `EventLog`; `node` is RunOnce from Execute on, `upload` the handler at work, `blobs` the blob store, `told` what the hosts know |
| `RuntimeExecution` | `runtime/codex`, `runtime/process`, `runtime/toolbridge/file.go`, `cmd/relay-tool`, the directories of `workspace/manager.go` | per execution: Execute, its process, what is left of its process group (`group`), the conversation of an App Server, its bridge; per call: the tool process; per directory: the files |
| `Engine` | `engine.go`, `store.go` | `call[c]` is a call of Execute with the saves and emits it still has to do, `emitting` the events appended and not yet observed |
| `RunRecordsProofs` | | what the proofs about the two stores have in common: one row and its log, the ways a row may change (`Changed`) and what a client sees of them |
| `EventLogProofs` | | the invariant of the log under any number of transactions, and with it the theorems about `AttemptRecords`, which write it, and `EventStream`, which reads it |
| `PostgresStoreProofs`, `MemoryStorageProofs`, `NodeWorkerProofs`, `CapabilityCallsProofs`, `RuntimeExecutionProofs`, `EngineProofs` | | the inductive invariant and the theorems of the module each is named after |
| `MCPostgresStore`, `MCMemoryStorage`, `MCNodeWorker` | | definitions for the configurations |

Definitions keep the name of the function they translate
(`requestCancelTx`, `finalizeCancellationTx`, `transition`, `requeueExpired`,
`finishCall`, ...).  A definition ending in a sentence "Mutant:" is a plausible
bug; `PROJECT.json` says which definition it stands in for and which property
notices.

### Abstractions

* *Time.*  A lease has `ttl` units left and counts down to 0 (expired); a
  deadline is none, ahead or passed; a retry is backing off or available.  The
  code only compares these instants with the present one.
* *Requests.*  A request is reduced to what the store looks at: whether it has a
  deadline, `Retry.MaxAttempts`, and which Nodes match it (`Compatible`).
  Submitting again under the same idempotency key changes nothing and is not an
  action of its own.
* *Tokens.*  `newID` does not repeat itself, so the k-th token granted for a Run
  is the number k.  `grants` remembers for which Attempt each was granted; the
  calls of Nodes range over *all* tokens ever granted, so that every stale
  holder keeps calling at every moment.
* *Log.*  `PostgresStore` and `MemoryStorage` keep the lifecycle events only, in
  transactions that are one step.  The other events are appended to the same
  table and read by nothing in these transactions; `EventLog` has them, and takes
  the transactions apart into lock, read of the highest number, insert and commit.
* *Calls that are refused* leave the Postgres rows alone (the transaction is
  rolled back), so only accepted calls are actions; the `...Reply` operators say
  which are accepted.  In the memory store a refused call can change a record
  (`authorize` gives an expired lease back), so there every call is an action
  with its reply.
* *Lost messages.*  A lost request is a call that does not happen, a lost
  response is followed by a repetition of the call with the same token, a dead
  Node is one that makes no further call: all three are contained in calls being
  possible at any time and never obliged to happen.
* *Nodes.*  `NodeWorker` gives every Node one claim loop, which is also its one
  Claim transaction.  There a lost request or response, a timeout and a crash are
  explicit (`Fault`): the effect of the call happens or not, and the Node sees an
  unknown outcome.  Retries within the deadline of an event or a final report
  repeat the action.  What the runtime does is a number of events followed by a
  result or an error; the upload of artifacts is one more reason for an error.
  An event is its position in the execution, so the comparison of contents in
  `SameEvent` always succeeds (the payload is frozen before it is saved).  The
  deadline `keepLease` compares with the local clock is an instant of the server's
  clock, and the two clocks are not related in the model: the keeper may give up
  at any time.  Recover's branch for ErrRunCancelled is absent because the store
  never answers AppendEvent with it.
* *Answers of others.*  A proxy or the authentication in front of the handler may
  answer instead of it.  An error is taken for what its status and the beginning of
  its message say; the beginning is reduced to who wrote it (`RecoverRejected`).  A
  2xx is believed by every call that expects no output: `Misled` lets Start, an
  event, a report, an acknowledgement and both calls of Recover go on although
  nothing reached the store.  Renew and Claim expect a body.  Without one the lease
  has ended for the keeper, which may give up at any time here, and the assignment
  has no known runtime, which ends RunOnce as if nothing had been claimed.
* *Claims of a crashed Node.*  The server ends them by itself, by commit or rollback
  (`OrphanClaimEnds`).  A Node that restarts has one claim slot and uses it when the
  old Claim has ended; the overlap of two is the race of `postgres_claim_race`.
* *Lost Attempts.*  In `AttemptRecords` the lease is not counted down: the token of
  the Node is refused from the moment the reconciler's transaction is open, and
  once the Run ended its keeper stops the execution (`GivenUp`, `RequestStopped`).
* *PostgreSQL.*  READ COMMITTED: a statement sees what is committed before it and
  its own transaction; FOR UPDATE waits; an insertion waits for the transaction
  that holds the same key and fails if that one commits (`Waits`, `Violates`).
* *Streams.*  A connection delivers in order and breaks at any point, losing a
  suffix.  Keepalives are comments and carry nothing.
* *Runtimes.*  What a runtime does is left open: it may write its final message,
  say anything in any order, call a tool, write a line that is too long, ignore a
  signal, hang or exit.  Protocol lines are named by what they carry.  The token
  of a bridge is the name of its execution.  Tools do not handle SIGTERM.  A runtime
  may leave a child behind that holds stdout and stderr, inside or outside its
  process group; the end of the output is the end of the last holder, or
  `WaitDelay`.  That is the Configure of unix; the one of Windows, which leaves the
  defaults of os/exec (only the process itself is killed and no `WaitDelay`), is not
  modelled.  `os.Remove` of a request that was read
  (`file.go:89`) is taken to succeed.
* *Artifacts.*  A blob is its key.  The object store and the in-memory blobs are
  taken to behave like the file store: a blob is there completely or not at all.

## 3. Runs

| Run | Instance | Shows |
|---|---|---|
| `postgres_run` | 1 Run, 2 Nodes of capacity 1, 2 concurrent claims, 2 results, 2 causes, 2 Attempts, leases of 2 units, 3 grants | rows, leases and log agree; nothing is started twice or stolen; the end is final; repeated reports are accepted; the store implements `RunLifecycle`; cancellation, deadline and expiry are always dealt with |
| `postgres_claim_race` | 2 Runs, 1 Node of capacity 1, 2 claims | **violation**: overlapping claims of one Node exceed its capacity |
| `memory_run` | 2 Runs, 1 Node of capacity 2, 2 Attempts, reconciler limit 1 | the promises of the Postgres store that the memory store keeps (`RecordsSound`), its load counter, the refinement and the recovery of expired Attempts |
| `capability_postgres` | 1 key, 2 callers in each of 2 Attempts, 2 targets, 2 inputs | one side effect per key; an Attempt gets the answer to the request with which it first used a key, input included; every call returns |
| `capability_inputs` | 1 key, 2 callers in 1 Attempt, 1 target, 2 inputs | **violation**: a caller that joins another one is given the result of another input |
| `node_safety` | 1 Run, 2 Nodes, 2 events, an outbox of 1 record, 2 faults, 3 grants | events once and in order and success only with all of them (`DeliverySound`), RunOnce returns what is on record, an event leaves the outbox only when the store answered for it, whatever errors others answer with |
| `node_liveness` | 1 Run, 1 Node, 2 events, an outbox of 1 record, 2 faults (a 200 and a 502 of a proxy included), 4 grants, leases of 2 units | a lost lease stops the runtime, recovery ends, a cancellation completes |
| `event_stream` | 2 connections that create and answer a question, record capabilities and fail the Run; a log of 4 events before the last two; 2 broken connections or failed calls | no gaps or duplicates in the log; the client is given a prefix of it across reconnections; an unbroken stream is complete and only a complete one says so; the watch returns |
| `attempt_records` | 1 question, 2 hosts, 2 artifacts, a final report and a reconciler on one log; 2 faults (failed polls and blob operations, ambiguous commits, crashes, timeouts) | one answer, which arrives unless a fault or the end of the Attempt intervenes; a Run succeeds only with openable artifacts; a report that loses its number is repeated |
| `runtime_execution` | 2 executions, one per protocol, of which one is started, in a directory of its own; 2 tool calls; codex exec may leave a child behind | a call is made once and within its execution; success is that of the own runtime; a cancelled execution returns; both calls are answered as long as bindings answer |
| `runtime_local_workspace` | 2 executions at once in one local workspace, 1 tool call | **violation**: a bridge takes and refuses a request of the other execution |
| `engine` | 3 calls, 2 keys, executors with 2 goroutines and 2 events | a key is executed once, the log follows the status, the observer misses nothing, every returned Run has ended or is being worked on |

Several invariants are conjunctions of named parts (`RecordsSound`,
`DeliverySound`, `StreamSound`, `ArtifactsSound`, `CallsSound`, `EngineSound`);
each part is stated and explained next to it, and TLC can be pointed at one of
them to see which is broken.

*Bounds.*  The interesting cases need two holders of a Run (a second token after an
expiry), one retry (`MaxAttempts` 2, so that both sides of the comparison are
reached), a lease that can be renewed before it ends (2 units), two concurrent
claims, and two Runs where they compete for capacity or for the limit of the
reconciler (the transactions of the Postgres store relate Runs only through the
capacity of a Node; reconciling many at once is part of the proofs).  `MaxGrants` is
the only bound that is not in the code: an unstarted lease may expire only while
fewer tokens were granted, which ends the otherwise endless cycle of claims that are
never followed by a Start.  `CapacityRespected` is stated for Nodes that always
register the same capacity: a Node that registers again with a smaller one keeps the
leases it has.  In `NodeWorker` two events and room for one record reach the disk
limit (a record kept by a failed delivery blocks the next execution), two faults
reach a fault during the repair of another (a crash while Recover repeats an event
whose response was lost), and `Fault` leaves a grant in reserve so that the bound on
grants never ends a recovery.  `MaxEvents`, `MaxFaults`, `MaxBreaks` and `MaxGrants`
bound the model; `MaxFiles` stands for `maxBytes` of the code.  In `EventLog` two
writers are enough for two transactions to read the same number, and
`attempt_records` has six, so that host, report, upload and reconciler compete for
it; terminal events may exceed `MaxEvents`, so the bound never keeps a Run from
ending.  Two broken connections show a stream that is resumed twice.  In
`RuntimeExecution` one call is enough for a request to be taken by the wrong bridge,
withdrawn or interrupted; two calls of one execution make one wait behind the other
in the bridge.  `MaxExecutions` bounds how many executions are started: two make two
bridges, and where each has its own directory they share nothing, which is what the
theorems about them use.  Two inputs make a key be used for two requests.  Three
calls of the engine make a repeated key meet a Run that is queued, running and
ended.

*Deadlock.*  `CapabilityCalls`, `EventStream`, `AttemptRecords`, `RuntimeExecution`
and `Engine` end when their calls have returned and the Run is over, so their
configurations do not check deadlock; that they do not stop before is what their
liveness properties say.  The stores and the Nodes can always take a step.

*Fairness.*  Clocks advance.  The server calls Reconcile every two seconds and takes
the oldest rows first, so a row that stays overdue or expired is handled (weak
fairness per Run).  Nodes poll Claim in a loop; a Run that is free again and again
is not locked by somebody else at each of these polls (strong fairness).
`keepLease` returns when Renew reports a cancellation, so a cancelling Run is
renewed only finitely often (`<>[][~RenewCancelling]`). Nothing is assumed of
executions, reports or acknowledgements: a Node may hang or die at any point.  In
`NodeWorker` the assumption on renewals is dropped, because the keeper is there;
instead a service manager restarts a Node that exited, the server ends the Claim of
a Node that crashed, the claim loop and the keeper of a live Node go on, and a
runtime returns once its context is cancelled, as the runtime contract asks; an
execution that is not cancelled may last forever.  In `CapabilityCalls` a goroutine
that can take a step takes it.  HTTP calls have a timeout.  That a binding returns
is an assumption of `EveryCallReturns`: the program of an exec binding
(`binding/exec.go:41`) runs as long as it likes until the context of its caller
ends.  In `EventStream` and `AttemptRecords` a transaction that was begun ends, and
handler, client and Node go on; whether the Run ends, a host answers or a runtime
returns is left open.  In `RuntimeExecution` the executor, the bridge and the
signals of os/exec go on, and `select` in `serve` does not prefer the tick to an
ended context forever (strong fairness of `ServeStops`); nothing is assumed of
runtimes or their children.  A binding need not answer before Close cancels its
context (`AnswerClosing`), so `CallServed` speaks of bridges that a binding does not
keep forever, and no timeout of a tool has to pass for its call to be served.
`Engine` states no liveness: an executor may run forever.

## 4. Proofs

Every theorem below holds for all values of the constants that satisfy the named
assumptions of the modules.  The assumptions say that the bounds are numbers, that
the retry policy, the lease length and the reconciler limit are positive, and that
names with a meaning of their own ("none", "main", `NoValue`, the transactions of
`AttemptRecords`) are not used for anything else, and, for Nodes, that a result is
not a failure cause (they travel in different calls).  Where a theorem has a further
hypothesis it is stated with it, and the table says why the code needs it.

| Theorem | States | Hypothesis |
|---|---|---|
| `PostgresStoreProofs!TypeCorrect` | `Spec => []TypeOK` | |
| `AlwaysCoherent` | `Spec => []RunsCoherent` | |
| `AlwaysFenced` | `Spec => []LeasesFenced` | |
| `FinishedStaysFinished` | `Spec => TerminalIsFinal` | |
| `NoLeaseIsStolen` | `Spec => LeaseNotStolen` | |
| `ReportsAreRepeatable` | `Spec => []RepeatedReportAccepted` | |
| `LogAlwaysFaithful` | `Spec => []LogIsFaithful` | |
| `ImplementsLifecycle` | `Spec => RefinesLifecycle`: the store implements `RunLifecycle` | |
| `CapacityOfSingleClaims` | `Spec => []CapacityRespected` | claims of one Node do not overlap (`OneClaimPerNode`; otherwise false, section 5) and no Node registers again with less capacity (`CapacityKept`) |
| `MemoryStorageProofs!RecordsStaySound` | `Spec => []RecordsSound` | |
| `CountersAreExact` | `Spec => []ActiveIsExact` | |
| `MemoryImplementsLifecycle` | `Spec => RefinesLifecycle`: so does the in-memory store | |
| `MemoryTerminalIsFinal` | `Spec => TerminalIsFinal` | |
| `MemoryLeaseNotStolen` | `Spec => LeaseNotStolen` | |
| `NodeWorkerProofs!NodesUseTheStore` | `NodeSpec => Spec`: the Nodes with their faults behave as the arbitrary callers of `PostgresStore`, so that the theorems above hold of them | |
| `DeliveryAlwaysSound` | `NodeSpec => []DeliverySound` | only the store answers with success (`NoForeignSuccess`; otherwise false, section 5) |
| `ReturnsAreTrue` | `NodeSpec => []ReturnIsTrue` | the same |
| `SavedEventsRetained` | `NodeSpec => PendingRetained` | the same |
| `NodesWithinCapacity` | `NodeSpec => []CapacityRespected` | no Node registers again with less capacity (`CapacityKept`) |
| `CapabilityCallsProofs!SideEffectsHappenOnce` | `Spec => []SideEffectOnce` | `Store = "postgres"`: the memory store hands a pending reservation out again (section 5) |
| `ReplaysFitTheirRequest` | `Spec => []ReplayFitsRequest` | |
| `EventLogProofs!StreamAlwaysSound` | `StreamSpec => []StreamSound` | |
| `HandledAlwaysPrefix` | `StreamSpec => []HandledIsPrefix` | |
| `AnswersAreUnique` | `Spec => []OneAnswer` | |
| `ArtifactsAlwaysSound` | `Spec => []ArtifactsSound` | |
| `RecordsLeaveNoGaps` | `Spec => []NoGaps` | |
| `RuntimeExecutionProofs!CallsAlwaysSound` | `Spec => []CallsSound` | |
| `MailboxesArePrivate` | `Spec => []MailboxIsPrivate` | `Workspace \in {"temp", "git"}`: a local workspace is shared (the violation run) |
| `SuccessesAreEarned` | `Spec => []SuccessIsEarned` | the same |
| `EngineProofs!EngineAlwaysSound` | `Spec => []EngineSound` | |
| `ReturnsTerminalOrInProgress` | `Spec => TerminalOrInProgress` | |

None of these specifications has fairness in it, so the theorems hold of the fair
specifications of the runs as well.

### The Postgres store

None of the invariants is inductive alone.  Coherence needs the type of the row
(the list of Attempts is a list); fencing needs coherence (an Attempt that is
leased again is the current one, and a retry starts an entry without a lease);
coherence of a retry needs the retry bound.  The invariant of one row is `Good`:
well typed, `Coherent` and `Fenced`; `AllGood` says it of all rows.  No transaction
relates two Runs, so the argument is about one row at a time: a lemma per row
operation (`StartedGood`, `RequestCancelGood`, `RequeuedGood`, `LeasedGood`, ...),
most of them through `StatusChange`, which says what a transaction that writes two
statuses and leaves the lease alone has to respect; `AcceptedCalls` says what an
accepted call implies about the row; `UpdateGood` lifts rows to the store.
Reconcile is the one action that composes two row operations.

The action properties and the refinement are about a step of one row.  `Changed`
lists what a transaction may do to a row, one disjunct per kind of step, and is
proved once of every action; each action property follows from it and the
invariant `StoreInv`.  It adds to `AllGood` that an open claim remembers only leases
already granted, and that a Run which still carries the lease it remembers is free
or expired (`SeenFree`); that an Attempt waiting in the queue has no token
(`Unowned`); and that a Run a report has ended has one (`Owned`).  For the
refinement each disjunct is matched with the step of `RunLifecycle` it shows a
client, or with none.  `LogGood`
relates the log of a row to its status: it counts the announcements of each Attempt
and is kept by whatever appends the event of the status it writes.  What concerns a
single row and not the transactions (`Good`, `Changed`, `LogGood`, the matching with
`RunLifecycle`) is in `RunRecordsProofs`.

Capacity is the one property that relates Runs to each other.  Only a commit of
Claim adds to the load of a Node, and only to that of its own (`Lightens` says so of
every other step).  `Fits` is the invariant: the load is finite and within the
capacity, and a Node with an open claim still has the room the claim found when it
began.  A second claim of the same Node would break the last part, which is where
`OneClaimPerNode` is used, and a smaller registration the second.  That the load is
finite is part of the induction, so the set of Runs may be infinite.

### The in-memory store

The methods are functions from the record of one Run to its effect: the new record
and the Node to release.  `Row` says what an effect may do and is proved of every
method: the record stays `Sound`; it moves by a `Changed` step, as in the database,
or gives an expired lease back (`Returned`); and a Node is released exactly when it
stops working on the Run (`Settles`).  `Good` is not an invariant here: a refused call
can leave a cancelling Run with a queued Attempt (section 5), so `Story` allows that
one case; `RecordsSound`, the refinement and the action properties hold all the same.

`ActiveIsExact` compares two counts.  Reconcile and the sweep in Claim may release
several Runs of one Node at once; `ReleasedRuns` names them, and by `Settles` they are
the ones the Node no longer holds (`ReleaseCounts`), so subtracting their number keeps
the counter exact and the floor at zero in `releaseNode` is never reached.  The sets
are finite by the same induction, whatever the set of Runs.

### Nodes

The invariant `NodeInv` stands on `StoreInv`.  `Granting` says that whatever a Node
works on, has a file of or has written was granted by the store, and that each
assignment belongs to one Node; that makes every call one that `PostgresStore`
expects (`NodeStepIsStoreStep`), and it makes the rest local: nobody else writes
events of an assignment a Node holds, so `LocalStep` reduces a step of the system to
what it does for the Node that takes it.  There, `Shape` relates the fields of the
loop; `Truth` says that what a Node was told (a cancellation, an accepted report)
is still what the row says, which rests on `Changed` (`RowsGoOn`); `FilesSound`
says that a saved event is the next one or the last one on record and the only one
of its execution, which is why replaying it neither repeats nor skips anything; and
`Delivery` follows the events from `emit` to the record: an execution without an
event error has them all on record and none waiting.  `AnswersAreReplies` and
`ForeignUnknown` show that the HTTP client neither confuses two answers of the store
nor takes the error of something else for one; that it takes no success of something
else for one is the hypothesis `NoForeignSuccess`, which `NodesUseTheStore` and
`NodesWithinCapacity` do not need.  A Node keeps to the slot of its own claim loop
(`OwnSlots`), so its claims do not overlap and its capacity holds without the
hypothesis the store needs.

`EventsInOrder` says of every row that exactly the earlier positions of its
execution are before it, instead of counting along the subsequence of one
execution: the two say the same, and only the first can be used without an induction
over sequences.

### Capability calls

`Matched` follows the answers: the record of a key and the local call of a key hold
results of the request they were made for, and the callers that wait for a local call
asked for its target.
`Permission` follows the right to invoke: `ReserveCapability` grants it to the
transaction that inserts the row, so that for each key at most one caller is
between the grant and the invocation or has invoked; it rests on the rows never
being deleted and on a caller whose reservation got lost not invoking.

### The event log and its readers

Both uses of the log are proved in `EventLogProofs`; the proofs about the readers do
not cite the assumptions of `AttemptRecords`.  `LogInv` speaks of open transactions.
A transaction that reads a number and has not inserted yet may hold a stale number,
but never one beyond the end; at most one open transaction has inserted, and what it
inserted continues the committed rows.  Rows and numbers are therefore in bijection
with `1 .. n` at every moment, which is `NoGaps`; the constraint UNIQUE is what
makes the insertion of a stale number fail, and it is used exactly there
(`InsertsNext`).

`EventStream` adds the cursors: what was handled, followed by what is under way, is
the log up to the cursor of the handler (`Delivered`).  Rows that are committed
later have higher numbers, so no cursor passes a row that is still to come: that
needs `LogInv` and not only the order of the numbers.  `Truthful` says that the
terminal row is committed with the status; `Unbroken` that the handler closes only
after reading the tail of a Run it saw ended.  `EventsAfterFollow`, about the
operator `EventsAfter`, counts rows by a bijection with an interval.

`AttemptRecords` adds `Question` (at most one answer is committed or being
committed, because ResolveInteraction locks the interaction), `Uploads` (where the
upload under way stands, and what is on record about it) and `Ending` (a success
is reported, pending or on record only with all uploads).

### Executions and the engine

`NodeInv` says for every call of a tool in which files its request and its answer
may be and who may have taken it; `Private` and `Earned` add, for workspaces that
are not shared, that a mailbox and a final message belong to one execution.
`EngineInv` says for every call of Execute what it has saved and told so far, given
what it still has to do; that the observer misses nothing is kept apart: every
number given out is observed or in the hands of exactly one goroutine.

### Only model-checked

* Liveness: it needs fairness and ENABLED, which the prover does not handle.

Every invariant and every action property that a passing run checks is stated by a
theorem.  The theorems about `CapacityRespected` and `MailboxIsPrivate` are the
counterparts of two violation runs: they say under which conditions the property does
hold.

The operators of replies (`StartReply`, `CompleteReply`, ...) are chains of
IF/THEN/ELSE in the order of the checks in the code, which makes the conditions
under which a call is accepted explicit for the proofs.

## 5. Findings

Three disagreements between the code and what it says of itself are shown by
violation runs and quoted in `PROJECT.json`:

* the capacity check of overlapping claims of one Node (`postgres_claim_race`);
* the "private mailbox" of the file bridge, which is shared by all executions in
  one local workspace (`runtime_local_workspace`);
* a call with a used idempotency key and another input, which is given the result of
  the first one instead of being refused (`capability_inputs`).

### Known divergences

These were found with the same modules and are left out of the properties that the
runs check.  For each, the property named fails under the instance given.

* `memory.go:567`: a late call on an expired, unstarted lease of a cancelling Run
  requeues the Attempt, and nothing completes the cancellation afterwards
  (`docs/design.md:207`: the reconciler completes it when the lease expired).
  `MemoryStorage`, 1 Run, 1 Node, `CancellationCompletes`.
* `memory.go:95`: Claim refuses a full Node before it takes expired leases back; a
  Node that died between Claim and Start occupies its own slot forever
  (`docs/design.md:220`: an unstarted Attempt can be claimed again).
  `MemoryStorage`, 1 Run, 1 Node of capacity 1, `UnstartedLeaseReclaimed`.
* `memory.go:435`: a pending reservation is handed out again, so the next Attempt
  repeats a side effect of unknown outcome (`docs/design.md:264`).
  `CapabilityCalls` with `Store = "memory"`, `SideEffectOnce`.
* `httpapi/client.go:395`: where no output is expected every 2xx is a success, so a
  200 of a proxy, or of a page it redirects to, makes the outbox remove an event that
  was never recorded (`client.go:373` of the 401 of a proxy: "Durable pending events
  must be retained"; `docs/component-contract.md:58`: files are deleted after
  confirmation).  `NodeWorker` with `ForeignStatuses = {200}`, 1 Run, 1 Node,
  `PendingRetained`.
* `store.go:855`: once the Run has ended, an expired Attempt can still write
  capability reservations (`docs/component-contract.md:66`: fencing keeps it from
  modifying the control plane).  `CapabilityCalls`, `ExpiredAttemptFenced`.
* `relayctl/main.go:507`: when a stream breaks just before the end of the Run,
  `watchRun` finds the Run ended and returns without the rest of the events
  (`README.md:302` and 304: clients reconnect without losing events).  In
  `EventStream`, a watch that returned "ended" may lack the terminal event.
* `codex/executor.go:100`: an execution without a prepared workspace uses the
  directory of the *Run*, so that Attempts of one Run share mailbox and final
  message (`workspace/manager.go:28`: isolated workspaces); with a configured
  `WorkDir` (line 98) all executions do.  `RuntimeExecution` with `Workspace = ""` or
  `"config"`, `MailboxIsPrivate` and, where two executions use codex exec,
  `SuccessIsEarned`: the final message of the other one counts (line 219).
* `node/worker.go:303`: one failed poll ends the wait of the interaction broker with
  an error, and the answer that a host is told was accepted never reaches the
  runtime (`README.md:306`: runtimes resume after a Host resolves them).
  `AnswerArrives` excuses a fault for this reason.

The records an ambiguous commit leaves without a blob (`service.go:236`) are the
reason for `faults = 0` in `RecordHasBlob`; the Node fails the Attempt in that
case, so a Run that succeeded is not affected (`SucceededWithArtifacts`).

## 6. Plan

Done: `RunTypes`, `RunLifecycle`, `RunRecords`, `PostgresStore`, `MemoryStorage`,
`CapabilityCalls`, `NodeWorker`, `HttpApi`, `EventLog`, `EventStream`,
`AttemptRecords`, `RuntimeExecution`, `Engine`.

Proved: the invariants, action properties and refinement of both stores; the safety
properties of `NodeWorker`; the invariants of `CapabilityCalls`, `EventStream`,
`AttemptRecords`, `RuntimeExecution` and `Engine`.

Left in the models: several slots per Node and graceful shutdown (RunPool with
two contexts), and the scheduling query beyond its first candidate.

## 7. Not modelled

Routing, decoding and the comparison of credentials translate single calls and
keep no state.  Cloning and worktrees, the object store, bindings
and the HTTP bridge are I/O; where the model needs them they appear by their
outcome.  The command executor is one process with one pipe.  The limit of one
hundred candidates in Claim needs more Runs than a model can hold, and with the
limit as a parameter would only restate the query.  The console, flag parsing,
printing, adapters and examples contain no protocol of their own.  Instruction
compilation is text formatting.
