--------------------------- MODULE AttemptRecords ---------------------------
(***************************************************************************)
(* What a running Attempt leaves besides events: the question a runtime    *)
(* asks through the interactionBroker and the hosts that answer it, and     *)
(* the artifacts the Node uploads before its final report.  UploadArtifact *)
(* of the service stores a blob, adds the record and removes the blob when *)
(* the record was refused; the blob store knows nothing of transactions.   *)
(*                                                                         *)
(* All of them append to the log (EventLog).  A host that answers does not *)
(* lock the Run, so that its transaction can take the sequence number of   *)
(* any of the others and make that one fail.                               *)
(***************************************************************************)
EXTENDS EventLog

CONSTANTS
  Hosts,         \* hosts that may answer the question, each in its own way
  Artifacts,     \* artifacts in the result of the runtime
  MaxFaults      \* bound: lost answers, ambiguous commits, crashes

(* The transactions of one Attempt that run at the same time: of the       *)
(* broker, of an upload, of the final report and of the reconciler, and of *)
(* each host.                                                              *)
Servers == {"broker", "upload", "report", "reconciler"}

ASSUME RecordsAssumption ==
  /\ Writers = Servers \union Hosts
  /\ Hosts \intersect Servers = {}
  /\ "none" \notin Interactions
  /\ MaxFaults \in Nat

VARIABLES
  node,    \* RunOnce from Execute on
  upload,  \* the handler of the upload under way
  blobs,   \* keys in the blob store
  told,    \* what each host was told about its answer
  faults   \* faults so far

recordVars == <<node, upload, blobs, told, faults>>

vars == <<logVars, recordVars>>

Init ==
  /\ LogInit
  /\ node = [pc |-> "executing", answer |-> "none", asked |-> "none",
             uploaded |-> {}, report |-> "none"]
  /\ upload = [pc |-> "none", id |-> "none"]
  /\ blobs = {}
  /\ told = [h \in Hosts |-> "none"]
  /\ faults = 0

Fault == faults < MaxFaults /\ faults' = faults + 1

Committed(w) == tx[w].outcome = "done"
Failed(w) == tx[w].outcome = "failed"

-----------------------------------------------------------------------------
(* interactionBroker.Request: create, then poll.                           *)
Answer(value) == node' = [node EXCEPT !.pc = "executing", !.answer = value]

Request(i) ==
  /\ node.pc = "executing" /\ node.asked = "none"
  /\ Begin("broker", "create", i, "none")
  /\ node' = [node EXCEPT !.pc = "creating", !.asked = i]
  /\ UNCHANGED <<upload, blobs, told, faults>>

Created ==
  /\ node.pc = "creating"
  /\ \/ Committed("broker") /\ node' = [node EXCEPT !.pc = "polling"]
     \/ Failed("broker") /\ Answer("error")
  /\ UNCHANGED <<logVars, upload, blobs, told, faults>>

(* Mutant: GetInteraction looks for pending interactions only. *)
PollsPending(i) ==
  /\ node.pc = "polling" /\ node.asked = i
  /\ LockFree("append", "run")
  /\ Changed("resolve", i) /\ Answer("error")
  /\ UNCHANGED <<logVars, upload, blobs, told, faults>>

(* GetInteraction finds the interaction resolved.  It goes through          *)
(* transition, which locks the Run and accepts the token after the end.    *)
Poll(i) ==
  /\ node.pc = "polling" /\ node.asked = i
  /\ LockFree("append", "run")
  /\ \E c \in Done("resolve") : c.subject = i /\ Answer(c.value)
  /\ UNCHANGED <<logVars, upload, blobs, told, faults>>

(* The Attempt is being taken from the Node, or the Run has ended.         *)
GivenUp == Open("reconciler") \/ Ended

(* The token of such an Attempt is refused, which ends the wait with the   *)
(* error of that poll, and its keeper cancels the execution, which ends    *)
(* the wait whatever a poll would have found.                              *)
RequestStopped ==
  /\ node.pc \in {"creating", "polling"}
  /\ GivenUp
  /\ Answer("error")
  /\ UNCHANGED <<logVars, upload, blobs, told, faults>>

(* The answer to CreateInteraction is lost, or a poll fails, which is not  *)
(* repeated.                                                               *)
RequestFails ==
  /\ node.pc \in {"creating", "polling"}
  /\ Fault
  /\ Answer("error")
  /\ UNCHANGED <<logVars, upload, blobs, told>>

(* A host answers.  Its answer is named after it.                          *)
Resolve(h, i) ==
  /\ told[h] = "none"
  /\ Begin(h, "resolve", i, h)
  /\ UNCHANGED recordVars

(* It is refused when another answer was accepted before.                  *)
ResolveRefused(h, i) ==
  /\ told[h] = "none" /\ ~Open(h) /\ ~Committed(h)
  /\ LockFree("resolve", i)
  /\ Changed("resolve", i)
  /\ told' = [told EXCEPT ![h] = "refused"]
  /\ UNCHANGED <<logVars, node, upload, blobs, faults>>

(* The host learns the outcome, or not.                                    *)
Resolved(h) ==
  /\ told[h] = "none" /\ Committed(h)
  /\ \/ told' = [told EXCEPT ![h] = "accepted"] /\ UNCHANGED faults
     \/ told' = [told EXCEPT ![h] = "unknown"] /\ Fault
  /\ UNCHANGED <<logVars, node, upload, blobs>>

-----------------------------------------------------------------------------
(* Execute returns with a result, or with an error.                        *)
ExecuteReturns ==
  /\ node.pc = "executing"
  /\ \E pc \in {"uploading", "failing"} : node' = [node EXCEPT !.pc = pc]
  /\ UNCHANGED <<logVars, upload, blobs, told, faults>>

UploadCall(k) ==
  /\ node.pc = "uploading" /\ k \notin node.uploaded
  /\ upload' = [pc |-> "put", id |-> k]
  /\ node' = [node EXCEPT !.pc = "waiting"]
  /\ UNCHANGED <<logVars, blobs, told, faults>>

(* Mutant: the record is added although the blob was not written. *)
PutIgnored ==
  /\ upload.pc = "put"
  /\ upload' = [upload EXCEPT !.pc = "add"]
  /\ \/ blobs' = blobs \union {upload.id} /\ UNCHANGED faults
     \/ Fault /\ UNCHANGED blobs
  /\ UNCHANGED <<logVars, node, told>>

(* blobs.Put: the file gets its name when it is complete.                  *)
Put ==
  /\ upload.pc = "put"
  /\ \/ /\ blobs' = blobs \union {upload.id}
        /\ upload' = [upload EXCEPT !.pc = "add"]
        /\ UNCHANGED faults
     \/ Fault /\ UNCHANGED blobs /\ upload' = [upload EXCEPT !.pc = "error"]
  /\ UNCHANGED <<logVars, node, told>>

(* storage.AddArtifact, refused once the Run has ended.                    *)
AddArtifact ==
  /\ upload.pc = "add"
  /\ \/ /\ Begin("upload", "artifact", upload.id, "none")
        /\ upload' = [upload EXCEPT !.pc = "adding"]
     \/ /\ Ended /\ LockFree("artifact", upload.id)
        /\ upload' = [upload EXCEPT !.pc = "undo"]
        /\ UNCHANGED logVars
  /\ UNCHANGED <<node, blobs, told, faults>>

Added ==
  /\ upload.pc = "adding"
  /\ \/ Committed("upload") /\ upload' = [upload EXCEPT !.pc = "ok"]
     \/ Failed("upload") /\ upload' = [upload EXCEPT !.pc = "undo"]
  /\ UNCHANGED <<logVars, node, blobs, told, faults>>

(* blobs.Delete, whose error is ignored.                                   *)
Undo ==
  /\ upload.pc = "undo"
  /\ upload' = [upload EXCEPT !.pc = "error"]
  /\ \/ blobs' = blobs \ {upload.id} /\ UNCHANGED faults
     \/ UNCHANGED blobs /\ Fault
  /\ UNCHANGED <<logVars, node, told>>

(* The server stops in the middle of an upload.                            *)
ServerCrash ==
  /\ upload.pc \in {"put", "add", "adding", "undo"}
  /\ Fault
  /\ IF Open("upload") THEN Rollback("upload") ELSE UNCHANGED logVars
  /\ upload' = [upload EXCEPT !.pc = "error"]
  /\ UNCHANGED <<node, blobs, told>>

(* The Node repeats no upload: an error fails the Attempt.                 *)
UploadReturns ==
  /\ node.pc = "waiting"
  /\ \/ /\ upload.pc = "ok"
        /\ node' = [node EXCEPT !.pc = "uploading", !.uploaded = @ \union {upload.id}]
        /\ UNCHANGED faults
     \/ /\ upload.pc = "error"
        /\ node' = [node EXCEPT !.pc = "failing"]
        /\ UNCHANGED faults
     \/ Fault /\ node' = [node EXCEPT !.pc = "failing"]   \* timeout
  /\ UNCHANGED <<logVars, upload, blobs, told>>

(* OpenArtifact, for a download, needs the record and then the blob.       *)
OpenArtifact(k) == Changed("artifact", k) /\ k \in blobs

-----------------------------------------------------------------------------
Ready ==
  \/ node.pc = "failing"
  \/ node.pc = "uploading" /\ node.uploaded = Artifacts

Outcome == IF node.pc = "failing" THEN "fail" ELSE "succeed"

Report ==
  /\ Ready
  /\ node' = [node EXCEPT !.pc = "reporting", !.report = Outcome]
  /\ Begin("report", Outcome, "run", "none")
  /\ UNCHANGED <<upload, blobs, told, faults>>

(* Mutant: retryFinalReport gives up at any error. *)
ReportOnce ==
  /\ node.pc = "reporting" /\ Failed("report")
  /\ node' = [node EXCEPT !.pc = "returned"]
  /\ UNCHANGED <<logVars, upload, blobs, told, faults>>

(* retryFinalReport repeats a report whose outcome it does not know.       *)
ReportAgain ==
  /\ node.pc = "reporting" /\ Failed("report")
  /\ Begin("report", node.report, "run", "none")
  /\ UNCHANGED recordVars

(* The report is on record, or somebody else ended the Run before.         *)
ReportReturns ==
  /\ \/ node.pc = "reporting" /\ Committed("report")
     \/ /\ Ready \/ (node.pc = "reporting" /\ Failed("report"))
        /\ Ended /\ LockFree("append", "run")
  /\ node' = [node EXCEPT !.pc = "returned"]
  /\ UNCHANGED <<logVars, upload, blobs, told, faults>>

(* The ten seconds of a final report pass.                                 *)
ReportTimesOut ==
  /\ node.pc = "reporting"
  /\ Fault
  /\ node' = [node EXCEPT !.pc = "returned", !.report = "given up"]
  /\ UNCHANGED <<logVars, upload, blobs, told>>

(* The reconciler gives the Attempt up, or a cancellation ends the Run.    *)
Reconcile ==
  /\ Begin("reconciler", "fail", "run", "none")
  /\ UNCHANGED recordVars

(* A commit of which the server does not learn, or a lost connection.      *)
TxFault(w) ==
  /\ Fault
  /\ Commit(w, "failed") \/ Rollback(w)
  /\ UNCHANGED <<node, upload, blobs, told>>

-----------------------------------------------------------------------------
TxStep(w) == Proceeds(w) /\ UNCHANGED recordVars

UploadStep == Put \/ AddArtifact \/ Added \/ Undo

NodeStep ==
  \/ \E i \in Interactions : Poll(i)
  \/ Created
  \/ RequestStopped
  \/ \E k \in Artifacts : UploadCall(k)
  \/ UploadReturns
  \/ Report
  \/ ReportAgain
  \/ ReportReturns

Next ==
  \/ \E w \in Writers : TxStep(w) \/ TxFault(w)
  \/ \E i \in Interactions : Request(i)
  \/ \E h \in Hosts, i \in Interactions : Resolve(h, i) \/ ResolveRefused(h, i)
  \/ \E h \in Hosts : Resolved(h)
  \/ NodeStep
  \/ RequestFails
  \/ ExecuteReturns
  \/ ReportTimesOut
  \/ UploadStep
  \/ ServerCrash
  \/ Reconcile

Spec == Init /\ [][Next]_vars

(* Transactions end, the handler and the Node go on; whether a host        *)
(* answers and a runtime returns is left open.                             *)
FairSpec ==
  /\ Spec
  /\ \A w \in Writers : WF_vars(TxStep(w))
  /\ WF_vars(UploadStep)
  /\ WF_vars(NodeStep)

-----------------------------------------------------------------------------
(* Properties.                                                             *)

(* Type invariant.                                                         *)
TypeOK ==
  /\ LogTypeOK
  /\ blobs \subseteq Artifacts /\ node.uploaded \subseteq Artifacts
  /\ faults \in 0 .. MaxFaults

(* An upload the Node was told succeeded can be downloaded from then on:   *)
(* record and blob are both there, whatever failed around it.              *)
UploadedIsOpenable == \A k \in node.uploaded : OpenArtifact(k)

(* A Run that succeeded has all the artifacts of its result, although an   *)
(* upload may be cut off, refused, or lose its number to another writer.   *)
SucceededWithArtifacts ==
  Done("succeed") # {} =>
    \A k \in Artifacts : OpenArtifact(k)

(* A record without its blob is left only by a fault: never by a refusal,  *)
(* an end of the Run in between or a lost race for a sequence number.      *)
RecordHasBlob ==
  faults = 0 => \A k \in Artifacts : Changed("artifact", k) => k \in blobs

(* Records and blobs agree as far as the code can promise: what the Node   *)
(* was told is uploaded can be opened, a Run succeeds only with all its    *)
(* artifacts, and only a fault leaves a record without its blob.           *)
ArtifactsSound ==
  TypeOK /\ UploadedIsOpenable /\ SucceededWithArtifacts /\ RecordHasBlob

(* One answer: the host that was told so is the one whose answer the       *)
(* runtime is given, also when hosts answer at the same time, an answer    *)
(* loses its sequence number, or a host does not learn what became of it.  *)
OneAnswer ==
  \A h \in Hosts :
    told[h] = "accepted" =>
      /\ {c.value : c \in Done("resolve")} = {h}
      /\ node.answer \in {"none", "error", h}

(* The answer a host gave while the broker waits reaches the runtime, in   *)
(* whatever order hosts, polls and the other writers of the log take their *)
(* turns.  Only a failed call or the loss of the Attempt ends the wait in  *)
(* any other way, and one of them does end it.                             *)
AnswerArrives ==
  \A i \in Interactions :
    node.pc = "polling" /\ node.asked = i /\ Changed("resolve", i)
      ~> /\ node.pc # "polling"
         /\ \/ node.answer \in {c.value : c \in Done("resolve")}
            \/ GivenUp
            \/ faults > 0

(* A final report that loses the race for a sequence number is repeated    *)
(* until the Run has an end.                                               *)
ReportRecorded == node.pc = "reporting" ~> Ended \/ node.report = "given up"
=============================================================================
