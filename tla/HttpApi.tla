------------------------------ MODULE HttpApi ------------------------------
(***************************************************************************)
(* The answers of the control plane on their way to a Node: the handler    *)
(* writes an error as a status and a message, and the client turns them    *)
(* back into an error the Node can tell apart.  A proxy or the             *)
(* authentication in front of the handler uses the same statuses, so the   *)
(* client also looks at how the message of an error begins.  It does not   *)
(* look at the body of a success: Start, AppendEvent, Complete, Fail and   *)
(* AcknowledgeCancellation expect no output.                               *)
(***************************************************************************)
EXTENDS Naturals

CONSTANT ForeignStatuses  \* the statuses of answers that are not the handler's

ASSUME StatusAssumption == ForeignStatuses \subseteq Nat

(* respondEmpty, respond and writeError: a protocol error and its status.  *)
Status ==
  [ok                 |-> 204,
   not_found          |-> 404,
   invalid_lease      |-> 401,
   invalid_transition |-> 409,
   run_cancelled      |-> 410,
   incompatible       |-> 426]

writeError(reply) ==
  IF reply \in DOMAIN Status THEN [status |-> Status[reply], message |-> reply]
                             ELSE [status |-> 400, message |-> reply]

(* What the authentication or a proxy in front of the handler may answer.  *)
Foreign == {[status |-> s, message |-> "foreign"] : s \in ForeignStatuses}

(* A status that the client takes for success, whatever the body says.     *)
Success(status) == status \in 200 .. 299

(* Mutant: the status alone decides. *)
doByStatus(response) ==
  IF \E e \in DOMAIN Status : Status[e] = response.status
  THEN CHOOSE e \in DOMAIN Status : Status[e] = response.status
  ELSE "unknown"

(* Client.do without output: every 2xx is a success, and an error is       *)
(* recognised by its status and its message.                               *)
do(response) ==
  IF Success(response.status) THEN "ok"
  ELSE IF \E e \in DOMAIN Status : response = writeError(e)
  THEN CHOOSE e \in DOMAIN Status : response = writeError(e)
  ELSE "unknown"

(* The answer of the store as the Node sees it.                            *)
Answered(reply) == do(writeError(reply))

(* Nothing in front of the handler answers with a success of its own.      *)
NoForeignSuccess == \A s \in ForeignStatuses : ~Success(s)
=============================================================================
