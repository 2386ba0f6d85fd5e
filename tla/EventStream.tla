----------------------------- MODULE EventStream -----------------------------
(***************************************************************************)
(* Following a Run: the handler streamEvents, which polls the log from a   *)
(* cursor and reads its tail once the Run has ended, the client            *)
(* StreamEvents, and watchRun of relayctl, which subscribes again from the *)
(* last event it printed.  The log is written meanwhile by concurrent      *)
(* transactions (EventLog).                                                *)
(*                                                                         *)
(* A connection delivers in order; when it breaks, whatever is under way   *)
(* is lost from some point on.  Writing to a broken connection, a failing  *)
(* read of the handler and a restart of the server all end in that.        *)
(***************************************************************************)
EXTENDS EventLog, SequencesExt

CONSTANTS
  Reported,   \* kinds of transactions the Run makes
  MaxEvents,  \* bound: length of the log
  MaxBreaks   \* bound: broken connections and failed calls

ASSUME StreamAssumption == Reported \subseteq Kinds /\ MaxBreaks \in Nat

VARIABLES
  server,   \* streamEvents: pc and cursor `after`
  wire,     \* events under way from the server to the client
  watcher,  \* StreamEvents and watchRun
  breaks    \* broken connections and failed calls so far

connVars == <<server, wire, watcher, breaks>>

streamVars == <<logVars, connVars>>

terminalEvent(e) == e.type \in {"run.succeeded", "run.failed"}

(* watcher.pc: "connect", "reading", "asking" (client.Run), "returned".     *)
(* after is lastSequence, which follows the cursor of StreamEvents;        *)
(* handled are the events given to the callback, by position.              *)
StreamInit ==
  /\ LogInit
  /\ server = [pc |-> "closed", after |-> 0]
  /\ wire = <<>>
  /\ watcher = [pc |-> "connect", after |-> 0, terminal |-> FALSE,
                handled |-> <<>>, stream |-> "none", result |-> "none"]
  /\ breaks = 0

-----------------------------------------------------------------------------
(* The transactions of the Run.                                            *)
Subject(kind) == IF kind \in {"create", "resolve"} THEN Interactions ELSE {"run"}

Submits(w) ==
  \E kind \in Reported : \E subject \in Subject(kind) :
    /\ \/ kind \in {"succeed", "fail"}
       \/ Cardinality(rows) + Cardinality({v \in Writers : Open(v)}) < MaxEvents
    /\ kind = "create" => ~Changed("create", subject)
    /\ Begin(w, kind, subject, "none")

LogStep == \E w \in Writers : Submits(w) \/ Proceeds(w) \/ Rollback(w)

-----------------------------------------------------------------------------
(* EventsAfter: the rows above the cursor, by sequence number.             *)
EventsAfter(after) ==
  LET above == {e \in rows : e.sequence > after}
  IN  [i \in 1 .. Cardinality(above) |->
         CHOOSE e \in above :
           Cardinality({d \in above : d.sequence <= e.sequence}) = i]

(* writeEvents: every event is written and the cursor follows.             *)
writeEvents(pc, events) ==
  /\ wire' = wire \o events
  /\ server' = [pc    |-> pc,
                after |-> IF events = <<>> THEN server.after
                                           ELSE Last(events).sequence]

(* The read before the loop.                                               *)
ServerOpens ==
  /\ server.pc = "opening"
  /\ writeEvents("checking", EventsAfter(server.after))
  /\ UNCHANGED <<logVars, watcher, breaks>>

(* Mutant: a failed Run is not seen as ended. *)
streamTerminalSucceeded == Done("succeed") # {}

streamTerminal == Ended

ServerChecks ==
  /\ server.pc = "checking"
  /\ server' = [server EXCEPT !.pc = IF streamTerminal THEN "tail" ELSE "waiting"]
  /\ UNCHANGED <<logVars, wire, watcher, breaks>>

(* A poll, or a keepalive, which writes a comment and checks again.        *)
ServerPolls ==
  /\ server.pc = "waiting"
  /\ \/ writeEvents("checking", EventsAfter(server.after))
     \/ server' = [server EXCEPT !.pc = "checking"] /\ UNCHANGED wire
  /\ UNCHANGED <<logVars, watcher, breaks>>

(* Mutant: the stream is closed as soon as the Run is seen to have ended. *)
ServerTailUnread ==
  /\ server.pc = "tail"
  /\ server' = [server EXCEPT !.pc = "closed"]
  /\ UNCHANGED <<logVars, wire, watcher, breaks>>

(* The last read before the handler returns.                               *)
ServerTail ==
  /\ server.pc = "tail"
  /\ writeEvents("closed", EventsAfter(server.after))
  /\ UNCHANGED <<logVars, watcher, breaks>>

(* The connection breaks, at the server, at the client or in between.      *)
Breaks ==
  /\ watcher.pc = "reading"
  /\ breaks < MaxBreaks /\ breaks' = breaks + 1
  /\ server' = [server EXCEPT !.pc = "closed"]
  /\ wire' \in Prefixes(wire)
  /\ UNCHANGED <<logVars, watcher>>

-----------------------------------------------------------------------------
(* Mutant: watchRun subscribes from the start again. *)
StreamFromStart == 0

(* watchRun passes the last sequence number it printed.                    *)
StreamFrom == watcher.after

Connect ==
  /\ watcher.pc = "connect"
  /\ watcher' = [watcher EXCEPT !.pc = "reading", !.terminal = FALSE,
                                !.after = StreamFrom]
  /\ server' = [pc |-> "opening", after |-> StreamFrom]
  /\ wire' = <<>>
  /\ UNCHANGED <<logVars, breaks>>

Receive ==
  LET event == Head(wire) IN
  /\ watcher.pc = "reading"
  /\ wire # <<>>
  /\ wire' = Tail(wire)
  /\ watcher' = IF event.sequence <= watcher.after THEN watcher
                ELSE [watcher EXCEPT !.after = event.sequence,
                                     !.handled = Append(@, event),
                                     !.terminal = @ \/ terminalEvent(event)]
  /\ UNCHANGED <<logVars, server, breaks>>

(* StreamEvents at the end of the body.                                    *)
EndOfStream == IF watcher.terminal THEN "complete" ELSE "interrupted"

StreamEnds ==
  /\ watcher.pc = "reading"
  /\ wire = <<>> /\ server.pc = "closed"
  /\ watcher' = [watcher EXCEPT !.pc = "asking", !.stream = EndOfStream]
  /\ UNCHANGED <<logVars, server, wire, breaks>>

(* watchRun asks for the Run after every stream, returns if it has ended   *)
(* and subscribes again otherwise.                                         *)
Ask ==
  /\ watcher.pc = "asking"
  /\ watcher' = IF Ended
                THEN [watcher EXCEPT !.pc = "returned", !.result = "ended"]
                ELSE [watcher EXCEPT !.pc = "connect"]
  /\ UNCHANGED <<logVars, server, wire, breaks>>

(* The call for the Run fails: watchRun returns the error.                 *)
AskFails ==
  /\ watcher.pc = "asking"
  /\ breaks < MaxBreaks /\ breaks' = breaks + 1
  /\ watcher' = [watcher EXCEPT !.pc = "returned", !.result = "error"]
  /\ UNCHANGED <<logVars, server, wire>>

ServerStep == ServerOpens \/ ServerChecks \/ ServerPolls \/ ServerTail

WatcherStep == Connect \/ Receive \/ StreamEnds \/ Ask

StreamNext ==
  \/ LogStep /\ UNCHANGED connVars
  \/ ServerStep
  \/ WatcherStep
  \/ Breaks
  \/ AskFails

StreamSpec == StreamInit /\ [][StreamNext]_streamVars

(* A transaction that was begun ends, the handler and the client go on; a  *)
(* poll is not postponed for ever by keepalives.  Whether the Run ends is  *)
(* left open.                                                              *)
FairStreamSpec ==
  /\ StreamSpec
  /\ \A w \in Writers : WF_streamVars(Proceeds(w) /\ UNCHANGED connVars)
  /\ WF_streamVars(ServerStep)
  /\ WF_streamVars(WatcherStep)

-----------------------------------------------------------------------------
(* Properties.                                                             *)

(* Type invariant.                                                         *)
StreamTypeOK ==
  /\ LogTypeOK
  /\ server.pc \in {"opening", "checking", "waiting", "tail", "closed"}
  /\ watcher.after \in Nat
  /\ breaks \in 0 .. MaxBreaks

(* Reconnecting neither loses, repeats nor reorders: what the callback was  *)
(* given is at every moment the log up to some point, numbered without     *)
(* gaps, however many connections it took and although transactions that   *)
(* do not lock the Run commit meanwhile.                                   *)
HandledIsPrefix ==
  /\ IsPrefix(watcher.handled, EventsAfter(0))
  /\ \A i \in DOMAIN watcher.handled : watcher.handled[i].sequence = i

(* StreamEvents returns nil only to a caller that was given the terminal   *)
(* event and everything before it; an end of file is not enough.           *)
CompleteMeansTerminal ==
  watcher.stream = "complete" =>
    \E i \in DOMAIN watcher.handled : terminalEvent(watcher.handled[i])

(* The tail read: on an unbroken connection the stream of a Run that has   *)
(* ended contains the terminal event, although the status is read before   *)
(* the events and both are committed meanwhile.                            *)
UnbrokenIsComplete == breaks = 0 => watcher.stream # "interrupted"

(* The stream tells the truth about its end: complete when the terminal    *)
(* event was delivered, interrupted only when the connection broke; and    *)
(* the log it reads has neither gaps nor duplicate numbers.                *)
StreamSound ==
  StreamTypeOK /\ NoGaps /\ CompleteMeansTerminal /\ UnbrokenIsComplete

(* watchRun returns once the Run has ended.                                *)
WatchReturns == Ended ~> watcher.pc = "returned"
=============================================================================
