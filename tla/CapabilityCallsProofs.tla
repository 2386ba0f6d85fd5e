------------------------ MODULE CapabilityCallsProofs ------------------------
(***************************************************************************)
(* Proofs about CapabilityCalls, for any number of keys, callers, Attempts *)
(* and requests.                                                           *)
(*                                                                         *)
(* The inductive invariant has two halves.  RecordsMatch says for whom the *)
(* answers in rows, calls and callers were computed.  Permission says that *)
(* the right to invoke a binding is handed out once per key: it needs the  *)
(* transaction of Postgres, which gives Execute to the caller that inserts *)
(* the row.                                                                *)
(***************************************************************************)
EXTENDS CapabilityCalls, SequenceTheorems, TLAPS

AnyRequest == Requests \union {NoRequest}

Row  == [status  : {"absent", "pending", "failed", "succeeded"},
         request : AnyRequest, answer : Nat]

CallRecord == [status : {"absent", "open", "done"},
               request : AnyRequest, answer : Nat]

CallerRecord ==
  [pc      : {"idle", "reserve", "joined", "invoke", "finish", "returned"},
   key     : Keys \union {"none"},
   request : AnyRequest,
   answer  : Nat]

Types ==
  /\ rows \in [Keys -> Row]
  /\ calls \in [Attempts -> [Keys -> CallRecord]]
  /\ callers \in [Attempts -> [Callers -> CallerRecord]]
  /\ executions \in Seq([key : Keys, request : Requests])

(* An answer that was computed for the request, or none.                   *)
Fits(answer, request) ==
  answer # 0 => /\ answer \in DOMAIN executions
                /\ executions[answer].request = request

(* The answer of a caller is that of its call, which has its target.       *)
FitsCall(x, call) ==
  x.answer # 0 => /\ call.status # "absent"
                  /\ call.request.target = x.request.target
                  /\ Fits(x.answer, call.request)

RowMatches(row) ==
  (row.status = "absent" => row = NoRow) /\ Fits(row.answer, row.request)

CallMatches(call) ==
  (call.status = "absent" => call = NoCall) /\ Fits(call.answer, call.request)

(* A caller that owns a call made its request; one that joined it has the  *)
(* same target.                                                            *)
CallerMatches(x, call, row) ==
  /\ x.pc \in {"reserve", "invoke", "finish"} =>
       call.status # "absent" /\ call.request = x.request
  /\ x.pc = "joined" =>
       /\ call.status # "absent" /\ call.request.target = x.request.target
       /\ x.answer = 0
  /\ x.pc \in {"invoke", "finish"} =>
       row.status # "absent" /\ row.request = x.request
  /\ x.pc = "finish" => Fits(x.answer, x.request)
  /\ x.pc = "returned" => FitsCall(x, call)

RecordsMatch ==
  /\ \A key \in Keys : RowMatches(rows[key])
  /\ \A a \in Attempts, key \in Keys : CallMatches(calls[a][key])
  /\ \A a \in Attempts, c \in Callers :
       callers[a][c].pc # "idle" =>
         /\ callers[a][c].key \in Keys /\ callers[a][c].request \in Requests
         /\ CallerMatches(callers[a][c], calls[a][callers[a][c].key],
                          rows[callers[a][c].key])

Invokes(a, c, key) == callers[a][c].pc = "invoke" /\ callers[a][c].key = key

Permission ==
  /\ \A i \in DOMAIN executions : rows[executions[i].key].status # "absent"
  /\ \A a \in Attempts, c \in Callers, key \in Keys :
       Invokes(a, c, key) =>
         /\ rows[key].status # "absent"
         /\ \A i \in DOMAIN executions : executions[i].key # key
         /\ \A b \in Attempts, d \in Callers :
              Invokes(b, d, key) => b = a /\ d = c
  /\ SideEffectOnce

-----------------------------------------------------------------------------
(* What a step leaves alone.  Rows and calls are never withdrawn and keep   *)
(* their requests; executions are never forgotten.                         *)
Kept(p, q) == p.status # "absent" => q.status # "absent" /\ q.request = p.request

RecordsKept ==
  /\ \A key \in Keys : Kept(rows[key], rows'[key])
  /\ \A a \in Attempts, key \in Keys : Kept(calls[a][key], calls'[a][key])
  /\ \A n \in DOMAIN executions :
       n \in DOMAIN executions' /\ executions'[n] = executions[n]

(* A step that keeps the records and moves one caller consistently leaves  *)
(* records that match.                                                     *)
LEMMA OneCallerMoves ==
  ASSUME RecordsMatch, RecordsKept,
         \A key \in Keys : RowMatches(rows[key])',
         \A b \in Attempts, key \in Keys : CallMatches(calls[b][key])',
         NEW a \in Attempts, NEW c \in Callers,
         \A b \in Attempts, d \in Callers :
           callers'[b][d] = callers[b][d] \/ (b = a /\ d = c),
         callers'[a][c].pc # "idle" =>
           /\ callers'[a][c].key \in Keys
           /\ callers'[a][c].request \in Requests
           /\ CallerMatches(callers[a][c], calls[a][callers[a][c].key],
                            rows[callers[a][c].key])'
  PROVE  RecordsMatch'
<1>1. ASSUME NEW b \in Attempts, NEW d \in Callers, callers'[b][d].pc # "idle"
      PROVE  /\ callers'[b][d].key \in Keys /\ callers'[b][d].request \in Requests
             /\ CallerMatches(callers[b][d], calls[b][callers[b][d].key],
                              rows[callers[b][d].key])'
  <2>1. CASE b = a /\ d = c
    BY <1>1, <2>1
  <2>2. CASE callers'[b][d] = callers[b][d]
    <3> DEFINE x == callers[b][d]
    <3>1. /\ x.key \in Keys /\ x.request \in Requests
          /\ CallerMatches(x, calls[b][x.key], rows[x.key])
      BY <1>1, <2>2 DEF RecordsMatch
    <3>2. /\ Kept(calls[b][x.key], calls'[b][x.key])
          /\ Kept(rows[x.key], rows'[x.key])
      BY <3>1 DEF RecordsKept
    <3>3. \A n \in DOMAIN executions :
            n \in DOMAIN executions' /\ executions'[n] = executions[n]
      BY DEF RecordsKept
    <3> HIDE DEF x
    <3> QED
      BY <2>2, <3>1, <3>2, <3>3
         DEF CallerMatches, Kept, Fits, FitsCall, x
  <2> QED
    BY <2>1, <2>2
<1> QED
  BY <1>1 DEF RecordsMatch

(* Moving one caller.                                                      *)
LEMMA SetFacts ==
  ASSUME Types, NEW a \in Attempts, NEW c \in Callers, NEW y \in CallerRecord,
         Set(a, c, y)
  PROVE  /\ callers' \in [Attempts -> [Callers -> CallerRecord]]
         /\ callers'[a][c] = y
         /\ \A b \in Attempts, d \in Callers :
              callers'[b][d] = callers[b][d] \/ (b = a /\ d = c)
BY DEF Set, Types

(* finishCall ends one caller and one call.                                *)
LEMMA FinishFacts ==
  ASSUME Types, NEW a \in Attempts, NEW c \in Callers, NEW answer \in Nat,
         callers[a][c].key \in Keys, finishCall(a, c, answer)
  PROVE  LET x == callers[a][c]
             k == x.key
         IN
         /\ callers' \in [Attempts -> [Callers -> CallerRecord]]
         /\ calls' \in [Attempts -> [Keys -> CallRecord]]
         /\ callers'[a][c].pc = "returned" /\ callers'[a][c].key = k
         /\ callers'[a][c].request = x.request
         /\ callers'[a][c].answer = answer
         /\ \A b \in Attempts, d \in Callers :
              callers'[b][d] = callers[b][d] \/ (b = a /\ d = c)
         /\ calls'[a][k].status = "done" /\ calls'[a][k].answer = answer
         /\ calls'[a][k].request = calls[a][k].request
         /\ \A b \in Attempts, key \in Keys :
              calls'[b][key] = calls[b][key] \/ (b = a /\ key = k)
<1> DEFINE x == callers[a][c]
           k == x.key
           y == [x EXCEPT !.pc = "returned", !.answer = answer]
           z == [calls[a][k] EXCEPT !.status = "done", !.answer = answer]
<1>1. x \in CallerRecord /\ calls[a][k] \in CallRecord
  BY DEF Types
<1>2. /\ y \in CallerRecord /\ y.pc = "returned" /\ y.key = k
      /\ y.request = x.request /\ y.answer = answer
  BY <1>1 DEF CallerRecord
<1>3. /\ z \in CallRecord /\ z.status = "done" /\ z.answer = answer
      /\ z.request = calls[a][k].request
  BY <1>1 DEF CallRecord
<1>4. Set(a, c, y)
  BY DEF finishCall
<1>5. /\ callers' \in [Attempts -> [Callers -> CallerRecord]]
      /\ callers'[a][c] = y
      /\ \A b \in Attempts, d \in Callers :
           callers'[b][d] = callers[b][d] \/ (b = a /\ d = c)
  BY <1>2, <1>4, SetFacts
<1>6. calls' = [calls EXCEPT ![a] = [calls[a] EXCEPT ![k] = z]]
  BY <1>1 DEF finishCall, Types, CallRecord
<1> HIDE DEF z
<1>7. /\ calls' \in [Attempts -> [Keys -> CallRecord]]
      /\ calls'[a][k] = z
      /\ \A b \in Attempts, key \in Keys :
           calls'[b][key] = calls[b][key] \/ (b = a /\ key = k)
  BY <1>3, <1>6 DEF Types
<1> HIDE DEF y
<1> QED
  BY <1>2, <1>3, <1>5, <1>7

-----------------------------------------------------------------------------
(* Each step leaves records that match.                                    *)

Matched == Types /\ RecordsMatch

(* Rows and calls a step does not touch still match.                       *)
LEMMA UntouchedMatch ==
  ASSUME RecordsMatch,
         \A n \in DOMAIN executions :
           n \in DOMAIN executions' /\ executions'[n] = executions[n]
  PROVE  /\ \A key \in Keys : rows'[key] = rows[key] => RowMatches(rows[key])'
         /\ \A a \in Attempts, key \in Keys :
              calls'[a][key] = calls[a][key] => CallMatches(calls[a][key])'
<1>1. \A key \in Keys : RowMatches(rows[key])
  BY DEF RecordsMatch
<1>2. \A a \in Attempts, key \in Keys : CallMatches(calls[a][key])
  BY DEF RecordsMatch
<1> QED
  BY <1>1, <1>2 DEF RowMatches, CallMatches, Fits

(* scopedCapabilities.Call opens a call, joins one or is refused.          *)
LEMMA CallMatched ==
  ASSUME Matched, NEW a \in Attempts, NEW c \in Callers, NEW key \in Keys,
         NEW request \in Requests, Call(a, c, key, request)
  PROVE  Matched'
<1> DEFINE previous == calls[a][key]
           p == IF previous = NoCall THEN "reserve"
                ELSE IF Joins(previous, request) THEN "joined" ELSE "returned"
           y == Caller(p, key, request, 0)
           z == [status |-> "open", request |-> request, answer |-> 0]
<1>1. Types /\ RecordsMatch /\ rows' = rows /\ executions' = executions
  BY DEF Matched, Call
<1>2. y \in CallerRecord /\ Set(a, c, y)
  BY DEF Call, Caller, CallerRecord, AnyRequest
<1>3. /\ callers' \in [Attempts -> [Callers -> CallerRecord]]
      /\ callers'[a][c] = y
      /\ \A b \in Attempts, d \in Callers :
           callers'[b][d] = callers[b][d] \/ (b = a /\ d = c)
  BY <1>1, <1>2, SetFacts
<1>4. /\ y.pc = p /\ y.key = key /\ y.request = request /\ y.answer = 0
  BY DEF Caller
<1>5. z \in CallRecord /\ z.status = "open" /\ z.request = request /\ z.answer = 0
  BY DEF CallRecord, AnyRequest
<1>6. previous = NoCall => calls' = [calls EXCEPT ![a][key] = z]
  <2>1. PICK u : u = [status |-> "open", request |-> NoRequest, answer |-> 0]
    OBVIOUS
  <2>2. [NoCall EXCEPT !.status = "open"] = u
    BY <2>1 DEF NoCall
  <2>3. [u EXCEPT !.request = request] = z
    BY <2>1
  <2> HIDE DEF z
  <2> QED
    BY <2>2, <2>3 DEF Call
<1>7. previous # NoCall => calls' = calls
  BY DEF Call
<1>8. CallMatches(previous)
  BY <1>1 DEF RecordsMatch
<1> HIDE DEF y, z, p, previous
<1>9. /\ calls' \in [Attempts -> [Keys -> CallRecord]]
      /\ previous = NoCall => calls'[a][key] = z
      /\ \A b \in Attempts, k \in Keys :
           calls'[b][k] = calls[b][k] \/ (previous = NoCall /\ b = a /\ k = key)
  <2>1. CASE previous = NoCall
    <3>1. calls' = [calls EXCEPT ![a][key] = z]
      BY <1>6, <2>1
    <3> QED
      BY <1>1, <1>5, <2>1, <3>1 DEF Types
  <2>2. CASE previous # NoCall
    BY <1>1, <1>7, <2>2 DEF Types
  <2> QED
    BY <2>1, <2>2
<1>10. RecordsKept
  <2>1. NoCall.status = "absent"
    BY DEF NoCall
  <2> QED
    BY <1>1, <1>9, <2>1 DEF RecordsKept, Kept, previous
<1>11. /\ \A k \in Keys : RowMatches(rows[k])'
       /\ \A b \in Attempts, k \in Keys : CallMatches(calls[b][k])'
  <2>1. \A b \in Attempts, k \in Keys :
          calls'[b][k] = calls[b][k] => CallMatches(calls[b][k])'
    BY <1>1, UntouchedMatch
  <2>2. previous = NoCall => CallMatches(calls[a][key])'
    BY <1>5, <1>9 DEF CallMatches, Fits
  <2>3. \A k \in Keys : RowMatches(rows[k])'
    BY <1>1, UntouchedMatch
  <2> QED
    BY <1>9, <2>1, <2>2, <2>3
<1>12. CallerMatches(callers[a][c], calls[a][callers[a][c].key],
                     rows[callers[a][c].key])'
  <2>1. CASE previous = NoCall
    <3>1. y.pc = "reserve" /\ calls'[a][key] = z
      BY <1>4, <1>9, <2>1 DEF p
    <3> QED
      BY <1>3, <1>4, <1>5, <3>1 DEF CallerMatches
  <2>2. CASE previous # NoCall /\ Joins(previous, request)
    <3>1. y.pc = "joined" /\ calls'[a][key] = previous
      BY <1>4, <1>9, <2>2 DEF p, previous
    <3>2. previous.status # "absent" /\ previous.request.target = request.target
      BY <1>8, <2>2 DEF CallMatches, Joins
    <3> QED
      BY <1>3, <1>4, <3>1, <3>2 DEF CallerMatches
  <2>3. CASE previous # NoCall /\ ~Joins(previous, request)
    <3>1. y.pc = "returned"
      BY <1>4, <2>3 DEF p
    <3> QED
      BY <1>3, <1>4, <3>1 DEF CallerMatches, FitsCall
  <2> QED
    BY <2>1, <2>2, <2>3
<1>13. RecordsMatch'
  BY <1>1, <1>3, <1>4, <1>10, <1>11, <1>12, OneCallerMoves
<1> QED
  BY <1>1, <1>3, <1>9, <1>13 DEF Matched, Types

(* A waiter takes the answer of the call it joined, or gives up.           *)
LEMMA WaiterMatched ==
  ASSUME Matched, NEW a \in Attempts, NEW c \in Callers,
         Wake(a, c) \/ Abandon(a, c)
  PROVE  Matched'
<1> DEFINE x == callers[a][c]
<1>1. /\ Types /\ RecordsMatch /\ x \in CallerRecord /\ x.pc = "joined"
      /\ rows' = rows /\ calls' = calls /\ executions' = executions
  BY DEF Matched, Wake, Abandon, Types
<1>2. /\ x.key \in Keys /\ x.request \in Requests
      /\ CallerMatches(x, calls[a][x.key], rows[x.key])
      /\ CallMatches(calls[a][x.key]) /\ calls[a][x.key].answer \in Nat
  BY <1>1 DEF RecordsMatch, Types, CallRecord
<1>3. PICK answer \in {0, calls[a][x.key].answer} :
        Set(a, c, [x EXCEPT !.pc = "returned", !.answer = answer])
  <2>1. CASE Wake(a, c)
    BY <2>1 DEF Wake
  <2>2. CASE Abandon(a, c)
    <3>1. x.answer = 0
      BY <1>1, <1>2 DEF CallerMatches
    <3>2. [x EXCEPT !.pc = "returned", !.answer = 0] = [x EXCEPT !.pc = "returned"]
      BY <1>1, <3>1 DEF CallerRecord
    <3> QED
      BY <2>2, <3>2 DEF Abandon
  <2> QED
    BY <2>1, <2>2
<1> DEFINE y == [x EXCEPT !.pc = "returned", !.answer = answer]
<1>4. /\ y \in CallerRecord /\ y.pc = "returned" /\ y.key = x.key
      /\ y.request = x.request /\ y.answer = answer
  <2>1. answer \in Nat
    BY <1>2
  <2> QED
    BY <1>1, <2>1 DEF CallerRecord
<1>5. FitsCall(y, calls[a][x.key])
  BY <1>1, <1>2, <1>4 DEF CallMatches, CallerMatches, Fits, FitsCall
<1> HIDE DEF x, y
<1>6. /\ callers' \in [Attempts -> [Callers -> CallerRecord]]
      /\ callers'[a][c] = y
      /\ \A b \in Attempts, d \in Callers :
           callers'[b][d] = callers[b][d] \/ (b = a /\ d = c)
  BY <1>1, <1>3, <1>4, SetFacts DEF y
<1>7. RecordsKept
  BY <1>1 DEF RecordsKept, Kept
<1>8. /\ \A k \in Keys : RowMatches(rows[k])'
      /\ \A b \in Attempts, k \in Keys : CallMatches(calls[b][k])'
  BY <1>1, UntouchedMatch
<1>9. CallerMatches(callers[a][c], calls[a][callers[a][c].key],
                    rows[callers[a][c].key])'
  BY <1>1, <1>4, <1>5, <1>6 DEF CallerMatches, FitsCall, Fits
<1>10. RecordsMatch'
  BY <1>1, <1>2, <1>4, <1>6, <1>7, <1>8, <1>9, OneCallerMoves
<1> QED
  BY <1>1, <1>6, <1>10 DEF Matched, Types

(* provider.Invoke: the new execution is the caller's.                     *)
LEMMA InvokeMatched ==
  ASSUME Matched, NEW a \in Attempts, NEW c \in Callers, Invoke(a, c)
  PROVE  Matched'
<1> DEFINE x == callers[a][c]
           e == [key |-> x.key, request |-> x.request]
<1>1. /\ Types /\ RecordsMatch /\ x \in CallerRecord /\ x.pc = "invoke"
      /\ rows' = rows /\ calls' = calls /\ executions' = Append(executions, e)
  BY DEF Matched, Invoke, Types
<1>2. /\ x.key \in Keys /\ x.request \in Requests
      /\ CallerMatches(x, calls[a][x.key], rows[x.key])
  BY <1>1 DEF RecordsMatch
<1>3. executions \in Seq([key : Keys, request : Requests])
  BY <1>1 DEF Types
<1>4. e \in [key : Keys, request : Requests] /\ e.request = x.request
  BY <1>2
<1> HIDE DEF e
<1>5. /\ executions' \in Seq([key : Keys, request : Requests])
      /\ Len(executions) + 1 \in DOMAIN executions'
      /\ executions'[Len(executions) + 1] = e
      /\ \A n \in DOMAIN executions :
           n \in DOMAIN executions' /\ executions'[n] = executions[n]
      /\ Len(executions) \in Nat
  BY <1>1, <1>3, <1>4, AppendProperties
<1>6. PICK answer \in {0, Len(executions) + 1} :
        Set(a, c, [x EXCEPT !.pc = "finish", !.answer = answer])
  BY DEF Invoke
<1> DEFINE y == [x EXCEPT !.pc = "finish", !.answer = answer]
<1>7. /\ y \in CallerRecord /\ y.pc = "finish" /\ y.key = x.key
      /\ y.request = x.request /\ y.answer = answer
  <2>1. answer \in Nat
    BY <1>5
  <2> QED
    BY <1>1, <2>1 DEF CallerRecord
<1> HIDE DEF x, y
<1>8. /\ callers' \in [Attempts -> [Callers -> CallerRecord]]
      /\ callers'[a][c] = y
      /\ \A b \in Attempts, d \in Callers :
           callers'[b][d] = callers[b][d] \/ (b = a /\ d = c)
  BY <1>1, <1>6, <1>7, SetFacts DEF y
<1>9. RecordsKept
  BY <1>1, <1>5 DEF RecordsKept, Kept
<1>10. /\ \A k \in Keys : RowMatches(rows[k])'
       /\ \A b \in Attempts, k \in Keys : CallMatches(calls[b][k])'
  BY <1>1, <1>5, UntouchedMatch
<1>11. CallerMatches(callers[a][c], calls[a][callers[a][c].key],
                     rows[callers[a][c].key])'
  <2>1. answer # 0 => /\ answer \in DOMAIN executions'
                      /\ executions'[answer].request = x.request
    BY <1>4, <1>5
  <2> QED
    BY <1>1, <1>2, <1>7, <1>8, <2>1 DEF CallerMatches, Fits
<1>12. RecordsMatch'
  BY <1>1, <1>2, <1>7, <1>8, <1>9, <1>10, <1>11, OneCallerMoves
<1> QED
  BY <1>1, <1>5, <1>8, <1>12 DEF Matched, Types

(* A call that ends with an answer of its own request.                     *)
LEMMA FinishMatched ==
  ASSUME Matched, NEW a \in Attempts, NEW c \in Callers, NEW answer \in Nat,
         callers[a][c].pc \in {"reserve", "finish"},
         finishCall(a, c, answer), Fits(answer, callers[a][c].request),
         executions' = executions, rows' \in [Keys -> Row],
         \A key \in Keys : Kept(rows[key], rows'[key]) /\ RowMatches(rows[key])'
  PROVE  Matched'
<1> DEFINE x == callers[a][c]
           k == x.key
<1>1. Types /\ RecordsMatch
  BY DEF Matched
<1>2. /\ k \in Keys /\ x.request \in Requests
      /\ CallerMatches(x, calls[a][k], rows[k])
  BY <1>1 DEF RecordsMatch
<1>3. calls[a][k].status # "absent" /\ calls[a][k].request = x.request
  BY <1>2 DEF CallerMatches
<1>4. /\ callers' \in [Attempts -> [Callers -> CallerRecord]]
      /\ calls' \in [Attempts -> [Keys -> CallRecord]]
      /\ callers'[a][c].pc = "returned" /\ callers'[a][c].key = k
      /\ callers'[a][c].request = x.request
      /\ callers'[a][c].answer = answer
      /\ \A b \in Attempts, d \in Callers :
           callers'[b][d] = callers[b][d] \/ (b = a /\ d = c)
      /\ calls'[a][k].status = "done" /\ calls'[a][k].answer = answer
      /\ calls'[a][k].request = calls[a][k].request
      /\ \A b \in Attempts, key \in Keys :
           calls'[b][key] = calls[b][key] \/ (b = a /\ key = k)
  BY <1>1, <1>2, FinishFacts
<1>5. RecordsKept
  <2>1. \A b \in Attempts, key \in Keys : Kept(calls[b][key], calls'[b][key])
    BY <1>4 DEF Kept
  <2> QED
    BY <2>1 DEF RecordsKept
<1>6. \A b \in Attempts, key \in Keys : CallMatches(calls[b][key])'
  <2>1. \A b \in Attempts, key \in Keys :
          calls'[b][key] = calls[b][key] => CallMatches(calls[b][key])'
    BY <1>1, UntouchedMatch
  <2>2. CallMatches(calls[a][k])
    BY <1>1, <1>2 DEF RecordsMatch
  <2>3. ASSUME NEW b \in Attempts, NEW key \in Keys, b = a /\ key = k
        PROVE  CallMatches(calls[b][key])'
    BY <1>3, <1>4, <2>3 DEF CallMatches, Fits
  <2> QED
    BY <1>4, <2>1, <2>3
<1>7. CallerMatches(callers[a][c], calls[a][callers[a][c].key],
                    rows[callers[a][c].key])'
  BY <1>3, <1>4 DEF CallerMatches, Fits, FitsCall
<1>8. RecordsMatch'
  BY <1>1, <1>2, <1>4, <1>5, <1>6, <1>7, OneCallerMoves
<1> QED
  BY <1>1, <1>4, <1>8 DEF Matched, Types

(* ReserveCapability and what Call does with its answer.                   *)
LEMMA ReserveMatched ==
  ASSUME Matched, NEW a \in Attempts, NEW c \in Callers, Reserve(a, c)
  PROVE  Matched'
<1> DEFINE x   == callers[a][c]
           k   == x.key
           row == rows[k]
           new == [status |-> "pending", request |-> x.request, answer |-> 0]
<1>1. /\ Types /\ RecordsMatch /\ x \in CallerRecord /\ x.pc = "reserve"
      /\ executions' = executions
  BY DEF Matched, Reserve, Types
<1>2. /\ k \in Keys /\ x.request \in Requests
      /\ CallerMatches(x, calls[a][k], row) /\ RowMatches(row)
      /\ row \in Row /\ rows \in [Keys -> Row]
  BY <1>1 DEF RecordsMatch, Types
<1>3. Fits(0, x.request)
  BY DEF Fits
<1>4. CASE ~(ReserveAllowed(a) /\ (row = NoRow \/ SameRequest(row, x.request)))
  <2>1. finishCall(a, c, 0) /\ rows' = rows
    BY <1>4 DEF Reserve
  <2>2. \A key \in Keys : Kept(rows[key], rows'[key]) /\ RowMatches(rows[key])'
    BY <1>1, <2>1, UntouchedMatch DEF Kept
  <2> QED
    BY <1>1, <1>2, <1>3, <2>1, <2>2, FinishMatched
<1>5. CASE ReserveAllowed(a) /\ (row = NoRow \/ SameRequest(row, x.request))
  <2>1. rows' = [rows EXCEPT ![k] = IF row = NoRow THEN new ELSE row]
    <3>1. PICK u : u = [status |-> "pending", request |-> NoRequest, answer |-> 0]
      OBVIOUS
    <3>2. [NoRow EXCEPT !.status = "pending"] = u
      BY <3>1 DEF NoRow
    <3>3. [u EXCEPT !.request = x.request] = new
      BY <3>1
    <3> HIDE DEF new
    <3> QED
      BY <1>5, <3>2, <3>3 DEF Reserve
  <2>2. /\ new \in Row /\ new.status = "pending" /\ new.answer = 0
        /\ new.request = x.request
    BY <1>2 DEF Row, AnyRequest
  <2>3. /\ row.status = "absent" => row = NoRow
        /\ NoRow.status = "absent"
    BY <1>2 DEF RowMatches, NoRow
  <2> HIDE DEF new
  <2>4. /\ rows' \in [Keys -> Row]
        /\ rows'[k] = IF row = NoRow THEN new ELSE row
        /\ \A key \in Keys : rows'[key] = rows[key] \/ key = k
    BY <1>2, <2>1, <2>2
  <2>5. \A key \in Keys : Kept(rows[key], rows'[key])
    BY <2>3, <2>4 DEF Kept
  <2>6. \A key \in Keys : rows'[key] = rows[key] => RowMatches(rows[key])'
    BY <1>1, UntouchedMatch
  <2>7. \A key \in Keys : key = k /\ row = NoRow => RowMatches(rows[key])'
    BY <1>1, <2>2, <2>4 DEF RowMatches, Fits
  <2>8. \A key \in Keys : RowMatches(rows[key])'
    BY <2>4, <2>6, <2>7
  <2>9. rows'[k].status # "absent" /\ rows'[k].request = x.request
    BY <1>5, <2>2, <2>3, <2>4 DEF SameRequest
  <2>10. CASE finishCall(a, c, 0)
    BY <1>1, <1>3, <2>4, <2>5, <2>8, <2>10, FinishMatched
  <2>11. CASE ~Execute(k) /\ finishCall(a, c, row.answer)
    <3>1. row # NoRow
      BY <2>11 DEF Execute
    <3>2. Fits(row.answer, x.request) /\ row.answer \in Nat
      BY <1>2, <1>5, <3>1 DEF RowMatches, Row, SameRequest
    <3> QED
      BY <1>1, <2>4, <2>5, <2>8, <2>11, <3>2, FinishMatched
  <2>12. CASE Set(a, c, [x EXCEPT !.pc = "invoke"]) /\ calls' = calls
    <3> DEFINE y == [x EXCEPT !.pc = "invoke"]
    <3>1. /\ y \in CallerRecord /\ y.pc = "invoke" /\ y.key = k
          /\ y.request = x.request
      BY <1>1 DEF CallerRecord
    <3> HIDE DEF x, y
    <3>2. /\ callers' \in [Attempts -> [Callers -> CallerRecord]]
          /\ callers'[a][c] = y
          /\ \A b \in Attempts, d \in Callers :
               callers'[b][d] = callers[b][d] \/ (b = a /\ d = c)
      BY <1>1, <2>12, <3>1, SetFacts DEF y
    <3>3. RecordsKept
      BY <1>1, <2>5, <2>12 DEF RecordsKept, Kept
    <3>4. \A b \in Attempts, key \in Keys : CallMatches(calls[b][key])'
      BY <1>1, <2>12, UntouchedMatch
    <3>5. CallerMatches(callers[a][c], calls[a][callers[a][c].key],
                        rows[callers[a][c].key])'
      BY <1>1, <1>2, <2>9, <2>12, <3>1, <3>2 DEF CallerMatches
    <3>6. RecordsMatch'
      BY <1>1, <1>2, <2>8, <3>1, <3>2, <3>3, <3>4, <3>5, OneCallerMoves
    <3> QED
      BY <1>1, <2>4, <2>12, <3>2, <3>6 DEF Matched, Types
  <2> QED
    BY <1>5, <2>10, <2>11, <2>12 DEF Reserve
<1> QED
  BY <1>4, <1>5

(* FinishCapability and what Call does with its answer.                    *)
LEMMA FinishStepMatched ==
  ASSUME Matched, NEW a \in Attempts, NEW c \in Callers, Finish(a, c)
  PROVE  Matched'
<1> DEFINE x   == callers[a][c]
           k   == x.key
           row == rows[k]
           s   == IF x.answer = 0 THEN "failed" ELSE "succeeded"
<1>1. /\ Types /\ RecordsMatch /\ x \in CallerRecord /\ x.pc = "finish"
      /\ executions' = executions
  BY DEF Matched, Finish, Types
<1>2. /\ k \in Keys /\ x.request \in Requests /\ x.answer \in Nat
      /\ CallerMatches(x, calls[a][k], row)
      /\ row \in Row /\ rows \in [Keys -> Row]
  BY <1>1 DEF RecordsMatch, Types, CallerRecord
<1>3. Fits(0, x.request) /\ Fits(x.answer, x.request)
      /\ row.request = x.request /\ row.status # "absent"
  BY <1>1, <1>2 DEF Fits, CallerMatches
<1>4. finishCall(a, c, 0) \/ finishCall(a, c, x.answer)
  BY DEF Finish
<1>5. CASE rows' = rows
  <2>1. \A key \in Keys : Kept(rows[key], rows'[key]) /\ RowMatches(rows[key])'
    BY <1>1, <1>5, UntouchedMatch DEF Kept
  <2> QED
    BY <1>1, <1>2, <1>3, <1>4, <1>5, <2>1, FinishMatched
<1>6. CASE rows' = [rows EXCEPT ![k].status = s, ![k].answer = x.answer]
  <2> DEFINE z == [row EXCEPT !.status = s, !.answer = x.answer]
  <2>1. /\ z \in Row /\ z.status = s /\ z.answer = x.answer
        /\ z.request = row.request
    BY <1>2 DEF Row
  <2>2. rows' = [rows EXCEPT ![k] = z]
    BY <1>2, <1>6 DEF Row
  <2> HIDE DEF z
  <2>3. /\ rows' \in [Keys -> Row] /\ rows'[k] = z
        /\ \A key \in Keys : rows'[key] = rows[key] \/ key = k
    BY <1>2, <2>1, <2>2
  <2>4. \A key \in Keys : Kept(rows[key], rows'[key])
    BY <2>1, <2>3 DEF Kept
  <2>5. \A key \in Keys : rows'[key] = rows[key] => RowMatches(rows[key])'
    BY <1>1, UntouchedMatch
  <2>6. \A key \in Keys : key = k => RowMatches(rows[key])'
    BY <1>1, <1>3, <2>1, <2>3 DEF RowMatches, Fits
  <2> QED
    BY <1>1, <1>2, <1>3, <1>4, <2>3, <2>4, <2>5, <2>6, FinishMatched
<1> QED
  BY <1>5, <1>6 DEF Finish

(* In every reachable state the records match, whichever store is used.    *)
LEMMA AlwaysMatched == Spec => []Matched
<1>1. Init => Matched
  <2> SUFFICES ASSUME Init PROVE Matched
    OBVIOUS
  <2>1. NoRow \in Row /\ NoRow.answer = 0
    BY DEF NoRow, Row, AnyRequest
  <2>2. NoCall \in CallRecord /\ NoCall.answer = 0
    BY DEF NoCall, CallRecord, AnyRequest
  <2>3. [pc |-> "idle", key |-> "none", request |-> NoRequest, answer |-> 0]
          \in CallerRecord
    BY DEF CallerRecord, AnyRequest
  <2>4. Types
    BY <2>1, <2>2, <2>3 DEF Init, Types
  <2>5. RecordsMatch
    BY <2>1, <2>2 DEF Init, RecordsMatch, RowMatches, CallMatches, Fits
  <2> QED
    BY <2>4, <2>5 DEF Matched
<1>2. Matched /\ [Next]_vars => Matched'
  <2> SUFFICES ASSUME Matched, [Next]_vars PROVE Matched'
    OBVIOUS
  <2>1. ASSUME NEW a \in Attempts, NEW c \in Callers, CallerStep(a, c)
        PROVE  Matched'
    BY <2>1, WaiterMatched, ReserveMatched, InvokeMatched, FinishStepMatched
       DEF CallerStep
  <2>2. UNCHANGED <<rows, calls, callers, executions>> => Matched'
    BY DEF Matched, Types, RecordsMatch, RowMatches, CallMatches,
           CallerMatches, Fits, FitsCall
  <2> QED
    BY <2>1, <2>2, CallMatched, WaiterMatched
       DEF Next, LeaseExpires, NextAttempt, RunEnds, vars
<1> QED
  BY <1>1, <1>2, PTL DEF Spec

-----------------------------------------------------------------------------
(* The right to invoke a binding, with the Postgres store.                  *)

(* An execution has a key and a request.                                   *)
LEMMA ExecutionTyped ==
  ASSUME Types, NEW i \in DOMAIN executions
  PROVE  executions[i].key \in Keys /\ executions[i].request \in Requests
<1>1. executions \in Seq([key : Keys, request : Requests])
  BY DEF Types
<1>2. i \in 1 .. Len(executions)
  BY <1>1
<1>3. executions[i] \in [key : Keys, request : Requests]
  BY <1>1, <1>2, ElementOfSeq
<1> QED
  BY <1>3

(* A step that hands out no new right, executes nothing and withdraws no    *)
(* row keeps Permission.                                                   *)
LEMMA NoNewRight ==
  ASSUME Types, Permission,
         \A key \in Keys : Kept(rows[key], rows'[key]),
         \A a \in Attempts, c \in Callers, key \in Keys :
           callers'[a][c].pc = "invoke" /\ callers'[a][c].key = key =>
             Invokes(a, c, key),
         executions' = executions
  PROVE  Permission'
<1>1. \A i \in DOMAIN executions : executions[i].key \in Keys
  BY ExecutionTyped
<1> QED
  BY <1>1 DEF Permission, Kept, Invokes, SideEffectOnce

(* A caller that moves on without the right to invoke hands out none.      *)
LEMMA CallerMovesOn ==
  ASSUME Types, Permission,
         \A key \in Keys : Kept(rows[key], rows'[key]),
         NEW a \in Attempts, NEW c \in Callers,
         \A b \in Attempts, d \in Callers :
           callers'[b][d] = callers[b][d] \/ (b = a /\ d = c),
         callers'[a][c].pc # "invoke",
         executions' = executions
  PROVE  Permission'
BY NoNewRight DEF Invokes

(* ReserveCapability gives the right to the caller that inserts the row:   *)
(* before that nobody has it and nothing was executed under the key.       *)
LEMMA ReservePermission ==
  ASSUME Store = "postgres", Matched, Permission,
         NEW a \in Attempts, NEW c \in Callers, Reserve(a, c)
  PROVE  Permission'
<1> DEFINE x   == callers[a][c]
           k   == x.key
           row == rows[k]
<1>1. /\ Types /\ x \in CallerRecord /\ x.pc = "reserve"
      /\ executions' = executions /\ k \in Keys /\ rows \in [Keys -> Row]
  BY DEF Matched, Reserve, Types, RecordsMatch
<1>2. /\ RowMatches(row) /\ NoRow.status = "absent"
  BY <1>1 DEF Matched, RecordsMatch, NoRow
<1>3. \/ rows' = rows
      \/ /\ row = NoRow
         /\ rows' = [rows EXCEPT ![k] = [NoRow EXCEPT !.status = "pending",
                                                      !.request = x.request]]
  BY <1>1 DEF Reserve
<1>4. /\ \A key \in Keys : Kept(rows[key], rows'[key])
      /\ rows' # rows => rows'[k].status = "pending"
  BY <1>1, <1>2, <1>3 DEF Kept, NoRow
<1>5. ASSUME NEW answer \in Nat, finishCall(a, c, answer)
      PROVE  Permission'
  BY <1>1, <1>4, <1>5, FinishFacts, CallerMovesOn
<1>6. CASE /\ Execute(k) /\ calls' = calls
           /\ Set(a, c, [x EXCEPT !.pc = "invoke"])
           /\ rows' = [rows EXCEPT ![k] =
                         IF row = NoRow
                         THEN [NoRow EXCEPT !.status  = "pending",
                                            !.request = x.request]
                         ELSE row]
  <2> DEFINE y == [x EXCEPT !.pc = "invoke"]
  <2>1. row = NoRow
    BY <1>6 DEF Execute
  <2>2. rows'[k].status # "absent"
    BY <1>1, <1>6, <2>1 DEF NoRow
  <2>3. /\ y \in CallerRecord /\ y.pc = "invoke" /\ y.key = k
    BY <1>1 DEF CallerRecord
  <2> HIDE DEF y
  <2>4. /\ callers'[a][c] = y
        /\ \A b \in Attempts, d \in Callers :
             callers'[b][d] = callers[b][d] \/ (b = a /\ d = c)
    BY <1>1, <1>6, <2>3, SetFacts DEF y
  <2>5. /\ \A b \in Attempts, d \in Callers : ~Invokes(b, d, k)
        /\ \A i \in DOMAIN executions : executions[i].key # k
    BY <1>1, <1>2, <2>1 DEF Permission
  <2>6. \A i \in DOMAIN executions : executions[i].key \in Keys
    BY <1>1, ExecutionTyped
  <2>7. \A b \in Attempts, d \in Callers, key \in Keys :
          Invokes(b, d, key)' <=> \/ b = a /\ d = c /\ key = k
                                  \/ Invokes(b, d, key) /\ key # k
    <3>1. ~Invokes(a, c, k) /\ x.pc # "invoke"
      BY <1>1, <2>5
    <3> QED
      BY <2>3, <2>4, <2>5, <3>1 DEF Invokes
  <2> QED
    BY <1>1, <1>4, <2>2, <2>5, <2>6, <2>7
       DEF Permission, Kept, SideEffectOnce
<1>7. 0 \in Nat /\ row.answer \in Nat
  BY <1>1 DEF Row
<1> QED
  BY <1>5, <1>6, <1>7 DEF Reserve

(* The invocation uses the right up.                                       *)
LEMMA InvokePermission ==
  ASSUME Matched, Permission, NEW a \in Attempts, NEW c \in Callers,
         Invoke(a, c)
  PROVE  Permission'
<1> DEFINE x == callers[a][c]
           k == x.key
           e == [key |-> k, request |-> x.request]
<1>1. /\ Types /\ x \in CallerRecord /\ x.pc = "invoke" /\ k \in Keys
      /\ x.request \in Requests
      /\ executions \in Seq([key : Keys, request : Requests])
      /\ executions' = Append(executions, e) /\ rows' = rows
  BY DEF Matched, Invoke, Types, RecordsMatch
<1>2. PICK answer \in {0, Len(executions) + 1} :
        Set(a, c, [x EXCEPT !.pc = "finish", !.answer = answer])
  BY DEF Invoke
<1>3. answer \in Nat
  BY <1>1, <1>2
<1> DEFINE y == [x EXCEPT !.pc = "finish", !.answer = answer]
<1>4. y \in CallerRecord /\ y.pc = "finish"
  BY <1>1, <1>3 DEF CallerRecord
<1> HIDE DEF y
<1>5. /\ callers'[a][c] = y
      /\ \A b \in Attempts, d \in Callers :
           callers'[b][d] = callers[b][d] \/ (b = a /\ d = c)
  BY <1>1, <1>2, <1>4, SetFacts DEF y
<1>6. /\ e.key = k
      /\ \A i \in DOMAIN executions :
           executions'[i] = executions[i] /\ executions[i].key \in Keys
      /\ executions'[Len(executions) + 1] = e
      /\ \A i \in DOMAIN executions' :
           i \in DOMAIN executions \/ i = Len(executions) + 1
  <2>1. e \in [key : Keys, request : Requests] /\ e.key = k
    BY <1>1
  <2>2. \A i \in DOMAIN executions : executions[i].key \in Keys
    BY <1>1, ExecutionTyped
  <2> HIDE DEF e
  <2>3. /\ Len(executions') = Len(executions) + 1
        /\ \A i \in 1 .. Len(executions) : executions'[i] = executions[i]
        /\ executions'[Len(executions) + 1] = e
        /\ executions' \in Seq([key : Keys, request : Requests])
    BY <1>1, <2>1, AppendProperties
  <2>4. /\ DOMAIN executions = 1 .. Len(executions)
        /\ DOMAIN executions' = 1 .. Len(executions) + 1
        /\ Len(executions) \in Nat
    BY <1>1, <2>3
  <2> QED
    BY <2>1, <2>2, <2>3, <2>4
<1> HIDE DEF e
<1>7. /\ rows[k].status # "absent"
      /\ \A i \in DOMAIN executions : executions[i].key # k
      /\ \A b \in Attempts, d \in Callers : Invokes(b, d, k) => b = a /\ d = c
  BY <1>1 DEF Permission, Invokes
<1>8. \A b \in Attempts, d \in Callers, key \in Keys :
        Invokes(b, d, key)' => Invokes(b, d, key) /\ key # k
  BY <1>4, <1>5, <1>7 DEF Invokes
<1>9. \A i \in DOMAIN executions' : rows'[executions'[i].key].status # "absent"
  BY <1>1, <1>6, <1>7 DEF Permission
<1>10. \A i, j \in DOMAIN executions' :
         executions'[i].key = executions'[j].key => i = j
  BY <1>6, <1>7 DEF Permission, SideEffectOnce
<1>11. \A b \in Attempts, d \in Callers, key \in Keys :
         Invokes(b, d, key)' =>
           /\ rows'[key].status # "absent"
           /\ \A i \in DOMAIN executions' : executions'[i].key # key
           /\ \A f \in Attempts, g \in Callers :
                Invokes(f, g, key)' => f = b /\ g = d
  BY <1>1, <1>6, <1>8 DEF Permission
<1> QED
  BY <1>9, <1>10, <1>11 DEF Permission, SideEffectOnce

(* The other steps of a caller.                                            *)
LEMMA OtherPermission ==
  ASSUME Matched, Permission, NEW a \in Attempts, NEW c \in Callers,
         \/ \E key \in Keys, request \in Requests : Call(a, c, key, request)
         \/ Wake(a, c) \/ Abandon(a, c) \/ Finish(a, c)
  PROVE  Permission'
<1> DEFINE x == callers[a][c]
<1>1. Types /\ x \in CallerRecord
  BY DEF Matched, Types
<1>2. CASE \E key \in Keys, request \in Requests : Call(a, c, key, request)
  <2>1. PICK p \in {"reserve", "joined", "returned"}, key \in Keys,
             request \in Requests :
          /\ Set(a, c, Caller(p, key, request, 0))
          /\ rows' = rows /\ executions' = executions
    BY <1>2 DEF Call
  <2>2. /\ Caller(p, key, request, 0) \in CallerRecord
        /\ Caller(p, key, request, 0).pc # "invoke"
    BY DEF Caller, CallerRecord, AnyRequest
  <2>3. \A k \in Keys : Kept(rows[k], rows'[k])
    BY <2>1 DEF Kept
  <2> QED
    BY <1>1, <2>1, <2>2, <2>3, SetFacts, CallerMovesOn
<1>3. CASE Wake(a, c) \/ Abandon(a, c)
  <2>1. PICK answer \in Nat :
          /\ \/ Set(a, c, [x EXCEPT !.pc = "returned", !.answer = answer])
             \/ Set(a, c, [x EXCEPT !.pc = "returned"])
          /\ rows' = rows /\ executions' = executions
    <3>1. CASE Wake(a, c)
      <4>1. x.key \in Keys
        BY <1>1, <3>1 DEF Matched, RecordsMatch, Wake
      <4>2. calls[a][x.key].answer \in Nat
        BY <1>1, <4>1 DEF Types, CallRecord
      <4> QED
        BY <3>1, <4>2 DEF Wake
    <3>2. CASE Abandon(a, c)
      BY <3>2 DEF Abandon
    <3> QED
      BY <1>3, <3>1, <3>2
  <2>2. PICK y \in CallerRecord : Set(a, c, y) /\ y.pc = "returned"
    <3>1. /\ [x EXCEPT !.pc = "returned", !.answer = answer] \in CallerRecord
          /\ [x EXCEPT !.pc = "returned", !.answer = answer].pc = "returned"
          /\ [x EXCEPT !.pc = "returned"] \in CallerRecord
          /\ [x EXCEPT !.pc = "returned"].pc = "returned"
      BY <1>1 DEF CallerRecord
    <3> QED
      BY <2>1, <3>1
  <2>3. \A k \in Keys : Kept(rows[k], rows'[k])
    BY <2>1 DEF Kept
  <2> QED
    BY <1>1, <2>1, <2>2, <2>3, SetFacts, CallerMovesOn
<1>4. CASE Finish(a, c)
  <2>1. /\ x.key \in Keys /\ x.answer \in Nat /\ executions' = executions
        /\ rows[x.key].status # "absent" /\ rows \in [Keys -> Row]
    BY <1>1, <1>4
       DEF Matched, RecordsMatch, Finish, CallerMatches, CallerRecord, Types
  <2>2. finishCall(a, c, 0) \/ finishCall(a, c, x.answer)
    BY <1>4 DEF Finish
  <2>3. \A k \in Keys : Kept(rows[k], rows'[k])
    BY <1>4, <2>1 DEF Finish, Kept, Row
  <2>4. /\ callers'[a][c].pc = "returned"
        /\ \A b \in Attempts, d \in Callers :
             callers'[b][d] = callers[b][d] \/ (b = a /\ d = c)
    BY <1>1, <2>1, <2>2, FinishFacts
  <2> QED
    BY <1>1, <2>1, <2>3, <2>4, CallerMovesOn
<1> QED
  BY <1>2, <1>3, <1>4

-----------------------------------------------------------------------------
(* With the Postgres store the binding behind a key is invoked at most once *)
(* per Run, however many Attempts, callers and keys there are, whichever   *)
(* responses of ReserveCapability and FinishCapability are lost and however *)
(* long a Node that lost its lease goes on.                                *)
THEOREM SideEffectsHappenOnce ==
  ASSUME Store = "postgres"
  PROVE  Spec => []SideEffectOnce
<1>1. Init => Permission
  BY DEF Init, Permission, Invokes, SideEffectOnce
<1>2. Matched /\ Permission /\ [Next]_vars => Permission'
  <2> SUFFICES ASSUME Matched, Permission, [Next]_vars PROVE Permission'
    OBVIOUS
  <2>1. UNCHANGED <<rows, callers, executions>> => Permission'
    BY DEF Permission, Invokes, SideEffectOnce
  <2>2. ASSUME NEW a \in Attempts, NEW c \in Callers,
               \/ \E key \in Keys, request \in Requests :
                    Call(a, c, key, request)
               \/ CallerStep(a, c)
               \/ Abandon(a, c)
        PROVE  Permission'
    BY <2>2, ReservePermission, InvokePermission, OtherPermission
       DEF CallerStep
  <2> QED
    BY <2>1, <2>2 DEF Next, LeaseExpires, NextAttempt, RunEnds, vars
<1>3. Permission => SideEffectOnce
  BY DEF Permission
<1> QED
  BY <1>1, <1>2, <1>3, AlwaysMatched, PTL DEF Spec

(* What an Attempt gets for a key answers the request with which it first   *)
(* used the key, also when it is replayed from the store for another        *)
(* Attempt, and the callers that join ask for the same capability and      *)
(* resource: with either store, and whatever the inputs are.               *)
THEOREM ReplaysFitTheirRequest == Spec => []ReplayFitsRequest
<1>1. Matched => ReplayFitsRequest
  BY DEF Matched, RecordsMatch, CallerMatches, FitsCall, Fits,
         ReplayFitsRequest
<1> QED
  BY <1>1, AlwaysMatched, PTL
=============================================================================
