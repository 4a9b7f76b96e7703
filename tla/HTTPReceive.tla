---------------------------- MODULE HTTPReceive -----------------------------
(***************************************************************************)
(* One call of DecodeHTTP step by step (http.go): the checks before the    *)
(* body is touched, the bounded read of a caller-owned reader that may     *)
(* deliver short chunks, nothing at all, or an error, and the decoding of  *)
(* what was read, while the context may be cancelled at any moment.        *)
(*                                                                         *)
(* The reader and the canceller are the environment.  There is no          *)
(* cancellation worker: a reader that ignores the context is not           *)
(* interrupted.                                                            *)
(***************************************************************************)
EXTENDS HTTPBinding

CONSTANTS
  Calls,      \* [message, noBody, size]: what DecodeHTTP may be called with
  LimitSets,  \* the limits it may be called with
  MaxChunk    \* bound: bytes one Read returns

ASSUME CallAssumption ==
  \A c \in Calls : /\ c.size \in Nat /\ c.size = BodySize(c.message.body)
                   /\ c.noBody \in BOOLEAN
                   /\ c.noBody => c.size = 0

ASSUME LimitAssumption ==
  \A l \in LimitSets : l.MaxDataBytes \in Int /\ l.MaxEventBytes \in Int

ASSUME ChunkAssumption == MaxChunk \in Nat

ErrContext == "context.Canceled"
ErrReader  == "reader error"

ASSUME ReadErrorAssumption == Nil \notin {ErrContext, ErrReader}

VARIABLES
  call,    \* the arguments of the call
  limits,  \* its limits
  ctx,     \* "none" (a nil context), "live" or "cancelled"
  pc,      \* "start", "reading", "decoding" or "done"
  mode,    \* the detected content mode
  taken,   \* bytes taken from the caller's reader
  left,    \* LimitedReader.N
  result   \* [value, err], or Nil before the call returns

vars == <<call, limits, ctx, pc, mode, taken, left, result>>

total == call.size

Init ==
  /\ call \in Calls
  /\ limits \in LimitSets
  /\ ctx \in {"none", "live", "cancelled"}
  /\ pc = "start"
  /\ mode = Nil
  /\ taken = 0
  /\ left = 0
  /\ result = Nil

return(r) == pc' = "done" /\ result' = r

fail(err) == return([value |-> Nil, err |-> err])

-----------------------------------------------------------------------------
\* Up to the first Read: the context, the mode, the limit, a nil body.
Start ==
  /\ pc = "start"
  /\ \E m \in detectHTTPMode(call.message, limits) :
       LET max == bodyLimit(m.value, limits) IN
       IF ctx = "none" THEN fail(ErrInvalidEvent) /\ UNCHANGED <<mode, left>>
       ELSE IF ctx = "cancelled" THEN fail(ErrContext) /\ UNCHANGED <<mode, left>>
       ELSE IF m.err # Nil THEN fail(m.err) /\ UNCHANGED <<mode, left>>
       ELSE IF max <= 0 \/ max = MaxInt
            THEN fail(ErrLimitExceeded) /\ UNCHANGED <<mode, left>>
       ELSE /\ mode' = m.value
            /\ left' = max + 1
            /\ pc' = IF call.noBody THEN "decoding" ELSE "reading"
            /\ UNCHANGED result
  /\ UNCHANGED <<call, limits, ctx, taken>>

\* Mutant: the caller's reader is read without io.LimitedReader.
ReadUnlimited(k) ==
  /\ pc = "reading"
  /\ k <= total - taken
  /\ taken' = taken + k
  /\ UNCHANGED <<call, limits, ctx, pc, mode, left, result>>

\* The reader returns k bytes; none is a legal, useless answer.
Read(k) ==
  /\ pc = "reading"
  /\ left > 0
  /\ k <= left
  /\ k <= total - taken
  /\ taken' = taken + k
  /\ left' = left - k
  /\ UNCHANGED <<call, limits, ctx, pc, mode, result>>

\* The reader fails, by itself or because it observes the cancelled context.
ReadError(err) ==
  /\ pc = "reading"
  /\ left > 0
  /\ err = ErrContext => ctx = "cancelled"
  /\ fail(err)
  /\ UNCHANGED <<call, limits, ctx, mode, taken, left>>

\* Mutant: io.LimitedReader goes on asking at its limit.
EndOfReader == taken = total

\* io.ReadAll ends: the reader is exhausted or LimitedReader stops asking.
EndOfBody == left = 0 \/ taken = total

\* Mutants: what exceeds the limit is cut off; a body as large as the limit is
\* refused; the context is not looked at again after the read.
FinishReadTruncating ==
  /\ pc = "reading" /\ EndOfBody
  /\ IF ctx = "cancelled" THEN fail(ErrContext) ELSE pc' = "decoding" /\ UNCHANGED result
  /\ UNCHANGED <<call, limits, ctx, mode, taken, left>>

FinishReadOffByOne ==
  /\ pc = "reading" /\ EndOfBody
  /\ IF ctx = "cancelled" THEN fail(ErrContext)
     ELSE IF taken >= bodyLimit(mode, limits) THEN fail(ErrLimitExceeded)
     ELSE pc' = "decoding" /\ UNCHANGED result
  /\ UNCHANGED <<call, limits, ctx, mode, taken, left>>

FinishReadUncancelled ==
  /\ pc = "reading" /\ EndOfBody
  /\ IF taken > bodyLimit(mode, limits) THEN fail(ErrLimitExceeded)
     ELSE pc' = "decoding" /\ UNCHANGED result
  /\ UNCHANGED <<call, limits, ctx, mode, taken, left>>

FinishRead ==
  /\ pc = "reading"
  /\ EndOfBody
  /\ IF ctx = "cancelled" THEN fail(ErrContext)
     ELSE IF taken > bodyLimit(mode, limits) THEN fail(ErrLimitExceeded)
     ELSE pc' = "decoding" /\ UNCHANGED result
  /\ UNCHANGED <<call, limits, ctx, mode, taken, left>>

Decode ==
  /\ pc = "decoding"
  /\ \E r \in decodeHTTPMessage(mode, call.message, limits) : return(r)
  /\ UNCHANGED <<call, limits, ctx, mode, taken, left>>

Cancel ==
  /\ ctx = "live"
  /\ ctx' = "cancelled"
  /\ UNCHANGED <<call, limits, pc, mode, taken, left, result>>

Returned == pc = "done" /\ UNCHANGED vars

Next ==
  \/ Start
  \/ \E k \in 0..MaxChunk : Read(k)
  \/ \E e \in {ErrReader, ErrContext} : ReadError(e)
  \/ FinishRead
  \/ Decode
  \/ Cancel
  \/ Returned

Spec == Init /\ [][Next]_vars

\* The call runs whenever it can; of the reader only that it cooperates, that
\* is, returns once the context is cancelled (http.go: "Blocking Read is not
\* preempted").
FairSpec ==
  /\ Spec
  /\ WF_vars(Start) /\ WF_vars(FinishRead) /\ WF_vars(Decode)
  /\ WF_vars(ReadError(ErrContext))

-----------------------------------------------------------------------------
succeeded == result # Nil /\ result.err = Nil

limit == bodyLimit(mode, limits)

\* The whole body was read and admitted.
Complete == taken = (IF call.noBody THEN 0 ELSE total) /\ taken <= limit

\* At most one byte past the limit leaves the caller's reader, however the
\* reader cuts its chunks (readHTTPBody: "Read at most limit+1 bytes").
ReadIsBounded == taken > 0 => taken <= limit + 1

\* No body is decoded that was cut short: success means all of it was read and
\* all of it was admitted.
NothingTruncated == succeeded => Complete

\* However the body arrives, the call answers as the one-step DecodeHTTP does
\* on the whole message, except that the context or the reader may fail it.
AnswersAsDecodeHTTP ==
  result # Nil =>
    \/ result.err \in {ErrContext, ErrReader}
    \/ ctx = "none" /\ result.err = ErrInvalidEvent
    \/ result \in DecodeHTTP(call.message, limits)

\* A context cancelled before the read has ended fails the call, even when the
\* reader goes on to deliver a complete and valid body.
CancellationWins ==
  [](ctx = "cancelled" /\ pc \in {"start", "reading"} => [](~succeeded))

\* The inductive strengthening of ReadIsBounded and NothingTruncated: while the
\* body is read, what was taken and what LimitedReader still admits add up to
\* limit+1 (readHTTPBody), and decoding starts with a complete body.
ReadInvariant ==
  /\ call \in Calls /\ limits \in LimitSets
  /\ pc \in {"start", "reading", "decoding", "done"}
  /\ taken \in Nat /\ left \in Int
  /\ pc # "done" => result = Nil
  /\ pc = "start" => taken = 0
  /\ pc = "reading" => ~call.noBody /\ left >= 0 /\ taken + left = limit + 1 /\ taken <= total
  /\ pc = "decoding" => Complete
  /\ succeeded => Complete
  /\ ReadIsBounded

\* The inductive strengthening of AnswersAsDecodeHTTP: past the first checks the
\* mode is one that detectHTTPMode may select and its limit is usable.
AnswerInvariant ==
  /\ pc \in {"reading", "decoding"} =>
       /\ \E m \in detectHTTPMode(call.message, limits) : m.err = Nil /\ m.value = mode
       /\ limit > 0 /\ limit # MaxInt
  /\ AnswersAsDecodeHTTP

\* With a cooperating reader, cancellation ends the call.
CancelledCallReturns == ctx = "cancelled" ~> pc = "done"
=============================================================================
