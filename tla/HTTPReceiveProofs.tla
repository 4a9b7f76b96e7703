-------------------------- MODULE HTTPReceiveProofs -------------------------
(***************************************************************************)
(* Proofs about the bounded, cancellable read of DecodeHTTP, for every     *)
(* body, every limit and every way a reader may cut its chunks.  They say  *)
(* nothing about the decoding itself, which stays uninterpreted.           *)
(***************************************************************************)
EXTENDS HTTPReceive, TLAPS

\* Every limit DecodeHTTP may apply is an integer, whatever the mode.
LEMMA LimitIsInt ==
  ASSUME NEW m, NEW l \in LimitSets
  PROVE  bodyLimit(m, l) \in Int
  BY LimitAssumption DEF bodyLimit

\* The errors of the model are not nil.
LEMMA ErrorsAreErrors ==
  ErrContext # Nil /\ ErrReader # Nil /\ ErrLimitExceeded # Nil /\ ErrInvalidEvent # Nil
  BY ErrorAssumption, ReadErrorAssumption DEF Errors

\* A call starts with nothing read.
LEMMA InitReadInvariant == Init => ReadInvariant
  BY DEF Init, ReadInvariant, ReadIsBounded, succeeded

\* A failed call keeps the invariant: it reads nothing more and succeeds with
\* nothing.
LEMMA FailPreserves ==
  ASSUME ReadInvariant, NEW e, e # Nil, fail(e), UNCHANGED <<call, limits, mode, taken, left>>
  PROVE  ReadInvariant' /\ ~succeeded'
<1>1. pc' = "done" /\ result'.err = e
  BY DEF fail, return
<1>2. ~succeeded' BY <1>1 DEF succeeded
<1> QED BY <1>1, <1>2 DEF ReadInvariant, ReadIsBounded, limit

\* Up to the first Read nothing is taken, and LimitedReader is set to limit+1.
LEMMA StartPreserves == ReadInvariant /\ Start => ReadInvariant'
<1> SUFFICES ASSUME ReadInvariant, Start PROVE ReadInvariant'
  OBVIOUS
<1> PICK m \in detectHTTPMode(call.message, limits) :
       IF ctx = "none" THEN fail(ErrInvalidEvent) /\ UNCHANGED <<mode, left>>
       ELSE IF ctx = "cancelled" THEN fail(ErrContext) /\ UNCHANGED <<mode, left>>
       ELSE IF m.err # Nil THEN fail(m.err) /\ UNCHANGED <<mode, left>>
       ELSE IF bodyLimit(m.value, limits) <= 0 \/ bodyLimit(m.value, limits) = MaxInt
            THEN fail(ErrLimitExceeded) /\ UNCHANGED <<mode, left>>
       ELSE /\ mode' = m.value
            /\ left' = bodyLimit(m.value, limits) + 1
            /\ pc' = IF call.noBody THEN "decoding" ELSE "reading"
            /\ UNCHANGED result
  BY DEF Start
<1>1. UNCHANGED <<call, limits, ctx, taken>> /\ pc = "start"
  BY DEF Start
<1>2. CASE ctx \in {"none", "cancelled"} \/ m.err # Nil
           \/ bodyLimit(m.value, limits) <= 0 \/ bodyLimit(m.value, limits) = MaxInt
  BY <1>1, <1>2, FailPreserves, ErrorsAreErrors
<1>3. CASE ~(ctx \in {"none", "cancelled"} \/ m.err # Nil
             \/ bodyLimit(m.value, limits) <= 0 \/ bodyLimit(m.value, limits) = MaxInt)
  <2>1. limit' = bodyLimit(m.value, limits) /\ limit' \in Int /\ limit' > 0
    BY <1>1, <1>3, LimitIsInt DEF ReadInvariant, limit
  <2>2. left' = limit' + 1 /\ taken' = 0 /\ result' = Nil
    BY <1>1, <1>3, <2>1 DEF ReadInvariant
  <2>3. call.size \in Nat /\ call.noBody \in BOOLEAN
    BY CallAssumption DEF ReadInvariant
  <2>4. pc' = IF call.noBody THEN "decoding" ELSE "reading"
    BY <1>3
  <2> QED BY <1>1, <2>1, <2>2, <2>3, <2>4
             DEF ReadInvariant, ReadIsBounded, Complete, succeeded, total
<1> QED BY <1>2, <1>3

\* A Read moves bytes from what LimitedReader admits to what was taken.
LEMMA ReadPreserves ==
  ASSUME ReadInvariant, NEW k \in 0..MaxChunk, Read(k)
  PROVE  ReadInvariant'
<1>1. call.size \in Nat /\ limit \in Int /\ k \in Nat
  BY CallAssumption, ChunkAssumption, LimitIsInt DEF ReadInvariant, limit
<1>2. taken' + left' = limit' + 1 /\ left' >= 0 /\ taken' <= total' /\ taken' \in Nat /\ left' \in Int
  BY <1>1 DEF ReadInvariant, Read, total, limit
<1>3. limit' = limit BY DEF Read, limit
<1> QED BY <1>1, <1>2, <1>3 DEF ReadInvariant, Read, ReadIsBounded, succeeded

\* The read ends at the end of the body or one byte past the limit; only the
\* first is decoded.
LEMMA FinishReadPreserves == ReadInvariant /\ FinishRead => ReadInvariant'
<1> SUFFICES ASSUME ReadInvariant, FinishRead PROVE ReadInvariant'
  OBVIOUS
<1>1. call.size \in Nat /\ limit \in Int
  BY CallAssumption, LimitIsInt DEF ReadInvariant, limit
<1>2. CASE ctx = "cancelled" \/ taken > limit
  BY <1>2, FailPreserves, ErrorsAreErrors DEF FinishRead, limit
<1>3. CASE ctx # "cancelled" /\ ~(taken > limit)
  <2>1. pc = "reading" /\ pc' = "decoding" /\ UNCHANGED <<call, limits, mode, taken, left, result>>
    BY <1>3 DEF FinishRead, limit
  <2>2. Complete
    BY <1>1, <1>3, <2>1 DEF FinishRead, EndOfBody, ReadInvariant, Complete
  <2> QED BY <2>1, <2>2 DEF ReadInvariant, ReadIsBounded, Complete, succeeded, limit, total
<1> QED BY <1>2, <1>3

\* Every step of the call, the reader and the canceller preserves the
\* invariant.
LEMMA NextReadInvariant == ReadInvariant /\ [Next]_vars => ReadInvariant'
<1> SUFFICES ASSUME ReadInvariant, [Next]_vars PROVE ReadInvariant'
  OBVIOUS
<1>1. CASE Start BY <1>1, StartPreserves
<1>2. ASSUME NEW k \in 0..MaxChunk, Read(k) PROVE ReadInvariant'
  BY <1>2, ReadPreserves
<1>3. ASSUME NEW e \in {ErrReader, ErrContext}, ReadError(e) PROVE ReadInvariant'
  BY <1>3, FailPreserves, ErrorsAreErrors DEF ReadError
<1>4. CASE FinishRead BY <1>4, FinishReadPreserves
<1>5. CASE Decode
  BY <1>5 DEF Decode, return, ReadInvariant, ReadIsBounded, Complete, succeeded, limit, total
<1>6. CASE Cancel
  BY <1>6 DEF Cancel, ReadInvariant, ReadIsBounded, Complete, succeeded, limit, total
<1>7. CASE UNCHANGED vars
  BY <1>7 DEF vars, ReadInvariant, ReadIsBounded, Complete, succeeded, limit, total
<1> QED BY <1>1, <1>2, <1>3, <1>4, <1>5, <1>6, <1>7 DEF Next, Returned

-----------------------------------------------------------------------------
\* The inductive invariant of readHTTPBody.
THEOREM ReadInvariance == Spec => []ReadInvariant
  BY InitReadInvariant, NextReadInvariant, PTL DEF Spec

\* However the reader behaves, DecodeHTTP takes at most limit+1 bytes from it.
THEOREM BoundedRead == Spec => []ReadIsBounded
<1>1. ReadInvariant => ReadIsBounded BY DEF ReadInvariant
<1> QED BY <1>1, ReadInvariance, PTL

\* A successful DecodeHTTP has read all of the body and no more than its limit.
THEOREM NoTruncation == Spec => []NothingTruncated
<1>1. ReadInvariant => NothingTruncated BY DEF ReadInvariant, NothingTruncated
<1> QED BY <1>1, ReadInvariance, PTL

\* Once the context is cancelled before the end of the read, no later step lets
\* DecodeHTTP succeed.
THEOREM CancellationIsFinal == Spec => CancellationWins
<1> DEFINE Early  == ctx = "cancelled" /\ pc \in {"start", "reading"}
           Doomed == ctx = "cancelled" /\ (pc \in {"start", "reading"} \/ (pc = "done" /\ ~succeeded))
<1>1. Early => Doomed
  OBVIOUS
<1>2. ReadInvariant /\ Doomed => ~succeeded
  BY DEF ReadInvariant, succeeded
<1>3. ReadInvariant /\ Doomed /\ [Next]_vars => Doomed'
  <2> SUFFICES ASSUME ReadInvariant, Doomed, [Next]_vars PROVE Doomed'
    OBVIOUS
  <2>0. ASSUME NEW e, e # Nil, fail(e) PROVE pc' = "done" /\ ~succeeded'
    BY <2>0 DEF fail, return, succeeded
  <2>1. CASE Start
    BY <2>0, <2>1, ErrorsAreErrors DEF Start
  <2>2. ASSUME NEW k \in 0..MaxChunk, Read(k) PROVE Doomed'
    BY <2>2 DEF Read
  <2>3. ASSUME NEW e \in {ErrReader, ErrContext}, ReadError(e) PROVE Doomed'
    BY <2>0, <2>3, ErrorsAreErrors DEF ReadError
  <2>4. CASE FinishRead
    BY <2>0, <2>4, ErrorsAreErrors DEF FinishRead
  <2>5. CASE Decode
    BY <2>5 DEF Decode
  <2>6. CASE Cancel
    BY <2>6 DEF Cancel
  <2>7. CASE UNCHANGED vars
    BY <2>7 DEF vars, succeeded
  <2> QED BY <2>1, <2>2, <2>3, <2>4, <2>5, <2>6, <2>7 DEF Next, Returned
<1> QED BY <1>1, <1>2, <1>3, ReadInvariance, PTL DEF Spec, CancellationWins

-----------------------------------------------------------------------------
(* The answer: the stepwise call returns what the one-step DecodeHTTP does.  *)

\* An error of one of DecodeHTTP's stages is a nil value with that error.
LEMMA FailedReturn ==
  ASSUME NEW F, NEW v, NEW r \in Returns(F, v), r.err # Nil
  PROVE  r = [value |-> Nil, err |-> r.err] /\ r.err \in F
<1>1. F # {} BY DEF Returns
<1>2. r \in [value : {Nil}, err : F] BY <1>1 DEF Returns
<1> QED BY <1>2

\* A mode that cannot be detected is DecodeHTTP's answer.
LEMMA UndetectedAnswer ==
  ASSUME NEW msg, NEW lim, NEW m \in detectHTTPMode(msg, lim), m.err # Nil
  PROVE  [value |-> Nil, err |-> m.err] \in DecodeHTTP(msg, lim)
<1>0. \E F, v : detectHTTPMode(msg, lim) = Returns(F, v)
  BY Zenon DEF detectHTTPMode
<1>1. m = [value |-> Nil, err |-> m.err]
  BY <1>0, FailedReturn
<1>2. m \in DecodeHTTP(msg, lim)
  BY DEF DecodeHTTP
<1> QED BY <1>1, <1>2

\* So is a body its mode's limit does not admit.
LEMMA OversizeAnswer ==
  ASSUME NEW msg, NEW lim, NEW m \in detectHTTPMode(msg, lim), m.err = Nil,
         \/ bodyLimit(m.value, lim) <= 0 \/ bodyLimit(m.value, lim) = MaxInt
         \/ BodySize(msg.body) > bodyLimit(m.value, lim)
  PROVE  [value |-> Nil, err |-> ErrLimitExceeded] \in DecodeHTTP(msg, lim)
<1> DEFINE oversize == readHTTPBody(BodySize(msg.body), bodyLimit(m.value, lim))
<1>1. oversize = {ErrLimitExceeded}
  BY DEF readHTTPBody, When, ??
<1>2. [value |-> Nil, err |-> ErrLimitExceeded] \in Returns(oversize, Nil)
  BY <1>1 DEF Returns
<1> QED BY <1>1, <1>2 DEF DecodeHTTP

\* And so is what the selected mode makes of an admitted body.
LEMMA DecodedAnswer ==
  ASSUME NEW msg, NEW lim, NEW m \in detectHTTPMode(msg, lim), m.err = Nil,
         ~(bodyLimit(m.value, lim) <= 0 \/ bodyLimit(m.value, lim) = MaxInt),
         ~(BodySize(msg.body) > bodyLimit(m.value, lim)),
         NEW r \in decodeHTTPMessage(m.value, msg, lim)
  PROVE  r \in DecodeHTTP(msg, lim)
<1>1. readHTTPBody(BodySize(msg.body), bodyLimit(m.value, lim)) = {}
  BY DEF readHTTPBody, When, ??
<1> QED BY <1>1 DEF DecodeHTTP

\* A call that fails for a reason DecodeHTTP has, or for the context's or the
\* reader's, keeps the invariant.
LEMMA FailAnswers ==
  ASSUME NEW e, fail(e), UNCHANGED <<call, limits, ctx>>,
         \/ e \in {ErrContext, ErrReader}
         \/ ctx = "none" /\ e = ErrInvalidEvent
         \/ [value |-> Nil, err |-> e] \in DecodeHTTP(call.message, limits)
  PROVE  AnswerInvariant'
<1>1. pc' = "done" /\ result' = [value |-> Nil, err |-> e] /\ result'.err = e
  BY DEF fail, return
<1> QED BY <1>1 DEF AnswerInvariant, AnswersAsDecodeHTTP

\* Every step keeps the invariant; ReadInvariant says that what is decoded is
\* the whole body.
LEMMA NextAnswerInvariant ==
  ReadInvariant /\ AnswerInvariant /\ [Next]_vars => AnswerInvariant'
<1> SUFFICES ASSUME ReadInvariant, AnswerInvariant, [Next]_vars PROVE AnswerInvariant'
  OBVIOUS
<1>0. /\ call \in Calls /\ call.size \in Nat /\ call.size = BodySize(call.message.body)
      /\ limit \in Int /\ limit = bodyLimit(mode, limits) /\ taken \in Nat
  BY CallAssumption, LimitIsInt DEF ReadInvariant, limit
<1>1. CASE Start
  <2> PICK m \in detectHTTPMode(call.message, limits) :
         IF ctx = "none" THEN fail(ErrInvalidEvent) /\ UNCHANGED <<mode, left>>
         ELSE IF ctx = "cancelled" THEN fail(ErrContext) /\ UNCHANGED <<mode, left>>
         ELSE IF m.err # Nil THEN fail(m.err) /\ UNCHANGED <<mode, left>>
         ELSE IF bodyLimit(m.value, limits) <= 0 \/ bodyLimit(m.value, limits) = MaxInt
              THEN fail(ErrLimitExceeded) /\ UNCHANGED <<mode, left>>
         ELSE /\ mode' = m.value
              /\ left' = bodyLimit(m.value, limits) + 1
              /\ pc' = IF call.noBody THEN "decoding" ELSE "reading"
              /\ UNCHANGED result
    BY <1>1 DEF Start
  <2>1. UNCHANGED <<call, limits, ctx, taken>> /\ pc = "start" /\ result = Nil
    BY <1>1 DEF Start, ReadInvariant
  <2>2. CASE ctx \in {"none", "cancelled"}
    BY <2>1, <2>2, FailAnswers
  <2>3. CASE ctx \notin {"none", "cancelled"} /\ m.err # Nil
    BY <2>1, <2>3, FailAnswers, UndetectedAnswer
  <2> DEFINE max == bodyLimit(m.value, limits)
  <2>4. CASE ctx \notin {"none", "cancelled"} /\ m.err = Nil /\ (max <= 0 \/ max = MaxInt)
    <3>1. [value |-> Nil, err |-> ErrLimitExceeded] \in DecodeHTTP(call.message, limits)
      BY <2>4, OversizeAnswer
    <3> QED BY <2>1, <2>4, <3>1, FailAnswers
  <2>5. CASE ctx \notin {"none", "cancelled"} /\ m.err = Nil /\ ~(max <= 0 \/ max = MaxInt)
    <3>1. max \in Int BY LimitIsInt DEF ReadInvariant
    <3>2. mode' = m.value /\ result' = Nil /\ limit' = max
      BY <2>1, <2>5 DEF limit
    <3> QED BY <2>1, <2>5, <3>1, <3>2 DEF AnswerInvariant, AnswersAsDecodeHTTP
  <2> QED BY <2>2, <2>3, <2>4, <2>5
<1>2. ASSUME NEW k \in 0..MaxChunk, Read(k) PROVE AnswerInvariant'
  BY <1>2 DEF Read, AnswerInvariant, AnswersAsDecodeHTTP, limit
<1>3. ASSUME NEW e \in {ErrReader, ErrContext}, ReadError(e) PROVE AnswerInvariant'
  BY <1>3, FailAnswers DEF ReadError
<1>4. CASE FinishRead
  <2>1. pc = "reading" /\ UNCHANGED <<call, limits, ctx, mode>>
    BY <1>4 DEF FinishRead
  <2>2. PICK m \in detectHTTPMode(call.message, limits) : m.err = Nil /\ m.value = mode
    BY <2>1 DEF AnswerInvariant
  <2>3. CASE ctx = "cancelled"
    BY <1>4, <2>1, <2>3, FailAnswers DEF FinishRead
  <2>4. CASE ctx # "cancelled" /\ taken > limit
    <3>1. BodySize(call.message.body) > bodyLimit(m.value, limits)
      BY <1>0, <2>1, <2>2, <2>4 DEF ReadInvariant, total
    <3>2. [value |-> Nil, err |-> ErrLimitExceeded] \in DecodeHTTP(call.message, limits)
      BY <2>2, <3>1, OversizeAnswer
    <3> QED BY <1>4, <2>1, <2>4, <3>2, FailAnswers DEF FinishRead, limit
  <2>5. CASE ctx # "cancelled" /\ ~(taken > limit)
    BY <1>4, <2>1, <2>5 DEF FinishRead, AnswerInvariant, AnswersAsDecodeHTTP, limit
  <2> QED BY <2>3, <2>4, <2>5
<1>5. CASE Decode
  <2>1. pc = "decoding" /\ pc' = "done" /\ UNCHANGED <<call, limits, ctx, mode>>
    BY <1>5 DEF Decode, return
  <2>2. PICK m \in detectHTTPMode(call.message, limits) : m.err = Nil /\ m.value = mode
    BY <2>1 DEF AnswerInvariant
  <2>3. ~(BodySize(call.message.body) > limit) /\ ~(limit <= 0 \/ limit = MaxInt)
    BY <1>0, <2>1, CallAssumption DEF ReadInvariant, AnswerInvariant, Complete, total
  <2>4. result' \in decodeHTTPMessage(mode, call.message, limits)
    BY <1>5 DEF Decode, return
  <2>5. result' \in DecodeHTTP(call.message, limits)
    BY <1>0, <2>2, <2>3, <2>4, DecodedAnswer
  <2> QED BY <2>1, <2>5 DEF AnswerInvariant, AnswersAsDecodeHTTP
<1>6. CASE Cancel
  BY <1>6 DEF Cancel, AnswerInvariant, AnswersAsDecodeHTTP, limit
<1>7. CASE UNCHANGED vars
  BY <1>7 DEF vars, AnswerInvariant, AnswersAsDecodeHTTP, limit
<1> QED BY <1>1, <1>2, <1>3, <1>4, <1>5, <1>6, <1>7 DEF Next, Returned

\* However the reader cuts the body, and whenever the context is cancelled, the
\* stepwise call answers as DecodeHTTP on the whole message, or with the
\* context's or the reader's error.
THEOREM StepwiseAnswer == Spec => []AnswersAsDecodeHTTP
<1>1. Init => AnswerInvariant
  BY DEF Init, AnswerInvariant, AnswersAsDecodeHTTP
<1>2. AnswerInvariant => AnswersAsDecodeHTTP
  BY DEF AnswerInvariant
<1> QED BY <1>1, <1>2, NextAnswerInvariant, ReadInvariance, PTL DEF Spec
=============================================================================
