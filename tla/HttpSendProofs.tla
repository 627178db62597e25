--------------------------- MODULE HttpSendProofs ---------------------------
(***************************************************************************)
(* Theorems about HttpSend, for every set of keys, codes and limits, every *)
(* size of a body and any number of attempts.                              *)
(***************************************************************************)
EXTENDS HttpSend, TLAPS

\* The limit Send enforces is a positive int64, whatever MaxResponseBytes says.
LEMMA LimitInRange ==
  ASSUME config \in Configs
  PROVE  limit \in 1..MaxInt
BY NumbersAssumption DEF limit, Configs

\* What it reads at most is one byte more, unless int64 has no such number.
LEMMA ReadLimitInRange ==
  ASSUME config \in Configs
  PROVE  /\ readLimit \in 1..MaxInt
         /\ readLimit = limit + 1 \/ (readLimit = limit /\ limit = MaxInt)
BY LimitInRange, NumbersAssumption DEF readLimit

LEMMA InitEstablishes == Init => IInv
<1> SUFFICES ASSUME Init PROVE IInv
  OBVIOUS
<1>1. TypeOK
  BY NumbersAssumption DEF Init, TypeOK
<1>2. HeldWhile
  BY NumbersAssumption, NilAssumption DEF Init, HeldWhile
<1>3. OneKeyOnly
  BY DEF Init, OneKeyOnly
<1>4. RequestsStayHome /\ BodyIsRead /\ SuccessIsEarned
      /\ (request # Nil => config.endpoint = "home")
  BY NilAssumption DEF Init, RequestsStayHome, BodyIsRead, SuccessIsEarned
<1> QED
  BY <1>1, <1>2, <1>3, <1>4 DEF IInv

\* The key a request carries is the message's, and otherwise a fresh UUID.
LEMMA KeyOfRequest ==
  ASSUME TypeOK, sends < MaxSends
  PROVE  /\ idempotencyKey \in MessageKeys \cup UUIDs
         /\ key # Nil => idempotencyKey = key
BY NumbersAssumption DEF TypeOK, idempotencyKey, UUIDs

\* Every way to return leaves an answer of the right type and no request.
LEMMA ReturnKeeps ==
  ASSUME IInv,
         NEW a \in {"invalid", "send_failed"} \cup KnownCodes,
         Return(a), sends' \in 0..MaxSends,
         UNCHANGED <<config, key, inflight, handled, delivered, response, body>>
  PROVE  IInv'
<1> USE NilAssumption
<1> USE DEF Return
<1>1. a # "ok"
  BY DEF KnownCodes
<1>2. TypeOK'
  BY DEF IInv, TypeOK
<1>3. HeldWhile' /\ OneKeyOnly' /\ RequestsStayHome' /\ BodyIsRead'
  BY DEF IInv, HeldWhile, OneKeyOnly, RequestsStayHome, BodyIsRead
<1>4. SuccessIsEarned'
  BY <1>1 DEF SuccessIsEarned
<1> QED
  BY <1>2, <1>3, <1>4 DEF IInv

\* The verdict is a reason, unless the reply has earned better.
LEMMA VerdictIsEarned ==
  ASSUME IInv, pc = "read"
  PROVE  /\ Verdict \in {"ok", "send_failed"} \cup KnownCodes
         /\ Verdict = "ok" => /\ response.success /\ response.json /\ response.ok
                              /\ response.size <= limit /\ body = response.size
<1>1. response \in Responses /\ config \in Configs
  BY DEF IInv, TypeOK, HeldWhile
<1>2. response.size \in Nat
  BY <1>1, NumbersAssumption DEF Responses
<1>3. body = IF response.size < readLimit THEN response.size ELSE readLimit
  BY DEF IInv, BodyIsRead
<1>4. ~(body > limit) => response.size <= limit /\ body = response.size
  <2>1. limit \in Nat /\ readLimit \in Nat /\ response.size <= MaxInt
    BY <1>1, LimitInRange, ReadLimitInRange, NumbersAssumption DEF Responses
  <2> QED
    BY <1>1, <1>2, <1>3, <2>1, ReadLimitInRange, NumbersAssumption
<1>5. \A c : mapErrorCode(c) \in {"send_failed"} \cup KnownCodes
  BY DEF mapErrorCode
<1>6. "ok" \notin {"send_failed"} \cup KnownCodes
  BY DEF KnownCodes
<1> QED
  BY <1>4, <1>5, <1>6 DEF Verdict, IsJSON

\* One case per action.
LEMMA StepPreserves == IInv /\ [Next]_vars => IInv'
<1> SUFFICES ASSUME IInv, [Next]_vars PROVE IInv'
  OBVIOUS
<1> USE NumbersAssumption, NilAssumption
<1>T. TypeOK /\ HeldWhile /\ OneKeyOnly /\ RequestsStayHome /\ BodyIsRead
      /\ SuccessIsEarned /\ (request # Nil => config.endpoint = "home")
  BY DEF IInv
<1>1. CASE Reject
  BY <1>1, <1>T, ReturnKeeps DEF Reject, TypeOK, HeldWhile
<1>2. CASE RefuseEndpoint
  BY <1>2, <1>T, ReturnKeeps DEF RefuseEndpoint, TypeOK, HeldWhile
<1>3. CASE Post
  <2>1. idempotencyKey \in MessageKeys \cup UUIDs /\ (key # Nil => idempotencyKey = key)
    BY <1>3, <1>T, KeyOfRequest DEF Post, Goto, HeldWhile
  <2>2. request' \in Requests /\ request' # Nil /\ request'.to = "home"
        /\ request'.key = idempotencyKey
    BY <1>3, <1>T, <2>1 DEF Post, Goto, OriginKept, Requests, TypeOK, Configs
  <2>3. TypeOK'
    BY <1>3, <1>T, <2>2 DEF Post, Goto, TypeOK, HeldWhile
  <2>4. HeldWhile' /\ RequestsStayHome' /\ BodyIsRead' /\ SuccessIsEarned'
        /\ config'.endpoint = "home"
    BY <1>3, <1>T, <2>2
       DEF Post, Goto, OriginKept, HeldWhile, RequestsStayHome, BodyIsRead, SuccessIsEarned
  <2>5. OneKeyOnly'
    BY <1>3, <1>T, <2>1, <2>2 DEF Post, Goto, OneKeyOnly
  <2> QED
    BY <2>3, <2>4, <2>5 DEF IInv
<1>4. CASE Receive
  <2>1. request.key \in MessageKeys \cup UUIDs
    BY <1>4, <1>T DEF Receive, HeldWhile, TypeOK, Requests
  <2>2. TypeOK'
    BY <1>4, <1>T, <2>1 DEF Receive, TypeOK
  <2>3. OneKeyOnly'
    BY <1>4, <1>T DEF Receive, OneKeyOnly, HeldWhile
  <2> QED
    BY <1>4, <1>T, <2>2, <2>3
       DEF Receive, IInv, HeldWhile, RequestsStayHome, BodyIsRead, SuccessIsEarned,
           readLimit, limit
<1>5. CASE Handle
  <2> PICK k \in inflight :
         /\ inflight' = inflight \ {k}
         /\ handled' = handled \cup {k}
         /\ delivered' = IF k \in handled THEN delivered ELSE delivered + 1
         /\ UNCHANGED <<config, key, pc, sends, request, response, body, answer>>
    BY <1>5 DEF Handle
  <2>1. TypeOK'
    BY <1>T DEF TypeOK
  <2>2. OneKeyOnly'
    BY <1>T DEF OneKeyOnly, TypeOK
  <2> QED
    BY <1>T, <2>1, <2>2
       DEF IInv, HeldWhile, RequestsStayHome, BodyIsRead, SuccessIsEarned, readLimit, limit
<1>6. CASE Reply
  BY <1>6, <1>T
     DEF Reply, Goto, IInv, TypeOK, HeldWhile, OneKeyOnly, RequestsStayHome, BodyIsRead,
         SuccessIsEarned
<1>7. CASE FollowRedirect
  <2> PICK to \in {"home", "away"} :
         /\ MayFollow(to)
         /\ request' = [request EXCEPT !.to = to, !.credentials = FALSE]
    BY <1>7 DEF FollowRedirect
  <2>1. request \in Requests /\ to = "home"
    BY <1>7, <1>T DEF FollowRedirect, MayFollow, HeldWhile, TypeOK
  <2>2. request' \in Requests /\ request' # Nil /\ request'.to = "home"
        /\ request'.key = request.key
    BY <2>1 DEF Requests
  <2> QED
    BY <1>7, <1>T, <2>1, <2>2
       DEF FollowRedirect, IInv, TypeOK, HeldWhile, OneKeyOnly, RequestsStayHome,
           BodyIsRead, SuccessIsEarned
<1>8. CASE BlockRedirect
  BY <1>8, <1>T, ReturnKeeps DEF BlockRedirect, TypeOK, KnownCodes
<1>9. CASE ExchangeFails
  BY <1>9, <1>T, ReturnKeeps DEF ExchangeFails, TypeOK, KnownCodes
<1>10. CASE TimesOut
  BY <1>10, <1>T, ReturnKeeps DEF TimesOut, TypeOK, KnownCodes
<1>11. CASE ReadFails
  BY <1>11, <1>T, ReturnKeeps DEF ReadFails, TypeOK
<1>12. CASE ReadBody
  <2>1. response \in Responses /\ config \in Configs
    BY <1>12, <1>T DEF ReadBody, Goto, HeldWhile, TypeOK
  <2>2. response.size \in 0..MaxInt /\ readLimit \in 1..MaxInt
    BY <2>1, ReadLimitInRange DEF Responses
  <2>3. body' = (IF response.size < readLimit THEN response.size ELSE readLimit)
        /\ body' \in 0..MaxInt
    BY <1>12, <2>2 DEF ReadBody
  <2>4. readLimit' = readLimit
    BY <1>12 DEF ReadBody, readLimit, limit
  <2> QED
    BY <1>12, <1>T, <2>3, <2>4
       DEF ReadBody, Goto, IInv, TypeOK, HeldWhile, OneKeyOnly, RequestsStayHome,
           BodyIsRead, SuccessIsEarned
<1>13. CASE Judge
  <2>1. CASE Verdict = "ok"
    <3>1. limit' = limit
      BY <1>13 DEF Judge, limit
    <3>2. SuccessIsEarned'
      BY <1>13, <2>1, <3>1, VerdictIsEarned DEF Judge, SuccessIsEarned
    <3> QED
      BY <1>13, <1>T, <2>1, <3>2
         DEF Judge, Return, IInv, TypeOK, HeldWhile, OneKeyOnly, RequestsStayHome, BodyIsRead
  <2>2. CASE Verdict # "ok"
    BY <1>13, <1>T, <2>2, VerdictIsEarned, ReturnKeeps DEF Judge, TypeOK
  <2> QED
    BY <2>1, <2>2
<1>14. CASE Again
  BY <1>14, <1>T
     DEF Again, Goto, IInv, TypeOK, HeldWhile, OneKeyOnly, RequestsStayHome, BodyIsRead,
         SuccessIsEarned
<1>15. CASE UNCHANGED vars
  BY <1>15, <1>T
     DEF vars, IInv, TypeOK, HeldWhile, OneKeyOnly, RequestsStayHome, BodyIsRead,
         SuccessIsEarned, readLimit, limit
<1> QED
  BY <1>1, <1>2, <1>3, <1>4, <1>5, <1>6, <1>7, <1>8, <1>9, <1>10, <1>11, <1>12, <1>13,
     <1>14, <1>15 DEF Next, Sends, Ends

\* The inductive invariant holds throughout.
THEOREM Invariance == Spec => []IInv
BY InitEstablishes, StepPreserves, PTL DEF Spec

-----------------------------------------------------------------------------
(* What it gives.                                                          *)

\* Type correctness of Send (http.go): in particular every error it returns has
\* one of the module's reasons, whatever code the upstream API puts in a reply.
THEOREM TypeCorrect == Spec => []TypeOK
<1>1. IInv => TypeOK
  BY DEF IInv
<1> QED
  BY <1>1, Invariance, PTL

\* A message with a key is delivered once at most, for any number of attempts of
\* the caller and any loss and delay in between: every request carries its key.
THEOREM KeyedDeliveredOnceAlways == Spec => []KeyedDeliveredOnce
<1>1. IInv => KeyedDeliveredOnce
  BY DEF IInv, TypeOK, OneKeyOnly, KeyedDeliveredOnce
<1> QED
  BY <1>1, Invariance, PTL

\* Success is reported for a complete, successful, valid reply and for no other,
\* with every limit up to the largest integer.
THEOREM SuccessIsEarnedAlways == Spec => []SuccessIsEarned
<1>1. IInv => SuccessIsEarned
  BY DEF IInv
<1> QED
  BY <1>1, Invariance, PTL

\* A response within the limit is read to its end, with every limit.
THEOREM NothingIsCutAlways == Spec => []NothingIsCut
<1>1. IInv => NothingIsCut
  <2> SUFFICES ASSUME IInv, pc = "read", response.size <= limit
               PROVE  body = response.size
    BY DEF NothingIsCut
  <2>1. response \in Responses /\ config \in Configs
    BY DEF IInv, TypeOK, HeldWhile
  <2>2. response.size \in 0..MaxInt /\ limit \in 1..MaxInt
    BY <2>1, LimitInRange DEF Responses
  <2>3. body = IF response.size < readLimit THEN response.size ELSE readLimit
    BY DEF IInv, BodyIsRead
  <2> QED
    BY <2>1, <2>2, <2>3, ReadLimitInRange, NumbersAssumption
<1> QED
  BY <1>1, Invariance, PTL

\* No request leaves the origin of the base URL, whatever endpoint is configured
\* and however often, and wherever to, the API redirects.
THEOREM RequestsStayHomeAlways == Spec => []RequestsStayHome
<1>1. IInv => RequestsStayHome
  BY DEF IInv
<1> QED
  BY <1>1, Invariance, PTL

\* A structured failure within the limit keeps its reason under any status.
THEOREM ReasonSurvivesAlways == Spec => ReasonSurvives
<1>1. IInv /\ [Next]_vars =>
        [(Judge /\ response.json /\ ~response.ok /\ response.size <= limit
            /\ response.code \in KnownCodes) => answer' = response.code]_vars
  <2> SUFFICES ASSUME IInv, Judge, response.json, ~response.ok, response.size <= limit,
                      response.code \in KnownCodes
               PROVE  answer' = response.code
    OBVIOUS
  <2>1. response \in Responses /\ config \in Configs
    BY DEF IInv, TypeOK, HeldWhile, Judge
  <2>2. response.size \in 0..MaxInt /\ limit \in 1..MaxInt
    BY <2>1, LimitInRange DEF Responses
  <2>3. body = IF response.size < readLimit THEN response.size ELSE readLimit
    BY DEF IInv, BodyIsRead, Judge
  <2>4. body = response.size /\ ~(body > limit)
    BY <2>1, <2>2, <2>3, ReadLimitInRange, NumbersAssumption
  <2>5. response.code # ""
    BY DEF KnownCodes
  <2> QED
    BY <2>4, <2>5 DEF Judge, Return, Verdict, IsJSON, mapErrorCode
<1> QED
  BY <1>1, Invariance, PTL DEF Spec, ReasonSurvives
=============================================================================
