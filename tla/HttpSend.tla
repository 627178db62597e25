------------------------------ MODULE HttpSend ------------------------------
(***************************************************************************)
(* HTTPProvider.Send (http.go) for one message, which its caller may send  *)
(* again when it failed, as the retry wrappers do.                         *)
(*                                                                         *)
(* The upstream API and net/http are external.  The API delivers one       *)
(* message per Idempotency-Key, replies as it likes, redirects to itself   *)
(* or elsewhere and may be slow: it can handle a request whose sender gave *)
(* up long ago.  The client drops requests and replies, and enforces its   *)
(* timeout over the whole exchange, redirects and body included.           *)
(***************************************************************************)
EXTENDS Integers

CONSTANTS
  MessageKeys,    \* the values of Message.IdempotencyKey tried, Nil for ""
  Codes,          \* the error codes replies carry, "" among them
  ConfigTimeout,  \* HTTPConfig.Timeout
  Limits,         \* the values of HTTPConfig.MaxResponseBytes tried
  DefaultLimit,   \* defaultMaxResponseBytes
  MaxInt,         \* the largest int64
  MaxSends,       \* bound: how often the caller tries
  Nil

ASSUME NumbersAssumption ==
  /\ ConfigTimeout \in Int /\ MaxInt \in Nat /\ MaxSends \in Nat \ {0}
  /\ DefaultLimit \in 1..MaxInt
  /\ \A n \in Limits : n \in Int /\ n <= MaxInt

VARIABLES
  config,     \* the parts of HTTPConfig that steer Send
  key,        \* Message.IdempotencyKey
  pc, sends,  \* where Send is, and how often it was called
  request,    \* what the client has on the wire
  inflight,   \* the keys of requests the API has received and not handled
  handled,    \* the keys of messages it has delivered
  delivered,  \* history: how many messages it has delivered
  response,   \* the reply that arrived
  body,       \* how many bytes of it were read
  answer      \* what Send returned: "ok", or the reason of the error

vars == <<config, key, pc, sends, request, inflight, handled, delivered,
          response, body, answer>>

Configs == [redirect: {"deny", "same-origin"}, endpoint: {"home", "away"},
            apiKey: BOOLEAN, maxBytes: Limits]

\* A UUID is as good as the number of the call that drew it.
UUIDs == {<<n>> : n \in 1..MaxSends}

Requests == [to: {"home", "away"}, key: MessageKeys \cup UUIDs, credentials: BOOLEAN]

\* A reply: its status, the size of its body, whether the body is JSON as a whole
\* and when cut off, and what it says.
Responses == [success: BOOLEAN, size: 0..MaxInt, json: BOOLEAN, prefix: BOOLEAN,
              ok: BOOLEAN, code: Codes]

\* No value the code computes is mistaken for nil.
ASSUME NilAssumption ==
  /\ Nil \notin Requests /\ Nil \notin Responses /\ Nil # "ok"

Init ==
  /\ config \in Configs
  /\ key \in MessageKeys
  /\ pc = "start" /\ sends = 0
  /\ request = Nil /\ response = Nil
  /\ inflight = {} /\ handled = {} /\ delivered = 0
  /\ body = 0
  /\ answer = Nil

-----------------------------------------------------------------------------
(* Configuration and pure helpers.                                         *)

\* Mutant: a zero Timeout is handed to http.Client, for which it means none.
timeoutUnfloored == ConfigTimeout

\* minProviderTimeout stands in for a timeout that is not positive.
timeout == IF ConfigTimeout <= 0 THEN 30 ELSE ConfigTimeout

limit == IF config.maxBytes <= 0 THEN DefaultLimit ELSE config.maxBytes

\* int64 arithmetic.
Wrap(n) == IF n > MaxInt THEN n - 2 * (MaxInt + 1) ELSE n

\* Mutant: the largest limit is incremented, too.
readLimitWraps == Wrap(limit + 1)

\* Mutant: no byte more than allowed is read.
readLimitExact == limit

\* One byte more than allowed, so that a longer body shows.
readLimit == IF limit < MaxInt THEN limit + 1 ELSE limit

\* Mutant: every send is a new request to the API.
idempotencyKeyFresh == <<sends + 1>>

idempotencyKey == IF key = Nil THEN <<sends + 1>> ELSE key

KnownCodes == {"rate_limited", "invalid_destination", "timeout", "unauthorized",
               "provider_down", "idempotency_conflict"}

\* Mutant: the code becomes the reason, known or not.
mapErrorCodeRaw(code) == code

mapErrorCode(code) == IF code \in KnownCodes THEN code ELSE "send_failed"

-----------------------------------------------------------------------------
(* The request.                                                            *)

Goto(from, to) == pc = from /\ pc' = to

Return(a) ==
  /\ pc' = "done"
  /\ answer' = a
  /\ request' = Nil

Reject ==
  /\ pc = "start"
  /\ sends' = sends + 1
  /\ Return("invalid")
  /\ UNCHANGED <<config, key, inflight, handled, delivered, response, body>>

\* The endpoint, resolved against the base URL, must not lead elsewhere.
OriginKept == config.endpoint = "home"

RefuseEndpoint ==
  /\ pc = "start"
  /\ ~OriginKept
  /\ sends' = sends + 1
  /\ Return("send_failed")
  /\ UNCHANGED <<config, key, inflight, handled, delivered, response, body>>

Post ==
  /\ Goto("start", "waiting")
  /\ OriginKept
  /\ sends' = sends + 1
  /\ request' = [to |-> config.endpoint, key |-> idempotencyKey,
                 credentials |-> config.apiKey]
  /\ UNCHANGED <<config, key, inflight, handled, delivered, response, body, answer>>

-----------------------------------------------------------------------------
(* The API, external.                                                      *)

Receive ==
  /\ pc = "waiting" /\ request.to = "home"
  /\ inflight' = inflight \cup {request.key}
  /\ UNCHANGED <<config, key, pc, sends, request, handled, delivered, response, body, answer>>

\* One delivery per key, whatever became of the sender.
Handle ==
  \E k \in inflight :
    /\ inflight' = inflight \ {k}
    /\ handled' = handled \cup {k}
    /\ delivered' = IF k \in handled THEN delivered ELSE delivered + 1
    /\ UNCHANGED <<config, key, pc, sends, request, response, body, answer>>

\* A 2xx that says OK is only given for a message that was delivered.
Reply ==
  /\ Goto("waiting", "reading")
  /\ response' \in Responses
  /\ (response'.success /\ response'.ok) => request.key \in handled
  /\ UNCHANGED <<config, key, sends, request, inflight, handled, delivered, body, answer>>

-----------------------------------------------------------------------------
(* Redirects, checked by makeCheckRedirect.                                *)

\* Mutant: the policy looks at the credentials only.
MayFollowAnywhere(to) == config.redirect # "deny"

MayFollow(to) == config.redirect # "deny" /\ to = config.endpoint

\* Credential headers are stripped even from a request to the same origin.
FollowRedirect ==
  /\ pc = "waiting"
  /\ \E to \in {"home", "away"} :
       /\ MayFollow(to)
       /\ request' = [request EXCEPT !.to = to, !.credentials = FALSE]
  /\ UNCHANGED <<config, key, pc, sends, inflight, handled, delivered, response, body, answer>>

BlockRedirect ==
  /\ pc = "waiting"
  /\ \E to \in {"home", "away"} : ~MayFollow(to)
  /\ Return("provider_down")
  /\ UNCHANGED <<config, key, sends, inflight, handled, delivered, response, body>>

-----------------------------------------------------------------------------
(* The reply.                                                              *)

\* Do fails: no connection, a reset, or the caller's context is done.
ExchangeFails ==
  /\ pc = "waiting"
  /\ Return("provider_down")
  /\ UNCHANGED <<config, key, sends, inflight, handled, delivered, response, body>>

\* The client's timeout ends Do, or the reading of the body.
TimesOut ==
  /\ timeout > 0
  /\ \/ pc = "waiting" /\ Return("provider_down")
     \/ pc = "reading" /\ Return("send_failed")
  /\ UNCHANGED <<config, key, sends, inflight, handled, delivered, response, body>>

ReadFails ==
  /\ pc = "reading"
  /\ Return("send_failed")
  /\ UNCHANGED <<config, key, sends, inflight, handled, delivered, response, body>>

\* io.LimitReader reads nothing at all below a limit of one.
ReadBody ==
  /\ Goto("reading", "read")
  /\ body' = IF readLimit <= 0 THEN 0
             ELSE IF response.size < readLimit THEN response.size ELSE readLimit
  /\ UNCHANGED <<config, key, sends, request, inflight, handled, delivered, response, answer>>

\* What json.Unmarshal says of the bytes that were read.
IsJSON == IF body = response.size THEN response.json ELSE response.prefix

\* Mutant: an unsuccessful status is all there is to know.
VerdictUnstructured ==
  IF body > limit THEN "send_failed"
  ELSE IF ~response.success THEN "send_failed"
  ELSE IF ~IsJSON THEN "send_failed"
  ELSE IF ~response.ok THEN mapErrorCode(response.code)
  ELSE "ok"

\* A failing status is a failure whatever the body says, but a structured one
\* keeps its reason.
Verdict ==
  IF body > limit THEN "send_failed"
  ELSE IF ~response.success
  THEN IF IsJSON /\ ~response.ok /\ response.code # ""
       THEN mapErrorCode(response.code) ELSE "send_failed"
  ELSE IF ~IsJSON THEN "send_failed"
  ELSE IF ~response.ok THEN mapErrorCode(response.code)
  ELSE "ok"

Judge ==
  /\ pc = "read"
  /\ Return(Verdict)
  /\ UNCHANGED <<config, key, sends, inflight, handled, delivered, response, body>>

\* The caller tries again, after whatever kind of failure.
Again ==
  /\ sends < MaxSends
  /\ answer # "ok"
  /\ Goto("done", "start")
  /\ answer' = Nil
  /\ response' = Nil
  /\ body' = 0
  /\ UNCHANGED <<config, key, sends, request, inflight, handled, delivered>>

Sends == Reject \/ RefuseEndpoint \/ Post
Ends  == TimesOut \/ ReadBody \/ ReadFails \/ Judge

Next == \/ Sends \/ Receive \/ Handle \/ Reply
        \/ FollowRedirect \/ BlockRedirect
        \/ ExchangeFails \/ Ends \/ Again

Spec == Init /\ [][Next]_vars

\* Send runs and the client's timeout arrives.  The API may never reply, and may
\* redirect for ever: CheckRedirect counts no hops.
FairSpec == Spec /\ WF_vars(Sends) /\ WF_vars(TimesOut) /\ WF_vars(Judge)

-----------------------------------------------------------------------------
(* Properties.                                                             *)

\* Every variable has its type; every answer is "ok" or one of the reasons.
TypeOK ==
  /\ config \in Configs
  /\ key \in MessageKeys
  /\ pc \in {"start", "waiting", "reading", "read", "done"}
  /\ sends \in 0..MaxSends
  /\ request \in Requests \cup {Nil}
  /\ inflight \subseteq MessageKeys \cup UUIDs
  /\ handled \subseteq MessageKeys \cup UUIDs
  /\ delivered \in Nat
  /\ response \in Responses \cup {Nil}
  /\ body \in 0..MaxInt
  /\ answer \in {Nil, "ok", "invalid", "send_failed"} \cup KnownCodes

\* A message with an idempotency key is delivered at most once, however often
\* replies are lost, the client gives up early, and the caller sends it again.
KeyedDeliveredOnce == key # Nil => delivered <= 1

\* README.md, "HTTP transport contract": success requires a 2xx status, a complete
\* response within MaxResponseBytes, valid JSON and ok: true, whatever the limit.
SuccessIsEarned ==
  answer = "ok" =>
    /\ response.success /\ response.json /\ response.ok
    /\ response.size <= limit /\ body = response.size

\* And a response within the limit is never cut short.
NothingIsCut == (pc = "read" /\ response.size <= limit) => body = response.size

\* A structured failure keeps its reason, under any status: what is worth
\* retrying stays so, and what is not is not retried.
ReasonSurvives ==
  [][(Judge /\ response.json /\ ~response.ok /\ response.size <= limit
        /\ response.code \in KnownCodes) => answer' = response.code]_vars

\* Whatever the endpoint is configured to and wherever the API redirects, no
\* request, with credentials or without, leaves the origin of the base URL.
RequestsStayHome == request # Nil => request.to = "home"

\* Send returns, even if the API does not reply or redirects for ever.
Terminates == pc = "start" ~> pc = "done"

-----------------------------------------------------------------------------
(* The inductive invariant behind the safety properties.                   *)

\* What Send has in hand at each place.
HeldWhile ==
  /\ pc = "start" => sends < MaxSends /\ request = Nil /\ answer = Nil
  /\ pc \in {"waiting", "reading", "read"} => request # Nil /\ answer = Nil
  /\ pc \in {"reading", "read"} => response # Nil
  /\ pc = "done" => request = Nil

\* With a key on the message, that key is all the API ever sees.
OneKeyOnly ==
  key # Nil =>
    /\ request # Nil => request.key = key
    /\ inflight \cup handled \subseteq {key}
    /\ delivered = IF key \in handled THEN 1 ELSE 0

\* The bytes that were read are the body, or one more than its limit.
BodyIsRead ==
  pc = "read" => body = IF response.size < readLimit THEN response.size ELSE readLimit

IInv ==
  /\ TypeOK
  /\ HeldWhile
  /\ OneKeyOnly
  /\ RequestsStayHome
  /\ request # Nil => config.endpoint = "home"
  /\ BodyIsRead
  /\ SuccessIsEarned
=============================================================================
