-------------------------- MODULE SmtpRetryProofs --------------------------
(***************************************************************************)
(* Proofs about SmtpRetry, and with it about SmtpSession, for any number   *)
(* of retries.                                                             *)
(***************************************************************************)
EXTENDS SmtpRetry, TLAPS

Contexts == {"live", "canceled", "expired"}
Servers  == {"nothing", "has_it", "accepted", "refused"}
Failures == {Nil, "io", "timeout"}

Attempt == [server: Servers, ctx: Contexts, failure: Failures]

\* The steps of the session, without the names of their groups.
Step == \/ Reject \/ Dial \/ Connects \/ DialFails \/ SetDeadline \/ SetDeadlineFails \/ Watch
        \/ CommandSucceeds \/ CommandFails \/ Cleanup \/ ReturnSuccess \/ ReturnFailure
        \/ WatchStarts \/ WatchActs \/ TimerExpires \/ ContextEnds \/ ServerDecides

LEMMA NextCases ==
  ASSUME [RetryNext]_retryVars
  PROVE  \/ Step /\ past' = past
         \/ Again
         \/ DecidesLate
         \/ UNCHANGED vars /\ past' = past
BY DEF RetryNext, retryVars, Next, Dials, Guards, Talks, Returns, Watcher, Step

-----------------------------------------------------------------------------
(* The scripts.                                                            *)

Has(s, command) == \E i \in 1..Len(s) : s[i] = command

\* The answer to the message is awaited, and after the message.
AwaitsVerdict(s) ==
  /\ Has(s, "verdict")
  /\ \A i, j \in 1..Len(s) : s[i] = "verdict" /\ s[j] = "terminate" => j < i

\* Before anything else there is an upgrade, at most after the greeting.
UpgradesFirst(s) ==
  \E i \in 1..Len(s) : /\ s[i] \in Upgrades
                       /\ \A j \in 1..i - 1 : s[j] = "greeting"

LEMMA Prepending ==
  ASSUME NEW s \in Seq(Commands), AwaitsVerdict(s),
         NEW x \in Commands \ {"verdict", "terminate"}
  PROVE  /\ <<x>> \o s \in Seq(Commands)
         /\ AwaitsVerdict(<<x>> \o s)
         /\ x \in Upgrades => UpgradesFirst(<<x>> \o s)
         /\ x = "greeting" /\ UpgradesFirst(s) => UpgradesFirst(<<x>> \o s)
<1> DEFINE t == <<x>> \o s
<1>1. /\ t \in Seq(Commands) /\ Len(s) \in Nat /\ Len(t) = Len(s) + 1
      /\ t[1] = x
      /\ \A i \in 1..Len(s) : t[i + 1] = s[i]
  OBVIOUS
<1>2. \A i \in 1..Len(t) : i = 1 \/ (i - 1 \in 1..Len(s) /\ t[i] = s[i - 1])
  BY <1>1
<1> HIDE DEF t
<1>3. Has(t, "verdict")
  BY <1>1 DEF AwaitsVerdict, Has
<1>4. ASSUME NEW i \in 1..Len(t), NEW j \in 1..Len(t), t[i] = "verdict", t[j] = "terminate"
      PROVE  j < i
  <2>1. i - 1 \in 1..Len(s) /\ s[i - 1] = "verdict" /\ j - 1 \in 1..Len(s) /\ s[j - 1] = "terminate"
    BY <1>1, <1>2, <1>4
  <2>2. j - 1 < i - 1
    BY <2>1 DEF AwaitsVerdict
  <2> QED BY <2>2, <1>1
<1>5. ASSUME x \in Upgrades PROVE UpgradesFirst(t)
  BY <1>1, <1>5 DEF UpgradesFirst
<1>6. ASSUME x = "greeting", UpgradesFirst(s) PROVE UpgradesFirst(t)
  <2>1. PICK i \in 1..Len(s) : s[i] \in Upgrades /\ \A j \in 1..i - 1 : s[j] = "greeting"
    BY <1>6 DEF UpgradesFirst
  <2>2. i + 1 \in 1..Len(t) /\ t[i + 1] \in Upgrades
    BY <1>1, <2>1
  <2>3. \A j \in 1..(i + 1) - 1 : t[j] = "greeting"
    BY <1>1, <1>2, <1>6, <2>1
  <2> QED BY <2>2, <2>3 DEF UpgradesFirst
<1>7. AwaitsVerdict(t)
  BY <1>3, <1>4 DEF AwaitsVerdict
<1> QED
  BY <1>1, <1>5, <1>6, <1>7 DEF t

LEMMA ScriptIs ==
  ASSUME NEW cfg \in Configs
  PROVE  /\ Script(cfg) \in Seq(Commands)
         /\ AwaitsVerdict(Script(cfg))
         /\ cfg.tls \/ cfg.starttls => UpgradesFirst(Script(cfg))
<1> DEFINE mail == <<"mail", "rcpt", "data", "write", "terminate", "verdict", "quit">>
           body == If(cfg.auth, <<"auth">>) \o mail
           rest == If(cfg.starttls /\ ~cfg.tls, <<"starttls">>) \o body
           all  == <<"greeting">> \o rest
<1>0. cfg.auth \in BOOLEAN /\ cfg.tls \in BOOLEAN /\ cfg.starttls \in BOOLEAN
  BY DEF Configs
<1>1. mail \in Seq(Commands) /\ AwaitsVerdict(mail)
  BY DEF AwaitsVerdict, Has, Commands
<1>2. body \in Seq(Commands) /\ AwaitsVerdict(body)
  <2>1. CASE cfg.auth
    BY <1>1, <2>1, Prepending, "auth" \in Commands \ {"verdict", "terminate"} DEF If, Commands
  <2>2. CASE ~cfg.auth
    BY <1>1, <2>2 DEF If
  <2> QED BY <1>0, <2>1, <2>2
<1>3. /\ rest \in Seq(Commands) /\ AwaitsVerdict(rest)
      /\ cfg.starttls /\ ~cfg.tls => UpgradesFirst(rest)
  <2> HIDE DEF body
  <2>1. CASE cfg.starttls /\ ~cfg.tls
    BY <1>2, <2>1, Prepending DEF If, Commands, Upgrades
  <2>2. CASE ~(cfg.starttls /\ ~cfg.tls)
    <3>1. rest = <<>> \o body
      BY <2>2 DEF If
    <3>2. <<>> \o body = body
      BY <1>2
    <3> QED BY <1>2, <2>2, <3>1, <3>2
  <2> QED BY <2>1, <2>2
<1>4. /\ all \in Seq(Commands) /\ AwaitsVerdict(all)
      /\ cfg.starttls /\ ~cfg.tls => UpgradesFirst(all)
  <2> HIDE DEF rest
  <2> QED BY <1>3, Prepending DEF Commands
<1>5. CASE cfg.tls
  <2>1. Script(cfg) = <<"handshake">> \o all
    BY <1>2, <1>5, <1>3 DEF Script, sendWithClient, If
  <2> HIDE DEF all
  <2> QED BY <1>4, <1>5, <2>1, Prepending DEF Commands, Upgrades
<1>6. CASE ~cfg.tls
  <2>1. Script(cfg) = all
    BY <1>2, <1>6, <1>3 DEF Script, sendWithClient, If
  <2> HIDE DEF all
  <2> QED BY <1>4, <1>6, <2>1, <1>0
<1> QED
  BY <1>0, <1>5, <1>6
-----------------------------------------------------------------------------
(* Type correctness, and what each place in Send knows.                    *)

Before == {"start", "dialing", "dialed", "guarded"}

\* What is known at each place: nothing is sent before the exchange, and an
\* error is what leads out of it.
Known ==
  /\ pc \in Before => todo = Script(config) /\ server = "nothing"
  /\ pc = "talking" => todo # <<>>
  /\ pc \in Before \cup {"talking", "succeeding"} => failure = Nil
  /\ pc = "classifying" => failure # Nil
  /\ pc # "done" => answer = Nil

TypeInv == TypeOK /\ past \in Seq(Attempt) /\ Known

LEMMA TypeInit == RetryInit => TypeInv
<1> SUFFICES ASSUME RetryInit PROVE TypeInv
  OBVIOUS
<1>1. Script(config) \in Seq(Commands)
  BY ScriptIs DEF RetryInit, Init
<1>2. TypeOK
  BY <1>1 DEF RetryInit, Init, TypeOK
<1>3. past \in Seq(Attempt)
  BY DEF RetryInit
<1>4. Known
  BY DEF RetryInit, Init, Known, Before
<1> QED
  BY <1>2, <1>3, <1>4 DEF TypeInv

LEMMA TypeNext == TypeInv /\ [RetryNext]_retryVars => TypeInv'
<1> SUFFICES ASSUME TypeInv, [RetryNext]_retryVars PROVE TypeInv'
  OBVIOUS
<1> USE NilAssumption DEF TypeInv, TypeOK, Known, Before, Goto
<1>1. CASE Step /\ past' = past
  <2>1. CASE Reject \/ Dial \/ Connects \/ DialFails
    BY <1>1, <2>1 DEF Reject, Dial, Connects, DialFails, Errors
  <2>2. CASE SetDeadline \/ SetDeadlineFails \/ Watch
    <3>1. Script(config) # <<>>
      BY ScriptIs DEF AwaitsVerdict, Has
    <3> QED BY <1>1, <2>2, <3>1 DEF SetDeadline, SetDeadlineFails, Watch, AfterFunc
  <2>3. CASE CommandSucceeds
    BY <1>1, <2>3 DEF CommandSucceeds, Deliver
  <2>4. CASE CommandFails
    BY <1>1, <2>4 DEF CommandFails, Errors, Deliver
  <2>5. CASE Cleanup \/ ReturnSuccess
    BY <1>1, <2>5 DEF Cleanup, ReturnSuccess
  <2>6. CASE ReturnFailure
    BY <1>1, <2>6 DEF ReturnFailure, normalizeSendError
  <2>7. CASE WatchStarts \/ WatchActs \/ TimerExpires \/ ContextEnds \/ ServerDecides
    BY <1>1, <2>7 DEF WatchStarts, WatchActs, TimerExpires, ContextEnds, ServerDecides
  <2> QED
    BY <1>1, <2>1, <2>2, <2>3, <2>4, <2>5, <2>6, <2>7 DEF Step
<1>2. CASE Again
  <2>1. Script(config) \in Seq(Commands)
    BY ScriptIs
  <2>2. [server |-> server, ctx |-> ctx, failure |-> failure] \in Attempt
    BY DEF Attempt, Servers, Contexts, Failures
  <2>3. past' \in Seq(Attempt)
    BY <1>2, <2>2 DEF Again
  <2>4. TypeOK'
    BY <1>2, <2>1 DEF Again
  <2>5. Known'
    BY <1>2 DEF Again
  <2> QED BY <2>3, <2>4, <2>5
<1>3. CASE DecidesLate
  <2>1. PICK i \in DOMAIN past, verdict \in {"accepted", "refused"} :
          past' = [past EXCEPT ![i].server = verdict]
    BY <1>3 DEF DecidesLate
  <2>2. past[i] \in Attempt
    OBVIOUS
  <2>3. [past[i] EXCEPT !.server = verdict] \in Attempt
    BY <2>2 DEF Attempt, Servers
  <2>4. past' \in Seq(Attempt)
    BY <2>1, <2>3
  <2> QED BY <1>3, <2>4 DEF DecidesLate, vars
<1>4. CASE UNCHANGED vars /\ past' = past
  BY <1>4 DEF vars
<1> QED
  BY <1>1, <1>2, <1>3, <1>4, NextCases

\* Every variable of a send that is retried has its type; in particular the
\* errors are those of normalizeSendError.
THEOREM TypeCorrect == RetrySpec => []TypeOK
<1>1. TypeInv => TypeOK
  BY DEF TypeInv
<1> QED
  BY TypeInit, TypeNext, <1>1, PTL DEF RetrySpec

-----------------------------------------------------------------------------
(* Success.                                                                *)

\* Until the server has accepted the message its answer is still to come, and
\* once it has, there is nothing left that would make it think again.
VerdictAwaited ==
  /\ pc = "talking" => \/ AwaitsVerdict(todo)
                       \/ server = "accepted" /\ ~Has(todo, "terminate")
  /\ (pc = "closing" /\ failure = Nil) \/ pc = "succeeding" \/ answer = "ok" =>
       server = "accepted"

LEMMA AwaitsStep ==
  ASSUME NEW s \in Seq(Commands), s # <<>>
  PROVE  /\ AwaitsVerdict(s) /\ Head(s) # "verdict" => AwaitsVerdict(Tail(s))
         /\ AwaitsVerdict(s) /\ Head(s) = "verdict" => ~Has(Tail(s), "terminate")
         /\ ~Has(s, "terminate") => Head(s) # "terminate" /\ ~Has(Tail(s), "terminate")
<1>1. /\ Len(s) \in Nat /\ Len(s) >= 1 /\ Len(Tail(s)) = Len(s) - 1
      /\ Head(s) = s[1]
      /\ \A i \in 1..Len(Tail(s)) : Tail(s)[i] = s[i + 1] /\ i + 1 \in 1..Len(s)
  OBVIOUS
<1>2. ASSUME NEW i \in 1..Len(s), i # 1 PROVE i - 1 \in 1..Len(Tail(s)) /\ Tail(s)[i - 1] = s[i]
  BY <1>1, <1>2
<1>3. ASSUME AwaitsVerdict(s), Head(s) # "verdict" PROVE AwaitsVerdict(Tail(s))
  <2>1. Has(Tail(s), "verdict")
    BY <1>1, <1>2, <1>3 DEF AwaitsVerdict, Has
  <2>2. ASSUME NEW i \in 1..Len(Tail(s)), NEW j \in 1..Len(Tail(s)),
               Tail(s)[i] = "verdict", Tail(s)[j] = "terminate"
        PROVE  j < i
    <3>1. j + 1 < i + 1
      BY <1>1, <1>3, <2>2 DEF AwaitsVerdict
    <3> QED BY <3>1, <1>1
  <2> QED BY <2>1, <2>2 DEF AwaitsVerdict
<1>4. ASSUME AwaitsVerdict(s), Head(s) = "verdict", Has(Tail(s), "terminate") PROVE FALSE
  <2>1. PICK j \in 1..Len(Tail(s)) : Tail(s)[j] = "terminate"
    BY <1>4 DEF Has
  <2>2. j + 1 < 1
    BY <1>1, <1>4, <2>1 DEF AwaitsVerdict
  <2> QED BY <2>2, <1>1
<1>5. ASSUME ~Has(s, "terminate") PROVE Head(s) # "terminate" /\ ~Has(Tail(s), "terminate")
  BY <1>1, <1>5 DEF Has
<1> QED
  BY <1>3, <1>4, <1>5

LEMMA VerdictNext == TypeInv /\ VerdictAwaited /\ [RetryNext]_retryVars => VerdictAwaited'
<1> SUFFICES ASSUME TypeInv, VerdictAwaited, [RetryNext]_retryVars PROVE VerdictAwaited'
  OBVIOUS
<1> USE NilAssumption DEF TypeInv, Known, Before, VerdictAwaited, Goto
<1>1. CASE Step /\ past' = past
  <2>1. CASE Reject \/ Dial \/ Connects \/ DialFails \/ SetDeadline \/ SetDeadlineFails
    BY <1>1, <2>1 DEF Reject, Dial, Connects, DialFails, SetDeadline, SetDeadlineFails, Errors
  <2>2. CASE Watch
    <3>1. AwaitsVerdict(todo)
      BY <2>2, ScriptIs DEF Watch, TypeOK
    <3> QED BY <2>2, <3>1 DEF Watch
  <2>3. CASE CommandSucceeds
    <3>1. /\ todo \in Seq(Commands) /\ todo # <<>>
          /\ todo' = Tail(todo)
          /\ server' = Deliver
          /\ Head(todo) = "verdict" => server = "accepted"
          /\ pc' = IF todo' = <<>> THEN "closing" ELSE "talking"
          /\ answer' = Nil /\ pc = "talking"
      BY <2>3 DEF CommandSucceeds, TypeOK
    <3>2. \/ AwaitsVerdict(todo')
          \/ server' = "accepted" /\ ~Has(todo', "terminate")
      BY <3>1, AwaitsStep DEF Deliver
    <3>3. todo' = <<>> => ~AwaitsVerdict(todo')
      BY DEF AwaitsVerdict, Has
    <3> QED BY <3>1, <3>2, <3>3
  <2>4. CASE CommandFails \/ Cleanup \/ ReturnSuccess
    BY <2>4 DEF CommandFails, Cleanup, ReturnSuccess, Errors
  <2>5. CASE ReturnFailure
    BY <2>5 DEF ReturnFailure, normalizeSendError, TypeOK
  <2>6. CASE WatchStarts \/ WatchActs \/ TimerExpires \/ ContextEnds
    BY <2>6 DEF WatchStarts, WatchActs, TimerExpires, ContextEnds
  <2>7. CASE ServerDecides
    BY <2>7 DEF ServerDecides
  <2> QED
    BY <1>1, <2>1, <2>2, <2>3, <2>4, <2>5, <2>6, <2>7 DEF Step
<1>2. CASE Again
  BY <1>2 DEF Again
<1>3. CASE DecidesLate \/ (UNCHANGED vars /\ past' = past)
  BY <1>3 DEF DecidesLate, vars
<1> QED
  BY <1>1, <1>2, <1>3, NextCases

\* Each attempt reports success only for a mail its server has accepted.
THEOREM SuccessMeansAcceptedAlways == RetrySpec => []SuccessMeansAccepted
<1>1. RetryInit => VerdictAwaited
  BY NilAssumption DEF RetryInit, Init, VerdictAwaited
<1>2. VerdictAwaited => SuccessMeansAccepted
  BY DEF VerdictAwaited, SuccessMeansAccepted
<1> QED
  BY <1>1, <1>2, TypeInit, TypeNext, VerdictNext, PTL DEF RetrySpec

-----------------------------------------------------------------------------
(* Plain text.                                                             *)

\* Without protection, the upgrade is still to come before anything else.
UpgradeAhead ==
  pc = "talking" /\ (config.tls \/ config.starttls) => secure \/ UpgradesFirst(todo)

LEMMA UpgradeStep ==
  ASSUME NEW s \in Seq(Commands), s # <<>>, UpgradesFirst(s)
  PROVE  /\ Head(s) \in Upgrades \cup {"greeting"}
         /\ Head(s) \notin Upgrades => UpgradesFirst(Tail(s))
<1>1. /\ Len(s) \in Nat /\ Len(s) >= 1 /\ Len(Tail(s)) = Len(s) - 1
      /\ Head(s) = s[1]
      /\ \A i \in 1..Len(Tail(s)) : Tail(s)[i] = s[i + 1]
  OBVIOUS
<1>2. PICK i \in 1..Len(s) : s[i] \in Upgrades /\ \A j \in 1..i - 1 : s[j] = "greeting"
  BY DEF UpgradesFirst
<1>3. ASSUME Head(s) \notin Upgrades PROVE UpgradesFirst(Tail(s))
  <2>1. i - 1 \in 1..Len(Tail(s)) /\ Tail(s)[i - 1] \in Upgrades
    BY <1>1, <1>2, <1>3
  <2>2. \A j \in 1..(i - 1) - 1 : Tail(s)[j] = "greeting"
    BY <1>1, <1>2, <2>1
  <2> QED BY <2>1, <2>2 DEF UpgradesFirst
<1> QED
  BY <1>1, <1>2, <1>3

LEMMA UpgradeNext == TypeInv /\ UpgradeAhead /\ [RetryNext]_retryVars => UpgradeAhead'
<1> SUFFICES ASSUME TypeInv, UpgradeAhead, [RetryNext]_retryVars,
                    pc' = "talking", config'.tls \/ config'.starttls
             PROVE  secure' \/ UpgradesFirst(todo')
  BY DEF UpgradeAhead
<1> USE DEF TypeInv, Known, Before, UpgradeAhead, Goto
<1>1. CASE Watch
  BY <1>1, ScriptIs DEF Watch, TypeOK
<1>2. CASE CommandSucceeds
  <2>1. /\ todo \in Seq(Commands) /\ todo # <<>> /\ todo' = Tail(todo)
        /\ secure' = (secure \/ Head(todo) \in Upgrades)
        /\ pc = "talking" /\ config' = config
    BY <1>2 DEF CommandSucceeds, TypeOK
  <2> QED BY <2>1, UpgradeStep
<1>3. CASE WatchStarts \/ WatchActs \/ TimerExpires \/ ContextEnds \/ ServerDecides
  BY <1>3 DEF WatchStarts, WatchActs, TimerExpires, ContextEnds, ServerDecides
<1>4. CASE UNCHANGED vars
  BY <1>4 DEF vars
<1>5. CASE \/ Reject \/ Dial \/ Connects \/ DialFails \/ SetDeadline \/ SetDeadlineFails
           \/ CommandFails \/ Cleanup \/ ReturnSuccess \/ ReturnFailure \/ Again
  BY <1>5
  DEF Reject, Dial, Connects, DialFails, SetDeadline, SetDeadlineFails, CommandFails, Cleanup,
      ReturnSuccess, ReturnFailure, Again
<1> QED
  BY <1>1, <1>2, <1>3, <1>4, <1>5, NextCases DEF Step, DecidesLate

\* With TLS or STARTTLS configured, no attempt exchanges anything but the
\* greeting before its connection is protected.
THEOREM NothingInPlaintextAlways == RetrySpec => []NothingInPlaintext
<1>1. RetryInit => UpgradeAhead
  BY DEF RetryInit, Init, UpgradeAhead
<1>2. TypeInv /\ UpgradeAhead => NothingInPlaintext
  BY UpgradeStep DEF TypeInv, TypeOK, Known, UpgradeAhead, NothingInPlaintext
<1> QED
  BY <1>1, <1>2, TypeInit, TypeNext, UpgradeNext, PTL DEF RetrySpec

-----------------------------------------------------------------------------
(* Leaks.                                                                  *)

OpenOnlyWhile ==
  /\ conn = "open" => pc \in {"dialed", "guarded", "talking", "closing"}
  /\ watch = "armed" => pc \in {"talking", "closing"}

LEMMA OpenNext == OpenOnlyWhile /\ [RetryNext]_retryVars => OpenOnlyWhile'
<1> SUFFICES ASSUME OpenOnlyWhile, [RetryNext]_retryVars PROVE OpenOnlyWhile'
  OBVIOUS
<1> USE DEF OpenOnlyWhile, Goto
<1>1. CASE Step
  <2>1. CASE Reject \/ Dial \/ Connects \/ DialFails \/ SetDeadline \/ SetDeadlineFails \/ Watch
    BY <2>1
    DEF Reject, Dial, Connects, DialFails, SetDeadline, SetDeadlineFails, Watch, AfterFunc
  <2>2. CASE CommandSucceeds \/ CommandFails \/ Cleanup \/ ReturnSuccess \/ ReturnFailure
    BY <2>2 DEF CommandSucceeds, CommandFails, Cleanup, ReturnSuccess, ReturnFailure
  <2>3. CASE WatchStarts \/ WatchActs \/ TimerExpires \/ ContextEnds \/ ServerDecides
    BY <2>3 DEF WatchStarts, WatchActs, TimerExpires, ContextEnds, ServerDecides
  <2> QED BY <1>1, <2>1, <2>2, <2>3 DEF Step
<1>2. CASE Again
  BY <1>2 DEF Again
<1>3. CASE UNCHANGED vars
  BY <1>3 DEF vars
<1> QED
  BY <1>1, <1>2, <1>3, NextCases DEF DecidesLate

\* No attempt leaves a connection or an armed AfterFunc behind.
THEOREM NothingLeaksAlways == RetrySpec => []NothingLeaks
<1>1. RetryInit => OpenOnlyWhile
  BY DEF RetryInit, Init, OpenOnlyWhile
<1>2. OpenOnlyWhile => NothingLeaks
  BY DEF OpenOnlyWhile, NothingLeaks
<1> QED
  BY <1>1, <1>2, OpenNext, PTL DEF RetrySpec

-----------------------------------------------------------------------------
(* Timeouts are real.                                                      *)

\* The AfterFunc acts for a context that is done.
WatchedFor == watch \in {"started", "ended"} => ctx # "live"

LEMMA WatchedNext == WatchedFor /\ [RetryNext]_retryVars => WatchedFor'
<1> SUFFICES ASSUME WatchedFor, [RetryNext]_retryVars PROVE WatchedFor'
  OBVIOUS
<1> USE DEF WatchedFor
<1>1. CASE Step
  <2>1. CASE Reject \/ Dial \/ Connects \/ DialFails \/ SetDeadline \/ SetDeadlineFails \/ Watch
    BY <2>1 DEF Reject, Dial, Connects, DialFails, SetDeadline, SetDeadlineFails, Watch, AfterFunc
  <2>2. CASE CommandSucceeds \/ CommandFails \/ Cleanup \/ ReturnSuccess \/ ReturnFailure
    BY <2>2 DEF CommandSucceeds, CommandFails, Cleanup, ReturnSuccess, ReturnFailure
  <2>3. CASE WatchStarts \/ WatchActs \/ TimerExpires \/ ContextEnds \/ ServerDecides
    BY <2>3 DEF WatchStarts, WatchActs, TimerExpires, ContextEnds, ServerDecides
  <2> QED BY <1>1, <2>1, <2>2, <2>3 DEF Step
<1>2. CASE Again
  BY <1>2 DEF Again
<1>3. CASE UNCHANGED vars
  BY <1>3 DEF vars
<1> QED
  BY <1>1, <1>2, <1>3, NextCases DEF DecidesLate

\* Send reports a timeout only if the context ran out of time, or the network
\* did, before the AfterFunc had anything to do with it.
THEOREM TimeoutIsRealAlways == RetrySpec => TimeoutIsReal
<1> DEFINE Real == (answer' = "timeout" /\ answer = Nil) =>
                     \/ ctx = "expired"
                     \/ failure = "timeout" /\ watch \notin {"started", "ended"}
<1>1. RetryInit => TypeInv /\ WatchedFor
  BY TypeInit DEF RetryInit, Init, WatchedFor
<1>2. TypeInv /\ WatchedFor /\ [RetryNext]_retryVars => (TypeInv /\ WatchedFor)'
  BY TypeNext, WatchedNext
<1>3. TypeInv /\ WatchedFor /\ [RetryNext]_retryVars => [Real]_vars
  <2> SUFFICES ASSUME TypeInv, WatchedFor, [RetryNext]_retryVars,
                      answer' = "timeout", answer = Nil
               PROVE  \/ ctx = "expired"
                      \/ failure = "timeout" /\ watch \notin {"started", "ended"}
    OBVIOUS
  <2>1. CASE ReturnFailure
    BY <2>1 DEF ReturnFailure, normalizeSendError, WatchedFor, TypeInv, TypeOK
  <2>2. CASE Step /\ ~ReturnFailure
    BY <2>2, NilAssumption
    DEF Step, Reject, Dial, Connects, DialFails, SetDeadline, SetDeadlineFails, Watch,
        CommandSucceeds, CommandFails, Cleanup, ReturnSuccess,
        WatchStarts, WatchActs, TimerExpires, ContextEnds, ServerDecides
  <2>3. CASE Again
    BY <2>3, NilAssumption DEF Again
  <2>4. CASE UNCHANGED vars
    BY <2>4, NilAssumption DEF vars
  <2> QED BY <2>1, <2>2, <2>3, <2>4, NextCases DEF DecidesLate
<1>4. RetrySpec => [][Real]_vars
  BY <1>1, <1>2, <1>3, PTL DEF RetrySpec
<1> QED
  BY <1>4 DEF TimeoutIsReal

-----------------------------------------------------------------------------
(* Mail that is sent twice.                                                *)

\* While the context lives, only the network makes Send say "timeout".
TimeoutExplained ==
  /\ answer = "timeout" => ctx = "expired" \/ failure = "timeout"
  /\ \A i \in DOMAIN past : past[i].ctx = "live" => past[i].failure = "timeout"

LEMMA ExplainedNext == TypeInv /\ TimeoutExplained /\ [RetryNext]_retryVars => TimeoutExplained'
<1> SUFFICES ASSUME TypeInv, TimeoutExplained, [RetryNext]_retryVars PROVE TimeoutExplained'
  OBVIOUS
<1> USE NilAssumption DEF TypeInv, Known, TimeoutExplained, Goto
<1>1. CASE Step /\ past' = past
  <2>1. CASE \/ Reject \/ Dial \/ Connects \/ DialFails \/ SetDeadline \/ SetDeadlineFails \/ Watch
             \/ CommandSucceeds \/ CommandFails \/ Cleanup \/ ReturnSuccess
    BY <1>1, <2>1
    DEF Reject, Dial, Connects, DialFails, SetDeadline, SetDeadlineFails, Watch,
        CommandSucceeds, CommandFails, Cleanup, ReturnSuccess
  <2>2. CASE ReturnFailure
    BY <1>1, <2>2 DEF ReturnFailure, normalizeSendError, TypeOK
  <2>3. CASE WatchStarts \/ WatchActs \/ TimerExpires \/ ContextEnds \/ ServerDecides
    BY <1>1, <2>3 DEF WatchStarts, WatchActs, TimerExpires, ContextEnds, ServerDecides
  <2> QED BY <1>1, <2>1, <2>2, <2>3 DEF Step
<1>2. CASE Again
  <2>1. /\ Len(past) \in Nat /\ DOMAIN past = 1..Len(past)
        /\ DOMAIN past' = 1..Len(past) + 1
        /\ \A i \in DOMAIN past : past'[i] = past[i]
        /\ past'[Len(past) + 1] = [server |-> server, ctx |-> ctx, failure |-> failure]
    BY <1>2 DEF Again
  <2>2. ctx = "live" => failure = "timeout"
    BY <1>2 DEF Again, IsRetryable
  <2>3. answer' = Nil
    BY <1>2 DEF Again
  <2> QED BY <2>1, <2>2, <2>3
<1>3. CASE DecidesLate
  <2>1. PICK k \in DOMAIN past, verdict \in {"accepted", "refused"} :
          past' = [past EXCEPT ![k].server = verdict]
    BY <1>3 DEF DecidesLate
  <2>2. /\ DOMAIN past' = DOMAIN past
        /\ \A i \in DOMAIN past : past'[i].ctx = past[i].ctx /\ past'[i].failure = past[i].failure
    BY <2>1 DEF Attempt
  <2> QED BY <1>3, <2>2 DEF DecidesLate, vars
<1>4. CASE UNCHANGED vars /\ past' = past
  BY <1>4 DEF vars
<1> QED
  BY <1>1, <1>2, <1>3, <1>4, NextCases

\* Once the context was done when an attempt was given up, no later attempt gets
\* past its dial.
DeadStaysDead ==
  \A i \in DOMAIN past : past[i].ctx # "live" =>
    /\ ctx # "live"
    /\ pc \in {"start", "dialing", "classifying", "done"}
    /\ server = "nothing"
    /\ \A j \in DOMAIN past : j > i => past[j].server = "nothing"

LEMMA DeadNext == TypeInv /\ DeadStaysDead /\ [RetryNext]_retryVars => DeadStaysDead'
<1> SUFFICES ASSUME TypeInv, DeadStaysDead, [RetryNext]_retryVars PROVE DeadStaysDead'
  OBVIOUS
<1> USE DEF TypeInv, Goto
<1>1. CASE Step /\ past' = past
  <2> SUFFICES ASSUME NEW i \in DOMAIN past, past[i].ctx # "live"
               PROVE  /\ ctx' # "live"
                      /\ pc' \in {"start", "dialing", "classifying", "done"}
                      /\ server' = "nothing"
    BY <1>1 DEF DeadStaysDead
  <2>1. ctx # "live" /\ pc \in {"start", "dialing", "classifying", "done"} /\ server = "nothing"
    BY DEF DeadStaysDead
  <2>2. CASE Reject \/ Dial \/ DialFails \/ ReturnFailure
    BY <2>1, <2>2 DEF Reject, Dial, DialFails, ReturnFailure
  <2>3. CASE WatchStarts \/ WatchActs \/ TimerExpires
    BY <2>1, <2>3 DEF WatchStarts, WatchActs, TimerExpires
  <2>4. CASE \/ Connects \/ SetDeadline \/ SetDeadlineFails \/ Watch \/ CommandSucceeds
             \/ CommandFails \/ Cleanup \/ ReturnSuccess \/ ContextEnds \/ ServerDecides
    BY <2>1, <2>4
    DEF Connects, SetDeadline, SetDeadlineFails, Watch, CommandSucceeds, CommandFails, Cleanup,
        ReturnSuccess, ContextEnds, ServerDecides
  <2> QED BY <1>1, <2>2, <2>3, <2>4 DEF Step
<1>2. CASE Again
  <2>1. /\ Len(past) \in Nat /\ DOMAIN past = 1..Len(past)
        /\ DOMAIN past' = 1..Len(past) + 1
        /\ \A i \in DOMAIN past : past'[i] = past[i]
        /\ past'[Len(past) + 1] = [server |-> server, ctx |-> ctx, failure |-> failure]
    BY <1>2 DEF Again
  <2>2. ctx' = ctx /\ pc' = "start" /\ server' = "nothing"
    BY <1>2 DEF Again
  <2>3. ASSUME NEW i \in DOMAIN past', past'[i].ctx # "live"
        PROVE  /\ ctx # "live"
               /\ \A j \in DOMAIN past' : j > i => past'[j].server = "nothing"
    <3>1. CASE i \in DOMAIN past
      BY <2>1, <2>3, <3>1 DEF DeadStaysDead
    <3>2. CASE i = Len(past) + 1
      BY <2>1, <2>3, <3>2
    <3> QED BY <2>1, <3>1, <3>2
  <2> QED BY <2>2, <2>3 DEF DeadStaysDead
<1>3. CASE DecidesLate
  <2>1. PICK k \in DOMAIN past, verdict \in {"accepted", "refused"} :
          past[k].server = "has_it" /\ past' = [past EXCEPT ![k].server = verdict]
    BY <1>3 DEF DecidesLate
  <2>2. /\ DOMAIN past' = DOMAIN past
        /\ \A i \in DOMAIN past : /\ past'[i].ctx = past[i].ctx
                                  /\ past[i].server = "nothing" => past'[i].server = "nothing"
    BY <2>1 DEF Attempt
  <2>3. ctx' = ctx /\ pc' = pc /\ server' = server
    BY <1>3 DEF DecidesLate, vars
  <2> QED BY <2>2, <2>3 DEF DeadStaysDead
<1>4. CASE UNCHANGED vars /\ past' = past
  BY <1>4 DEF vars, DeadStaysDead
<1> QED
  BY <1>1, <1>2, <1>3, <1>4, NextCases

\* However often the loop may retry, a mail gets to a second server only after
\* the network timed out on the first.
THEOREM TwiceOnlyAfterTimeoutAlways == RetrySpec => []TwiceOnlyAfterTimeout
<1> DEFINE Inv == TypeInv /\ TimeoutExplained /\ DeadStaysDead
<1>1. RetryInit => Inv
  BY TypeInit, NilAssumption DEF RetryInit, Init, TimeoutExplained, DeadStaysDead
<1>2. Inv /\ [RetryNext]_retryVars => Inv'
  BY TypeNext, ExplainedNext, DeadNext
<1>3. Inv => TwiceOnlyAfterTimeout
  BY DEF TimeoutExplained, DeadStaysDead, TwiceOnlyAfterTimeout
<1> QED
  BY <1>1, <1>2, <1>3, PTL DEF RetrySpec
=============================================================================
