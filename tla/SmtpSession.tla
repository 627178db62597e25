---------------------------- MODULE SmtpSession ----------------------------
(***************************************************************************)
(* SMTPProvider.Send (smtp.go): one mail, one connection, one context.     *)
(*                                                                         *)
(* Four actors share the connection.  The sending goroutine dials, sets    *)
(* the connection's deadline, registers a context.AfterFunc and talks SMTP *)
(* through a fixed script of commands; the AfterFunc's goroutine pulls the *)
(* deadline to the present when the context is done; the connection's      *)
(* timer expires; and the server takes its time, rejects, accepts, or      *)
(* vanishes.  Every command can fail.                                      *)
(*                                                                         *)
(* net, crypto/tls and net/smtp are external: a command either succeeds,   *)
(* which it cannot once the deadline has passed, or fails for a reason.    *)
(***************************************************************************)
EXTENDS Naturals, Sequences

CONSTANT Nil

ASSUME NilAssumption == Nil \notin {"io", "timeout", "ok", "canceled", "failed", "rejected"}

VARIABLES
  config,  \* UseTLS, UseStartTLS, and whether there is a Username
  pc,      \* where the sending goroutine is
  todo,    \* the commands that are still to be exchanged, the current one first
  conn,    \* the connection
  secure,  \* TLS protects it
  timer,   \* its deadline; while dialing, the dialer's timeout
  watch,   \* the AfterFunc
  ctx,     \* the caller's context
  server,  \* what the server made of the message
  failure, \* the error of the command that failed
  answer   \* what Send returned

vars == <<config, pc, todo, conn, secure, timer, watch, ctx, server, failure, answer>>

Configs == [tls: BOOLEAN, starttls: BOOLEAN, auth: BOOLEAN]

Upgrades == {"handshake", "starttls"}
Commands == Upgrades \cup {"greeting", "auth", "mail", "rcpt", "data", "write",
                          "terminate", "verdict", "quit"}

-----------------------------------------------------------------------------
(* The scripts.  TLS goes before STARTTLS, and neither means plain text.   *)

If(b, s) == IF b THEN s ELSE <<>>

\* Mutant: the answer to the message is not awaited.
sendWithClientUnanswered(cfg) ==
  If(cfg.auth, <<"auth">>) \o <<"mail", "rcpt", "data", "write", "terminate", "quit">>

\* writer.Close sends the terminating dot and reads the server's verdict.
sendWithClient(cfg) ==
  If(cfg.auth, <<"auth">>)
    \o <<"mail", "rcpt", "data", "write", "terminate", "verdict", "quit">>

Script(cfg) ==
  If(cfg.tls, <<"handshake">>) \o <<"greeting">>
    \o If(cfg.starttls /\ ~cfg.tls, <<"starttls">>) \o sendWithClient(cfg)

Init ==
  /\ config \in Configs
  /\ pc = "start"
  /\ todo = Script(config)
  /\ conn = "none" /\ timer = "none" /\ watch = "none"
  /\ secure = FALSE
  /\ ctx \in {"live", "canceled", "expired"}
  /\ server = "nothing"
  /\ failure = Nil
  /\ answer = Nil

-----------------------------------------------------------------------------
(* dial                                                                    *)

Goto(from, to) == pc = from /\ pc' = to

\* The message, its recipient or its subject is refused before any connection.
Reject ==
  /\ Goto("start", "done")
  /\ answer' = "rejected"
  /\ UNCHANGED <<config, todo, conn, secure, timer, watch, ctx, server, failure>>

Dial ==
  /\ Goto("start", "dialing")
  /\ timer' = "running"
  /\ UNCHANGED <<config, todo, conn, secure, watch, ctx, server, failure, answer>>

\* The errors an operation on the network may end with.  Besides the connection's
\* deadline, a name server or TCP itself can time out.
Errors == {"io", "timeout"}

Connects ==
  /\ timer = "running" /\ ctx = "live"
  /\ Goto("dialing", "dialed")
  /\ conn' = "open"
  /\ timer' = "none"
  /\ UNCHANGED <<config, todo, secure, watch, ctx, server, failure, answer>>

DialFails ==
  /\ Goto("dialing", "classifying")
  /\ failure' \in Errors
  /\ UNCHANGED <<config, todo, conn, secure, timer, watch, ctx, server, answer>>

\* Mutant: the connection is left without a deadline.
SetDeadlineNone ==
  /\ Goto("dialed", "guarded")
  /\ timer' = "none"
  /\ UNCHANGED <<config, todo, conn, secure, watch, ctx, server, failure, answer>>

\* The earlier of the configured timeout and the context's own deadline.
SetDeadline ==
  /\ Goto("dialed", "guarded")
  /\ timer' = IF ctx = "expired" THEN "expired" ELSE "running"
  /\ UNCHANGED <<config, todo, conn, secure, watch, ctx, server, failure, answer>>

\* Mutant: the error path forgets the connection.
SetDeadlineFailsOpen ==
  /\ Goto("dialed", "classifying")
  /\ failure' = "io"
  /\ UNCHANGED <<config, todo, conn, secure, timer, watch, ctx, server, answer>>

SetDeadlineFails ==
  /\ Goto("dialed", "classifying")
  /\ conn' = "closed"
  /\ failure' = "io"
  /\ UNCHANGED <<config, todo, secure, timer, watch, ctx, server, answer>>

\* Mutant: a context that is done already is not noticed.
AfterFuncIfLive == IF ctx = "live" THEN "armed" ELSE "none"

\* Registered on a context that is done already, the function starts at once.
AfterFunc == IF ctx = "live" THEN "armed" ELSE "started"

Watch ==
  /\ Goto("guarded", "talking")
  /\ watch' = AfterFunc
  /\ UNCHANGED <<config, todo, conn, secure, timer, ctx, server, failure, answer>>

-----------------------------------------------------------------------------
(* The exchange, and the way out.                                          *)

\* The server has the whole message once the terminating dot has left.
Deliver == IF Head(todo) = "terminate" THEN "has_it" ELSE server

CommandSucceeds ==
  /\ pc = "talking" /\ timer = "running"
  /\ secure' = (secure \/ Head(todo) \in Upgrades)
  /\ Head(todo) = "verdict" => server = "accepted"
  /\ todo' = Tail(todo)
  /\ server' = Deliver
  /\ pc' = IF todo' = <<>> THEN "closing" ELSE "talking"
  /\ UNCHANGED <<config, conn, timer, watch, ctx, failure, answer>>

\* Mutant: a failed upgrade is no reason to stop.
CommandFailsOpen ==
  /\ pc = "talking"
  /\ IF Head(todo) = "starttls"
     THEN todo' = Tail(todo) /\ UNCHANGED <<pc, server, failure>>
     ELSE /\ pc' = "closing"
          /\ failure' \in Errors
          /\ server' \in {server, Deliver}
          /\ UNCHANGED todo
  /\ UNCHANGED <<config, conn, secure, timer, watch, ctx, answer>>

\* The dot may have left although its write failed.
CommandFails ==
  /\ Goto("talking", "closing")
  /\ failure' \in Errors
  /\ server' \in {server, Deliver}
  /\ UNCHANGED <<config, todo, conn, secure, timer, watch, ctx, answer>>

\* The deferred calls: close the client, stop the AfterFunc unless it runs
\* already, close the connection.
Cleanup ==
  /\ Goto("closing", IF failure = Nil THEN "succeeding" ELSE "classifying")
  /\ conn' = "closed"
  /\ watch' = IF watch = "armed" THEN "stopped" ELSE watch
  /\ UNCHANGED <<config, todo, secure, timer, ctx, server, failure, answer>>

ReturnSuccess ==
  /\ Goto("succeeding", "done")
  /\ answer' = "ok"
  /\ UNCHANGED <<config, todo, conn, secure, timer, watch, ctx, server, failure>>

\* Mutant: the error of the command is taken at its word.
normalizeSendErrorIO == IF failure = "timeout" THEN "timeout" ELSE "failed"

\* A context that is done by now explains the error, whatever it was.
normalizeSendError ==
  CASE ctx = "expired"  -> "timeout"
    [] ctx = "canceled" -> "canceled"
    [] ctx = "live"     -> IF failure = "timeout" THEN "timeout" ELSE "failed"

ReturnFailure ==
  /\ Goto("classifying", "done")
  /\ answer' = normalizeSendError
  /\ UNCHANGED <<config, todo, conn, secure, timer, watch, ctx, server, failure>>

-----------------------------------------------------------------------------
(* The other actors.                                                       *)

\* The AfterFunc starts in a goroutine of its own, and later sets the deadline.
WatchStarts ==
  /\ watch = "armed" /\ ctx # "live"
  /\ watch' = "started"
  /\ UNCHANGED <<config, pc, todo, conn, secure, timer, ctx, server, failure, answer>>

WatchActs ==
  /\ watch = "started"
  /\ watch' = "ended"
  /\ timer' = IF conn = "open" THEN "expired" ELSE timer
  /\ UNCHANGED <<config, pc, todo, conn, secure, ctx, server, failure, answer>>

TimerExpires ==
  /\ timer = "running"
  /\ timer' = "expired"
  /\ UNCHANGED <<config, pc, todo, conn, secure, watch, ctx, server, failure, answer>>

ContextEnds ==
  /\ ctx = "live"
  /\ ctx' \in {"canceled", "expired"}
  /\ UNCHANGED <<config, pc, todo, conn, secure, timer, watch, server, failure, answer>>

ServerDecides ==
  /\ server = "has_it"
  /\ server' \in {"accepted", "refused"}
  /\ UNCHANGED <<config, pc, todo, conn, secure, timer, watch, ctx, failure, answer>>

Dials    == Reject \/ Dial \/ Connects \/ DialFails
Guards   == SetDeadline \/ SetDeadlineFails \/ Watch
Talks    == CommandSucceeds \/ CommandFails
Returns  == Cleanup \/ ReturnSuccess \/ ReturnFailure
Watcher  == WatchStarts \/ WatchActs

Next == \/ Dials \/ Guards \/ Talks \/ Returns \/ Watcher
        \/ TimerExpires \/ ContextEnds \/ ServerDecides

\* Goroutines run, and an operation whose deadline has passed (or a dial whose
\* context is done) returns.  The server owes nothing, and the configured timeout
\* may be as far away as one likes.
Fairness ==
  /\ WF_vars(pc = "start" /\ Dials)
  /\ WF_vars(DialFails /\ (timer = "expired" \/ ctx # "live"))
  /\ WF_vars(CommandFails /\ timer = "expired")
  /\ WF_vars(Guards) /\ WF_vars(Returns) /\ WF_vars(Watcher)

-----------------------------------------------------------------------------
(* Properties.                                                             *)

\* Every variable has its type.
TypeOK ==
  /\ config \in Configs
  /\ pc \in {"start", "dialing", "dialed", "guarded", "talking", "closing",
             "succeeding", "classifying", "done"}
  /\ todo \in Seq(Commands)
  /\ conn \in {"none", "open", "closed"}
  /\ secure \in BOOLEAN
  /\ timer \in {"none", "running", "expired"}
  /\ watch \in {"none", "armed", "started", "stopped", "ended"}
  /\ ctx \in {"live", "canceled", "expired"}
  /\ server \in {"nothing", "has_it", "accepted", "refused"}
  /\ failure \in {Nil, "io", "timeout"}
  /\ answer \in {Nil, "ok", "rejected", "timeout", "canceled", "failed"}

\* Send reports success only for a message the server has taken charge of, in
\* each of the three modes and however the connection ends afterwards.
SuccessMeansAccepted == answer = "ok" => server = "accepted"

\* README.md, "HTTP transport contract": with TLS or STARTTLS configured there is
\* no fallback; neither credentials nor any part of the message is exchanged
\* before the connection is protected.
NothingInPlaintext ==
  (pc = "talking" /\ (config.tls \/ config.starttls)) =>
    secure \/ Head(todo) \in Upgrades \cup {"greeting"}

\* Whichever way Send ends, it leaves no open connection behind and no function
\* that the context would still start.
NothingLeaks == pc = "done" => conn # "open" /\ watch # "armed"

\* A "timeout" is one: the context ran out of time, or the network did before the
\* AfterFunc cut the connection.  A caller that cancelled, which surfaces as a
\* deadline that has passed, is not told that the (retryable) time ran out.
TimeoutIsReal ==
  [][(answer' = "timeout" /\ answer = Nil) =>
       \/ ctx = "expired"
       \/ failure = "timeout" /\ watch \notin {"started", "ended"}]_vars

\* When the context ends, Send ends, even if the server never says another word
\* and the configured timeout is far away.  It must not matter when the context
\* ends, before, between or after SetDeadline and AfterFunc.
ContextEndsSend == ctx # "live" ~> pc = "done"

\* Without any help from context or server, the timeouts end each Send, if they arrive:
\* a deadline is in force at every place where Send waits for the network.
Terminates == WF_vars(TimerExpires) => (pc = "start" ~> pc = "done")

=============================================================================
