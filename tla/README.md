# provider-kit in TLA+

TLA+ models of provider-kit (Go), the TLC runs that check them on small
instances, and TLAPS proofs of the properties that matter most for every value
of the constants. Paths below are relative to the repository's root, which is
called `src/` in `PROJECT.json`.

To check a run, `tlc -config SendCore.cfg MCRetryIdempotent`; to check the proofs
of a module, `tlapm IdempotentSendProofs.tla`. `PROJECT.json` lists every run
with its module and configuration, maps every definition to the lines it models,
and names, for every property, a plausible bug (a `Mutant:` definition next to
the original) that the run finds.

## 1. The system

provider-kit sends messages (mails, text messages, anything an HTTP API takes)
through *providers*. Around a provider go wrappers: one that retries, one that
makes sending idempotent. A registry maps channels to providers.

```
 caller -> RetrySender -> Registry -> IdempotentProvider -> SMTPProvider -> server
           RetryProvider     |          |                   HTTPProvider -> API
                             |          +-> IdempotencyStore (+ sweeper goroutine)
                             +-- Register, Unregister, Clear by administrators;
                             |   factories and providers that call the registry back
 results, errors, messages, configurations: passed by pointer, and shared
```

Everything interacts by plain calls on the caller's goroutine. Concurrency comes
from many callers sharing a registry, a provider and a store; from the store's
sweeper; from `context.AfterFunc`; and from whatever is at the other end of a
connection.

| Component (file) | State | Operations | What is hard | What makes it correct |
|---|---|---|---|---|
| In-memory store (idempotency.go) | map key -> claim or outcome with an expiry, one mutex | Reserve, Finalize, Abandon, Get, Set, Delete, sweep, Close | the clock is read before the lock in Reserve; late calls of earlier holders; untokened Set and Delete; three notions of "expired" | every claim has an owner who can release it; late calls change nothing; each answer is one an atomic claim register gives |
| Idempotent provider (idempotency.go) | none of its own; a claim per running call | Send | expiry during a send, panics, cancellation, lost writes and replies, stores without Reserve | one live sender per key; an outcome stands; refusals are honest and end; replays belong to the message |
| Retry wrappers (retry.go) | loop counter, last answer | Send | every pair (result, error) a provider may return; cancellation racing the timer; odd configurations; what an attempt leaves behind for the next one | a verdict ends the loop and is returned; nothing retryable is given up early; the loop ends; an attempt is not in the way of the next, and does not do again what was done |
| Registry (registry.go) | channel -> provider, name -> factory, one RWMutex | Register, Unregister, Clear, Get, Has, Channels, Providers, Send, and the same for factories with CreateProvider | a provider is used after the lock is released; callbacks that call the registry | each attempt uses a provider that was registered during it; whoever writes is alone; lists are exact; nobody waits for ever |
| SMTP provider (smtp.go) | one connection, its deadline, an AfterFunc | Send | order of deadline and AfterFunc; STARTTLS failing half-way; who closes what; which error to report | success only for accepted mail; no plaintext before the upgrade; nothing leaks; Send ends |
| HTTP provider (http.go) | one request | Send | lost replies and retries, redirects, body limits at the ends of int64, status against body | keyed messages are delivered once; success is earned; requests stay at their origin; Send ends |
| Errors (errors.go) | none | reasons, NormalizeError | NormalizeError checks, then writes to an error it may share | reasons decide what is retried; a label is not overwritten |
| Messages, results (message.go, result.go) | values that hold pointers to maps and errors | builders, Clone, cloneSendResult, GetError | who shares which map with whom, and writes to it | copies are independent; what Send records and what NewHTTPProvider keeps does not change |
| Templates (template.go) | delimiters | Render, WithDelimiters | substitution in map order, each value into the text the others left | the order does not show, where nothing is ambiguous |
| Channels, interfaces (channel.go, interface.go) | none | declarations | | |

`PROJECT.json` lists all hazards with the line where each one bites and the
properties that would notice.

## 2. The modules

| Module | Models |
|---|---|
| `MemoryStore` | the store's table and its operations, each one critical section. No behaviour of its own |
| `StoreClients` | every legal sequence of calls on the store, late, twice and out of order, with clock, sweeper and Close |
| `ClaimRegister` | the abstract specification of a store: slots that are free, held or settled, and live or lapsed; no clock, tokens or locks |
| `IdempotentSend` | `IdempotentProvider.Send` by concurrent callers, over `MemoryStore` |
| `StoreUse` | what `IdempotentSend` asks of its store, in the terms of `StoreClients`: three history variables |
| `RetryIdempotent` | retry loops around the idempotent provider: which calls of `IdempotentSend` are attempts of one loop |
| `Registry` | who is in charge of a channel. No behaviour of its own |
| `RegistryCalls` | all operations of the registry by concurrent calls, with its RWMutex and the callbacks, over `Registry` |
| `RetrySend` | `RetryProvider.Send` and `RetrySender.Send`, over `Registry` |
| `SmtpSession` | `SMTPProvider.Send`: one mail, one connection |
| `SmtpRetry` | the retry loop around `SmtpSession`: one mail, several connections, each with a server of its own |
| `HttpSend` | `HTTPProvider.Send`: one message, sent again after failures |
| `SharedValues` | who shares maps and errors with whom: results that Send records and replays, messages, the HTTP provider's configuration |
| `Rendering` | `SimpleTemplateRenderer.Render` for every order of its map |
| `MC...` | sets and symmetries for TLC |
| `...Proofs` | theorems and proofs about the module they are named after |

### The store: `MemoryStore`, `StoreClients`, `ClaimRegister`

`entries` is the map. An entry is a claim (token, no result) or an outcome
(result, no token), as `idempotencyEntry` says. Every operation holds the mutex
from start to end and is one action; what it returns is the disjunct that was
taken (`ReserveGrant`, `ReserveReplay`, `ReserveInFlight` for Reserve).
Reserve draws its token and reads the clock *before* it locks, so `StoreClients`
splits it: `Ask` reads the clock, and any number of steps later `Grant`, `Replay`
or `Refuse` acts on that reading. The comparisons are the code's: Reserve and the
refinement's notion of "live" take `now < expiresAt`, Get `now <= expiresAt`, the
sweeper `now > expiresAt`.

The refinement mapping (`View`) forgets clock and tokens: an entry becomes a slot
that is held by a call or settled with a result, live or not. `op` records each
completed operation with its answer and is shared by both levels, so the store is
held to its answers and not only to its contents. `ClaimRegister!Lapse` is all
that is left of time and of the sweeper.

### Idempotent sending: `IdempotentSend`

A call is a goroutine in `Send`; `pc` says where it is. `BeginReserve` reads the
clock; `Granted`, `Replayed`, `Refused` and `LookupFails` are the branches after
Reserve. A call that was let through is at `"passed"`, and `EntersProvider` is the
later moment when it reaches the provider: between the two it looks at nothing
again, and other calls, the clock and the sweeper go on. `ProviderReturns` draws any
(result, error) pair, nils included; `ProviderPanics` unwinds past the claim;
`FinalizeRecords`, `FinalizeReleases`, `FinalizeIsSuperseded` and `Abandons` are
what follows. With `CanReserve = FALSE` the calls take the check-then-act path
(`LookupMisses`, `LookupHits`, `SetsResult`, `SetsNil`), where `"passed"` is the
window between Get and the provider call; `at` then records when Get was asked.
`settled` is history: until when the outcome recorded last answers for a key, and
whether a nil outcome was set on top of it, which without Reserve clears what
another call recorded. With `Unreliable = TRUE` the store may lose a reply
(`GrantLost`) or reject a last write (`CleanupFails`), as a store behind a network
may: the code discards those errors. `cleanupContext` is the detached context the
code uses for last writes, and its mutant the caller's own.

The token of a claim is the identity of the call that drew it. A refused caller
may ask again under the same identity, because its token was never handed out.

A cache key is the string `buildCacheKey` makes: channels and keys are sequences of
symbols, and the cache key is `"idem:"`, the channel, a colon and the key in a row.
No two messages share one as long as no channel is another one with a colon after it
and more, which `TextsAssumption` asks of the channels and those in channel.go
satisfy.

`StoreUse` adds what each call has asked of the store, what it was granted, and the last
operation with its answer. They change nothing about the calls; they connect
`IdempotentSend`, which is about callers, with `StoreClients`, which is about any
client that reserves once with a token and ends only what it was granted.

`RetryIdempotent` composes it with a retry loop. `loop` and `number` partition the
calls into the attempts of loops, for every way to do so; one attempt begins when
the one before it has ended with an answer that `IsRetryable` retries. What happens
in an attempt is `IdempotentSend`'s `Next`, unchanged, so other loops, lone callers
and the store go on beside it. An attempt that may follow need not, since budgets,
configured reasons and the end of the context differ.

### Retrying: `RetrySend`, `Registry`, `RegistryCalls`

Both loops are one module; `via` says whether a call is a RetryProvider's (the
provider is fixed) or a RetrySender's (`Resolve` looks it up anew). `HandleAnswer`
is the part of the loop between two provider calls; `TimerFires` and `ContextDone`
are the arms of its select, and both may be enabled. Errors are what `IsRetryable`
sees: none, untyped, or a reason.

`RegistryCalls` has the operations step by step. A call arrives at the lock, a
writer announces itself and waits for the readers (`Announce`, `Lock`), and a reader
waits for no reader, but for writers that have announced themselves (`RLock`): that
is `sync.RWMutex`, the one external part. `Change` and `Look` are what is done under
the lock; a list is read entry by entry (`Iterate`, `ListEnds`). Validate runs
before the lock, factories and a provider's Send after it (`validating`, `calling`);
they may hang, and begin calls of their own, whose `caller` they are. Get, Has and
HasFactory are one operation, as are Channels and Providers, and the functions on
the global registry are these operations on a registry of their own.

### SMTP: `SmtpSession`, `SmtpRetry`

`Script` gives the commands of a configuration in order; `todo` is what is left.
Each command succeeds, which it cannot once the deadline has passed, or fails.
`dial` is four steps (`Dial`, `Connects`, `SetDeadline`, `Watch`), because the
context may end between any two. The AfterFunc's goroutine is `WatchStarts` and
`WatchActs`. The server gets the message with the terminating dot, even if the
write of the dot reports an error, and accepts or refuses it whenever it likes.

In `SmtpRetry` the loop keeps the attempts it gave up in `past`, each with its
server, which may still decide (`DecidesLate`). `Again` is the loop's step from an
answer with a default retryable reason to the next Send, which starts over with all
of its variables except the configuration and the context, which is the caller's.

### HTTP: `HttpSend`

`Post`, the redirects, `Reply`, `ReadBody` and `Judge` follow the code. Timeouts
and lost replies end `Send` while the request lives on: `Handle` may deliver it
long after. The API delivers one message per key; that is what the header asks
of it, and it is the one assumption about the API. Bodies are sizes, with two
bits for "valid JSON" as a whole and when cut off. Integers wrap at `MaxInt`.

### Values: `SharedValues`, `Rendering`

In `SharedValues` a result, a message or a configuration is the *cells* it consists
of: a map, an error, or the fields of a struct, and a cell's content is who wrote to
it last. Users make values (`Make`, with new, absent or foreign cells), have them
kept by the store or a provider (`Keep`), get answers and clones (`Answer`,
`CloneMessage`), take over a foreign map (`TakeTheirs`), and write to what they can
reach (`Change`, `Allocate`, `OthersWrite`) without any lock. `cloneSendResult`,
`Clone` and `snapshot` say which slots get new cells. `NormalizeError` is two steps,
`FindUnlabelled` and `Label`, because others may write between them. A cell that
nobody can reach is taken again.

In `Rendering` a text is a sequence of symbols, and one `Substitute` is one turn of
the loop over the map, in any order. `ReplaceAll` is what the standard library does.
`Rendered` is what a template means, without any order: at each place the parameter
whose placeholder stands there, or the symbol itself.

## 3. What is checked

| Run | Question | Bounds | Distinct states |
|---|---|---|---|
| `send_core` | one live sender, one send per TTL, honest refusals, standing outcomes, and loops that are not in their own way | 3 calls in loops of 1 to 3 attempts, 1 key, TTL 2, clock to 3 | 1 303 000 |
| `send_live` | a caller that keeps asking is answered | 2 callers, 2 channels, unreliable store, default TTL, clock to 3 | 366 000 |
| `send_legacy` | what check-then-act still promises, and that nobody gets another channel's outcome | 3 callers with 2 messages between them, 2 channels of which one begins the other, 2 keys, TTL 2, clock to 2 | 2 452 000 |
| `store_register` | the store implements `ClaimRegister`; copies are private; the order of parameters does not show | store: 3 calls, 2 results, TTLs -1, 0 and 1, clock to 2; values: 2 users; templates: up to 3 pieces, 2 parameters, 3 pairs of delimiters | 230 000 |
| `registry_calls` | exclusion, exact lists, no deadlock | 3 calls, 2 channels, 2 providers of which one is invalid, 1 factory | 228 000 |
| `retry_loop` | verdicts, budget, fresh providers, delays, the end | a wrapper with 2 retries and one with -1, 2 providers | 156 000 |
| `smtp_session` | success, plaintext, leaks, timeouts, mail sent twice, the end of each attempt | 2 retries; a session itself is finite | 252 000 |
| `http_send` | delivery, verdict, limits, redirects, the end | 2 sends, limits 0, 1 and the largest integer | 243 000 |

The module of `store_register` puts the store, shared values and templates side by
side. They have no variable in common, and every behaviour is one of a single
part, so the number of states is the sum and not the product of theirs.

**Why the bounds are enough.** Three callers are the least for the failure that
tokens prevent: one overruns its TTL, a second takes the key, and the first one's
late call lets a third in. Three are also the least for a loop with a retry beside a
stranger, and for a loop of three attempts. The clock reaches past one TTL while a
claim of the next is still standing; `send_core` has one key because an operation
reads and writes the entry of its own key only. In `send_legacy` one channel begins
the other and the keys make up for the difference, so that two messages have the
same symbols in a row but for the colon: an answer would cross over if nothing
showed where the channel ends. One of its messages is always one of those two
(`TwoMessages`); three callers are enough for one that records, one that clears, and
one that looked before either, and the clock reaches the end of a TTL. In the store,
a negative TTL makes entries that have expired at once, zero those that sit on the
boundary, and one those that last. Two retries give two delays and a full budget; a
wrapper that may not try at all runs beside it. Two retries of a mail give an
attempt with others before and after it. In the registry, three calls are a writer
between two readers, or one that a callback makes while another one waits. Two users
and the store are the least among whom a copy of a copy may be shared. Of the two
parameters' names one begins the other, their values include placeholders and parts
of them, and templates of three pieces put placeholders, and beginnings and ends of
them, next to and into each other. The limits of `http_send` include zero (the
default), one, and the largest integer, where the increment stops; bodies are
shorter, as long, and longer. The timeout configured there is zero, so `Terminates`
is about the one that replaces it. The bounds that exist for TLC alone are `MaxTime`
(the clock stops) and `MaxSends`; the theorems hold for all values of both, for any
number of retries, and for stores that lose writes with any number of callers.

`CHECK_DEADLOCK FALSE` is set everywhere because all calls may have ended, and
nothing else has to happen then.

### Properties, in words

*Idempotent sending.* `OneLiveSender`: of the calls with one key, one at most is
between Reserve and its Finalize or Abandon with an unexpired claim. (After the
TTL a second sender is let in by design; the first one's late calls must not let
in a third.) `RefusedOnlyBySender`: `ErrSendInFlight` is only given while some
other call's unexpired claim explains it. `OutcomeStands`: a recorded outcome is
not replaced before it expires. `SettledKeyLetsNoneThrough`: nor does Reserve, or Get
where there is no Reserve, let anybody through until then. That is about the look, not
about the provider: a call may reach the provider long after it looked.

`OneSendPerTTL` is what a key is for: from the moment a call claims its key, no
other call with that key is let through for a whole TTL, unless the first one's send
failed without a result; and one that had been let through before reaches the
provider in that time only if it stalled between Reserve and the provider until its
own claim ran out, which nothing in the code prevents. Panics, cancellation, late
writes, sweeps, and lost replies and writes do not change that. It includes failures
that came with a result: they are recorded like a success, and the retries they
provoke do not reach the provider (`FailureIsNotResent`; they can do no harm, and
cannot help either).

All this needs a store with Reserve. Without one, `Send` is a check-then-act that
does not hold under concurrency, as the comment on `Send` and the README say:
callers that overlap all send, and a nil outcome of one clears what another has
recorded. `DuplicateLookedEarlier` is how far it fails: a call reaches the provider
although an outcome of its key stands only if it had asked Get no later than that
outcome was recorded. Callers that ask after that send nothing, until the outcome
expires or is cleared.

`ReplayFaithful`: an answer without an error was produced for this key on this
channel. `AskerIsAnswered`: nobody is refused for ever.

*Idempotent sending in a retry loop.* `RetryIsNotItsOwnObstacle`: an attempt is
refused because of others, never because of an earlier attempt of its own loop,
unless the store lost that attempt's last write. 

*Store.* `ClaimsAreOwned`: a claim is one that was granted for this key, so somebody
can release it. `ImplementsRegister`: each answer is one the atomic register gives.

*Shared values.* `CopiesArePrivate`: no part of what Reserve, Get or Clone handed out,
or of what the store or a provider keeps, can be reached by anybody else. `KeptStands`:
what was recorded, or configured, does not change afterwards. `LabelStands`: between
NormalizeError's look and its write nobody else labels the error of an answer from
the store. The three are about copies; a value that a provider hands to two callers
is shared between them, and nothing is promised of it.

*Templates.* `OrderDoesNotShow`: every order gives the template with its parameters put
in, where that is unambiguous: no value contains the symbol that delimiters begin with,
no placeholder begins another, and none follows in the template on the unfinished
beginning of one.

*Registry.* `MapsAreGuarded`: whoever changes a map is alone with both of them.
`ListsAreExact`: Channels and Providers return what is registered when they return.
`LockIsGranted`: whoever wants the lock gets it, even if callbacks hang or call the
registry.

*Retrying.* `VerdictStands`, `NeverGivesUpEarly`, `FreshProvider`,
`BackoffNeverShrinks`, `Terminates`.

*SMTP.* `SuccessMeansAccepted`, `NothingInPlaintext`, `NothingLeaks`,
`TimeoutIsReal` (a cancelled send is not reported as timed out, although the
AfterFunc makes it look so), `ContextEndsSend`, `TwiceOnlyAfterTimeout` (a mail that a
server has, or may still accept, gets to a second one only after the network timed
out; a QUIT that fails otherwise does not send it twice), and `Terminates`, of each
attempt.

*HTTP.* `KeyedDeliveredOnce`, `SuccessIsEarned`, `NothingIsCut`, `ReasonSurvives`,
`RequestsStayHome`, `Terminates`.

### Where code and documentation disagree

Four runs end in a counterexample. Each checks what a document or a comment says.

- `send_superseded`: the README tells callers to handle `ErrClaimSuperseded`;
  `Send` discards it and never returns it.
- `send_same_answer`: an error that came with a result is recorded "so retries see
  the same answer"; retries see the result without the error.
- `retry_nil_outcome`: (nil, nil), which "the Provider interface permits", panics
  the retry loop.
- `retry_backoff`: "exponential backoff" grows linearly. (The first delay, which the
  comments call RetryDelay, is RetryDelay times BackoffMultiplier.)

### Fairness

Safety is checked under `Spec`, without fairness. For liveness:

- `IdempotentSend!FairSpec`: the clock runs, a goroutine that waits for the mutex
  gets it (Go's mutexes do not starve), code after a provider call runs, and a
  refused caller asks again, as the README tells it to. Nothing is assumed of the
  provider, which may hang, nor of the sweeper, which Close stops. Because the
  clock of the model ends at `MaxTime`, a caller may also be left waiting for an
  entry that expires after that (`BeyondClock`).
- `RetrySend!FairSpec`: goroutines run, timers fire, providers answer. The last is
  justified by the time limits of the two providers.
- `RegistryCalls!CallsSpec`: whoever can go on under the lock, or take it, does so in
  the end; strong fairness, because the lock may be taken by others in between, and
  Go's `Mutex` and `RWMutex` starve nobody. Nothing is assumed of Validate, factories
  and providers.
- `SmtpSession!Fairness`, in `SmtpRetry!RetrySpec`: goroutines run, and operations
  on a connection whose deadline has passed return; that is what `net.Conn`
  promises. The configured timeout need not arrive: the context alone must end Send
  (`ContextEndsSend`). `Terminates` has the arrival of the timeout as a premise
  instead, and then the context need not end. The server owes nothing.
- `HttpSend!FairSpec`: Send runs and the client's timeout, if it has one, arrives.
  The API may stay silent or redirect for ever.

## 4. What is proved

Theorems about behaviours are of the form `Spec => ...`. All hold for every value of
the constants, under the assumptions named in the modules. Those are the types of
the constants and that `Nil` and `Absent` differ from the values the code computes.
`IdempotentSend` assumes that no channel is another one with a colon after it and
more (`TextsAssumption`), `Rendering` that delimiters are not both empty
(`RenderingAssumption`). `RetrySend` assumes whole numbers for delays
(`DelaysAssumption`) in place of float64 and its conversion to int64; `HttpSend`
that limits are at most the largest integer, as an int64 is (`NumbersAssumption`).

**`IdempotentSendProofs`**: `TypeCorrect`, `OneLiveSenderAlways`,
`OutcomeStandsAlways`, `SettledKeyLetsNoneThroughAlways`,
`DuplicateLookedEarlierAlways`, `RefusedOnlyBySenderAlways`, `ReplayFaithfulAlways`,
`OneSendPerTTLAlways`. `OneLiveSender` is not inductive: it says nothing of the
table. The strengthening is `LiveClaimIsStored`: while a holder's claim has not run
out, the entry of its key is exactly that claim. Two live holders of a key would
then have the same token. The property survives because every operation that removes
or replaces an entry either is fenced by the token or finds the entry expired *by a
clock reading that is not in the future* (`AtIsPast`). For refusals the converse is
needed, `ClaimHasOwner`: every claim in the table belongs to a call that still holds
it or died; and `LostIsOver`, that a call which lost the store does not start over.
`SettledIsStored` carries the outcomes on both paths: what was recorded last is in
the table until it expires, or a nil outcome cleared it. With it goes
`PassedLookedEarlier`: a call that was let through found nothing that stands now, or
looked before it was recorded. `ReplayFaithful` follows an outcome from the provider
through the table to the answer: what is in the table, and what a call has as its
outcome, was produced (`RecordedWasProduced`, `OutcomeWasProduced`), and two calls
with the same cache key have the same channel and key (`SameKeySameMessage`). The
latter is about strings: if two are equal but their channels are not, the shorter
channel ends where the longer one has a colon (`CacheKeysDiffer`).

`OneSendPerTTL` follows a call from its claim to the end of the TTL. The invariant
is `SentBlocks`: until then the entry of its key is its own claim or an outcome, and
does not expire sooner, unless its send failed without a result. Its own last step
leaves such an entry (`OwnStepBlocks`), also when that step is lost, and no step of
another call takes it away (`OthersDoNotUnblock`). That a call which is about to
record an answer records the one the provider gave it is `AnswerIsItsOwn`.

Two compositions are in the same module. *Retry loops*: `LoopsAreCalls` says that a
step of a loop is a step of `IdempotentSend`, so every theorem above holds inside of
loops (the corollaries `OneLiveAttempt`, `SettledKeyIsNotRetried`,
`FailureIsNotResentAlways`; the last one also needs that a later attempt has a later
claim, `LaterAttemptsClaimLater`). `RetryIsNotItsOwnObstacleAlways` combines
`ClaimHasOwner` with `InOrder`, that attempts are made one after the other. *The
store*: `ProviderIsAClient` says that what the provider does with its store is a
behaviour of `StoreClients`, whose theorems are thereby about the provider's store
too; `ProviderUsesRegister` is the one that matters, that every operation answers as
`ClaimRegister` promises. The invariant `UseInv` says that a call which may ask was
granted nothing, and one that may finalize was. A Reserve that fails is one that has
begun and never ends. `UseIsSend` and `HistoryForbidsNothing` say that the history
variables neither add nor forbid a step.

**`StoreClientsProofs`**: `TypeCorrect`, `ClaimsAreOwnedAlways`, and `Refinement`:
the store implements `ClaimRegister`. Each action of `StoreClients` is shown to map
to one named step of the register or to a stutter. The lemma behind Reserve is that
a reading of the clock that is late can only make an expired slot look live, never
the other way round (`AskedInThePast`), and the register allows that.

**`RegistryCallsProofs`**: `TypeCorrect`, `MapsAreGuardedAlways`, `ListsAreExactAlways`.
That whoever holds the lock as a writer is alone is inductive as it stands, because
`Lock` waits for every holder and `RLock` and `Announce` for writers. The lists need
`SeenIsRegistered`: while a call iterates, no writer is in, so what it has come by
is still registered.

**`RetrySendProofs`**: `TypeCorrect`, `VerdictStandsAlways`,
`NeverGivesUpEarlyAlways`, `FreshProviderAlways`, `BackoffNeverShrinksAlways`, from
lemmas on `CalculateDelay` (its range, and that it is monotone) and the invariants
`WithinBudget`, `RegistryIsSeen` and `DelayIsBehind`.

**`SmtpRetryProofs`**: `TypeCorrect`, `SuccessMeansAcceptedAlways`,
`NothingInPlaintextAlways`, `NothingLeaksAlways`, `TimeoutIsRealAlways`,
`TwiceOnlyAfterTimeoutAlways`, for every number of retries. The scripts are data, so
the first lemmas say what all of them have in common: the upgrade comes before
everything but the greeting (`UpgradesFirst`), and the verdict on the mail directly
after its last byte (`AwaitsVerdict`). The invariants then follow `todo`: as long as
the connection is unprotected the upgrade is ahead (`UpgradeAhead`), and nothing is
reported as sent before the verdict (`VerdictAwaited`). Timeouts are real because
the AfterFunc acts for contexts that are done only (`WatchedFor`), and those explain
the error themselves. That a mail is sent twice only after a timeout needs
`TimeoutExplained`, that the answer "timeout" comes from the network or from the
context's own deadline, and `DeadStaysDead`: after a context has ended no later
attempt gets to a server.

**`HttpSendProofs`**: `TypeCorrect`, `KeyedDeliveredOnceAlways`,
`SuccessIsEarnedAlways`, `NothingIsCutAlways`, `ReasonSurvivesAlways`,
`RequestsStayHomeAlways`. `OneKeyOnly` says that with a key on the message the API
has seen no other, and counts deliveries by it; `BodyIsRead` says how many bytes
were read, and with the lemma on `readLimit` that a body longer than the limit is
recognised for every limit, the largest integer included.

**`SharedValuesProofs`**: `TypeCorrect`, `CopiesArePrivateAlways`,
`KeptStandsAlways`, `LabelStandsAlways`, for any number of users. Privacy is
inductive with two facts beside it: a cell is only ever in a slot of its kind
(`Proper`), so that every holder has one at most, and a user inside NormalizeError
has an error (`CheckedHaveErrors`). By the first, and the pigeonhole principle, a
new cell is always to be had, and it is in nobody else's hands (`NewIsNew`). The
other two properties follow, because a write reaches cells of the writer only, or
foreign ones.

**`RenderingProofs`**: `RenderingTypeCorrect`, `OrderDoesNotShowAlways`, for all
texts, parameters and delimiters. `ReplaceAll` and `Rendered` are functions
recursive over the positions of a text. In place of an induction theorem the proofs
take the last position where a claim fails (`LeastElement`, `FromTheEnd`). A text is
read as a `Pass` from left to right, which yields a symbol or a replacement at a
time; `ReplaceAll` is the pass for one placeholder (`ReplaceAllIsPass`), `Rendered`
the one for several. The induction over the loop is `OneMoreParameter`: putting one
more parameter into a text in which some have been put in gives the template with
one more put in. It holds because values neither contain a placeholder nor begin or
complete one (`NoNewPlaceholder`, `ValueIsPassedOver`), and the placeholders of
other parameters stay what they are (`PlaceholderStays`, `Untouched`).
`RenderedSoFar` is the inductive invariant: the result is the template with those
parameters put in that have had their turn.

**Proved and not run.** The type invariants of `StoreClients`, `SmtpSession`,
`RegistryCalls` and `Rendering`; `ReplayFaithful` with a Reserver (`send_legacy`
runs it without); `FailureIsNotResent`, which follows from `OneSendPerTTL` and the
order of attempts; and the theorems about `StoreUse`.

**Only model-checked.** Liveness, which is out of the prover's reach: `AskerIsAnswered`,
`Terminates`, `ContextEndsSend`, `LockIsGranted`. Every safety property of a passing run
is proved.

## 5. What is not modelled, and why

- Texts: the mail, the JSON, the wording of verification messages and errors, parsing
  of addresses and of configuration maps, setters of plain strings. No property
  depends on them. `Validate` and the parsers appear as refusals before anything is sent.
- Sharing that the code does not prevent: a provider's own result in the hands of two
  callers; a result that is given to the store's `Set` or `Finalize` directly, which keep
  the pointer (that the store has a copy is Send's doing); and a RetryConfig, which the
  retry wrappers keep by pointer too.
- `Provider.Channel` is called under the registry's lock. One that called the registry
  would wait for ever; the models assume it returns, as every implementation here does.
- Templates with two empty delimiters, and ambiguous ones, where the order does show.
- Extra HTTP headers, `SetHTTPClient`, and `SetDialer`, whose field `Send` never reads.
- Float arithmetic of delays beyond whole numbers, and its overflow.
- Channels of which one is another one with a colon after it: their cache keys can be
  the same string. Those in channel.go have no colon; nothing checks custom ones.
- The negative TTL that `NewIdempotentProvider` accepts is modelled for the store
  only: every claim has then expired when it is made, and nothing is promised.
- Channels and the interfaces are declarations; a channel is a text in
  `IdempotentSend` and a model value elsewhere.

## 6. Order of the work, and what is left

Written in this order: `MemoryStore`, `IdempotentSend`, `ClaimRegister` and
`StoreClients` (the core: duplicates are what this code exists to prevent),
`Registry` and `RetrySend`, `SmtpSession`, `HttpSend`; then the compositions
`RetryIdempotent`, `StoreUse` and `SmtpRetry`, `RegistryCalls`, `SharedValues` and
`Rendering`.

What is left, most important first:

1. The configuration maps of the SMTP and HTTP providers: which of two spellings of a
   setting wins, and what an unreadable one becomes.
2. `ConfigTTL` below zero for the idempotent provider, as a run of what remains true.
3. The safety half of the liveness properties, as theorems: that a retry loop, a mail and
   a request take a bounded number of steps of their own.
