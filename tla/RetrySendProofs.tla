-------------------------- MODULE RetrySendProofs --------------------------
(***************************************************************************)
(* Proofs about RetrySend: for any number of calls, providers, channels    *)
(* and retries, and any registry traffic, IInv is inductive.  The safety   *)
(* properties are conjuncts of it or follow from it.                       *)
(***************************************************************************)
EXTENDS RetrySend, TLAPS

\* Delays are numbers up to the cap.
LEMMA DelayInRange ==
  ASSUME NEW a \in Nat
  PROVE  CalculateDelay(a) \in 0..MaxRetryDelay
<1>1. RetryDelay * (a + 1) \in Nat
  BY DelaysAssumption
<1>2. RetryDelay * (a + 1) * BackoffMultiplier \in Nat
  BY <1>1, DelaysAssumption
<1> QED
  BY <1>2, DelaysAssumption DEF CalculateDelay

\* The next delay is at least as long.
LEMMA DelayGrows ==
  ASSUME NEW a \in Nat
  PROVE  CalculateDelay(a) <= CalculateDelay(a + 1)
<1> DEFINE d(n) == RetryDelay * (n + 1) * BackoffMultiplier
<1>1. RetryDelay * BackoffMultiplier \in Nat
  BY DelaysAssumption
<1>2. d(a + 1) = d(a) + RetryDelay * BackoffMultiplier
  BY DelaysAssumption
<1>3. d(a) \in Nat /\ d(a + 1) \in Nat
  <2>1. RetryDelay * (a + 1) \in Nat /\ RetryDelay * ((a + 1) + 1) \in Nat
    BY DelaysAssumption
  <2> QED
    BY <2>1, DelaysAssumption
<1>4. d(a) <= d(a + 1)
  <2> HIDE DEF d
  <2> QED
    BY <1>1, <1>2, <1>3
<1> HIDE DEF d
<1>5. /\ CalculateDelay(a) = IF d(a) > MaxRetryDelay THEN MaxRetryDelay ELSE d(a)
      /\ CalculateDelay(a + 1) =
           IF d(a + 1) > MaxRetryDelay THEN MaxRetryDelay ELSE d(a + 1)
  BY DEF CalculateDelay, d
<1> QED
  BY <1>3, <1>4, <1>5, DelaysAssumption

-----------------------------------------------------------------------------
\* The initial states satisfy the invariant.
LEMMA InitEstablishes ==
  ASSUME Init
  PROVE  IInv
<1>1. TypeOK
  BY ConstantsAssumption, DelaysAssumption
  DEF Init, TypeOK, Ended, Reg!InitRegistry, Reg!Registered, NoAnswer, Pair, Results, Errors
<1>2. VerdictStands /\ NeverGivesUpEarly /\ FreshProvider /\ RegistryIsSeen
  BY DEF Init, VerdictStands, NeverGivesUpEarly, FreshProvider, RegistryIsSeen
<1>3. WithinBudget
  BY DEF Init, WithinBudget
<1>4. DelayIsBehind
  <2>1. CalculateDelay(0) \in 0..MaxRetryDelay
    BY DelayInRange
  <2>2. 0 <= CalculateDelay(0)
    BY <2>1, DelaysAssumption
  <2> QED
    BY <2>2 DEF Init, DelayIsBehind
<1> QED
  BY <1>1, <1>2, <1>3, <1>4 DEF IInv

-----------------------------------------------------------------------------
(* An attempt that is answered, by the provider or by the registry: the    *)
(* only kind of step that counts, concludes and computes a delay.          *)

\* The answer leaves every variable in its type.
LEMMA AnswerTypes ==
  ASSUME IInv, NEW c \in Calls, NEW from \in {"resolving", "sending"},
         NEW p \in [result: Results, err: Errors], HandleAnswer(c, from, p),
         UNCHANGED <<providers, via, channel, target, cancelled, seen>>
  PROVE  TypeOK'
<1> USE DEF IInv, TypeOK
<1>1. /\ pc' \in [Calls -> {"starting", "resolving", "calling", "sending", "waiting"} \cup Ended]
      /\ answer' \in [Calls -> [result: Results, err: Errors \cup {"context"}]]
      /\ verdict' \in [Calls -> [result: Results, err: Errors] \cup {Nil}]
  BY DEF HandleAnswer, Goto, NextStep, Return, Conclude, Ended
<1>2. attempt[c] \in Nat /\ attempt[c] <= MaxRetries[c]
  BY DEF HandleAnswer, Goto, WithinBudget
<1>3. /\ attempt' \in [Calls -> Nat]
      /\ \A d \in Calls : attempt'[d] = 0 \/ attempt'[d] <= MaxRetries[d] + 1
  <2>1. attempt' = [attempt EXCEPT ![c] = attempt[c] + 1]
    BY DEF HandleAnswer
  <2>2. attempt'[c] = attempt[c] + 1 /\ \A d \in Calls \ {c} : attempt'[d] = attempt[d]
    BY <2>1
  <2>3. MaxRetries[c] \in Int
    BY ConstantsAssumption
  <2>4. attempt'[c] <= MaxRetries[c] + 1
    BY <1>2, <2>2, <2>3
  <2> QED
    BY <1>2, <2>1, <2>2, <2>4
<1>4. delay' \in [Calls -> 0..MaxRetryDelay]
  BY <1>2, DelayInRange DEF HandleAnswer
<1> QED
  BY <1>1, <1>3, <1>4 DEF Reg!Registered

\* A conclusive answer ends the loop, and ends it with that answer.
LEMMA AnswerConcludes ==
  ASSUME IInv, NEW c \in Calls, NEW from \in {"resolving", "sending"},
         NEW p \in [result: Results, err: Errors], HandleAnswer(c, from, p)
  PROVE  /\ VerdictStands'
         /\ NeverGivesUpEarly' \/ cancelled' # cancelled
<1>1. pc[c] = from /\ verdict[c] = Nil
  BY DEF IInv, VerdictStands, HandleAnswer, Goto
<1>2. p # Nil
  BY NilAssumption
<1>3. p.err \in Errors
  OBVIOUS
<1>4. Conclusive(p) <=> Succeeded(p) \/ Fatal(p)
  BY <1>3 DEF Conclusive, Fatal, Succeeded, IsRetryable, Errors, Reasons
<1>5. /\ pc'[c] = NextStep(c, p) /\ answer'[c] = p
      /\ attempt'[c] = attempt[c] + 1
      /\ verdict'[c] = IF Conclusive(p) THEN p ELSE Nil
      /\ \A d \in Calls \ {c} : /\ pc'[d] = pc[d] /\ answer'[d] = answer[d]
                                /\ attempt'[d] = attempt[d] /\ verdict'[d] = verdict[d]
  BY <1>1 DEF IInv, TypeOK, HandleAnswer, Goto, Return, Conclude
<1>6. VerdictStands'
  BY <1>2, <1>4, <1>5 DEF IInv, VerdictStands, NextStep
<1>7. ASSUME cancelled' = cancelled, pc'[c] = "done"
      PROVE  verdict'[c] # Nil \/ attempt'[c] = MaxRetries[c] + 1
  <2>1. attempt[c] \in Nat /\ attempt[c] <= MaxRetries[c]
    BY <1>1 DEF IInv, TypeOK, WithinBudget
  <2>2. Conclusive(p) \/ attempt[c] + 1 >= maxAttempts(c)
    BY <1>4, <1>5, <1>7 DEF NextStep
  <2> QED
    BY <1>2, <1>5, <2>1, <2>2, ConstantsAssumption DEF maxAttempts
<1> QED
  BY <1>5, <1>6, <1>7 DEF IInv, NeverGivesUpEarly

\* An answer that is not the last leaves room for another attempt.
LEMMA AnswerKeepsCount ==
  ASSUME IInv, NEW c \in Calls, NEW from \in {"resolving", "sending"},
         NEW p \in [result: Results, err: Errors], HandleAnswer(c, from, p)
  PROVE  /\ WithinBudget'
         /\ DelayIsBehind'
         /\ \A d \in Calls : delay'[d] >= delay[d]
<1>1. /\ attempt[c] \in Nat /\ attempt[c] <= MaxRetries[c]
      /\ pc'[c] = NextStep(c, p) /\ attempt'[c] = attempt[c] + 1
      /\ delay'[c] = IF NextStep(c, p) = "waiting" THEN CalculateDelay(attempt[c]) ELSE delay[c]
      /\ \A d \in Calls \ {c} : /\ pc'[d] = pc[d] /\ answer'[d] = answer[d]
                                /\ attempt'[d] = attempt[d] /\ delay'[d] = delay[d]
  BY DEF IInv, TypeOK, WithinBudget, HandleAnswer, Goto, Return
<1>2. WithinBudget'
  <2>1. NextStep(c, p) \in {"done", "waiting"}
    BY DEF NextStep
  <2>2. NextStep(c, p) = "waiting" => attempt'[c] <= MaxRetries[c]
    BY <1>1, ConstantsAssumption DEF NextStep, maxAttempts
  <2> QED
    BY <1>1, <2>1, <2>2 DEF IInv, WithinBudget
<1>3. delay[c] <= CalculateDelay(attempt[c]) /\ delay[c] \in Nat
  BY DEF IInv, TypeOK, DelayIsBehind
<1>4. /\ CalculateDelay(attempt[c]) \in Nat /\ CalculateDelay(attempt[c] + 1) \in Nat
      /\ CalculateDelay(attempt[c]) <= CalculateDelay(attempt[c] + 1)
  <2>1. attempt[c] + 1 \in Nat
    BY <1>1
  <2> QED
    BY <1>1, <2>1, DelayInRange, DelayGrows, DelaysAssumption
<1>5. DelayIsBehind'
  <2>1. delay'[c] <= CalculateDelay(attempt'[c])
    BY <1>1, <1>3, <1>4
  <2> QED
    BY <1>1, <2>1 DEF IInv, DelayIsBehind
<1>6. \A d \in Calls : delay[d] \in Nat
  BY DEF IInv, TypeOK
<1> QED
  BY <1>1, <1>2, <1>3, <1>4, <1>5, <1>6

\* Together: an answered attempt keeps the invariant.
LEMMA AnswerPreserves ==
  ASSUME IInv, NEW c \in Calls, NEW from \in {"resolving", "sending"},
         NEW p \in [result: Results, err: Errors], HandleAnswer(c, from, p),
         UNCHANGED <<providers, via, channel, target, cancelled, seen>>
  PROVE  IInv'
<1>1. pc'[c] \in {"done", "waiting"} /\ \A d \in Calls \ {c} : pc'[d] = pc[d]
  BY DEF IInv, TypeOK, HandleAnswer, Goto, NextStep
<1>2. FreshProvider' /\ RegistryIsSeen'
  BY <1>1 DEF IInv, FreshProvider, RegistryIsSeen, Reg!Get
<1> QED
  BY <1>2, AnswerTypes, AnswerConcludes, AnswerKeepsCount DEF IInv

-----------------------------------------------------------------------------
\* Every step preserves the invariant.
LEMMA StepPreserves ==
  ASSUME IInv, [Next]_vars
  PROVE  IInv'
<1> USE DEF IInv
<1>1. ASSUME NEW c \in Calls, Start(c)
      PROVE  IInv'
  <2>1. TypeOK'
    BY <1>1 DEF TypeOK, Start, Goto, Watch, FirstStep, Reg!Registered, Reg!Get
  <2>2. VerdictStands' /\ NeverGivesUpEarly' /\ FreshProvider' /\ RegistryIsSeen'
    BY <1>1 DEF TypeOK, VerdictStands, NeverGivesUpEarly, FreshProvider, RegistryIsSeen,
                Start, Goto, Watch, FirstStep, Reg!Get
  <2>3. WithinBudget'
    <3>1. MaxRetries[c] \in Int /\ pc[c] = "starting" /\ MaxRetries[c] + 1 > 0
      BY <1>1, ConstantsAssumption DEF Start, Goto, maxAttempts
    <3>2. attempt[c] = 0 /\ attempt[c] <= MaxRetries[c]
      BY <3>1 DEF WithinBudget
    <3> QED
      BY <1>1, <3>2 DEF TypeOK, WithinBudget, Start, Goto, FirstStep
  <2> QED
    BY <1>1, <2>1, <2>2, <2>3 DEF Start, DelayIsBehind, CalculateDelay
<1>2. ASSUME NEW c \in Calls, StartWithoutAttempts(c)
      PROVE  IInv'
  <2>1. TypeOK' /\ FreshProvider' /\ RegistryIsSeen' /\ WithinBudget' /\ VerdictStands'
    BY <1>2 DEF TypeOK, StartWithoutAttempts, Goto, Ended, Reg!Registered, Reg!Get,
                FreshProvider, RegistryIsSeen, WithinBudget, VerdictStands
  <2>2. MaxRetries[c] < 0
    BY <1>2, ConstantsAssumption DEF StartWithoutAttempts, maxAttempts
  <2>3. NeverGivesUpEarly'
    BY <1>2, <2>2 DEF TypeOK, StartWithoutAttempts, Goto, NeverGivesUpEarly, WithinBudget
  <2> QED
    BY <1>2, <2>1, <2>3 DEF StartWithoutAttempts, DelayIsBehind, CalculateDelay
<1>3. ASSUME NEW c \in Calls, Resolve(c)
      PROVE  IInv'
  <2>1. TypeOK'
    BY <1>3 DEF TypeOK, Resolve, Goto, Lookup, Reg!Registered, Reg!Get
  <2>2. FreshProvider' /\ RegistryIsSeen'
    BY <1>3 DEF TypeOK, FreshProvider, RegistryIsSeen, Resolve, Goto, Lookup, Reg!Get
  <2>3. VerdictStands' /\ NeverGivesUpEarly' /\ WithinBudget'
    BY <1>3 DEF TypeOK, VerdictStands, NeverGivesUpEarly, WithinBudget, Resolve, Goto
  <2> QED
    BY <1>3, <2>1, <2>2, <2>3 DEF Resolve, DelayIsBehind, CalculateDelay
<1>4. ASSUME NEW c \in Calls, NotRegistered(c)
      PROVE  IInv'
  <2>1. Pair(Nil, "not_registered") \in [result: Results, err: Errors]
    BY DEF Pair, Results, Errors, Reasons
  <2> QED
    BY <1>4, <2>1, AnswerPreserves DEF NotRegistered
<1>5. ASSUME NEW c \in Calls, CallProvider(c)
      PROVE  IInv'
  <2>1. TypeOK' /\ FreshProvider' /\ RegistryIsSeen'
    BY <1>5 DEF TypeOK, FreshProvider, RegistryIsSeen, CallProvider, Goto, Reg!Registered, Reg!Get
  <2>2. VerdictStands' /\ NeverGivesUpEarly' /\ WithinBudget'
    BY <1>5 DEF TypeOK, VerdictStands, NeverGivesUpEarly, WithinBudget, CallProvider, Goto
  <2> QED
    BY <1>5, <2>1, <2>2 DEF CallProvider, DelayIsBehind, CalculateDelay
<1>6. ASSUME NEW c \in Calls, ProviderAnswers(c)
      PROVE  IInv'
  <2>1. PICK r \in Results, e \in Errors :
          /\ HandleAnswer(c, "sending", Pair(r, e))
          /\ UNCHANGED <<providers, via, channel, target, cancelled, seen>>
    BY <1>6 DEF ProviderAnswers
  <2>2. Pair(r, e) \in [result: Results, err: Errors]
    BY DEF Pair
  <2> QED
    BY <2>1, <2>2, AnswerPreserves
<1>7. ASSUME NEW c \in Calls, ProviderAnswersNil(c)
      PROVE  IInv'
  <2>1. TypeOK' /\ FreshProvider' /\ RegistryIsSeen'
    BY <1>7 DEF TypeOK, FreshProvider, RegistryIsSeen, ProviderAnswersNil, Goto, Ended,
                Reg!Registered, Reg!Get
  <2>2. VerdictStands' /\ NeverGivesUpEarly' /\ WithinBudget'
    BY <1>7 DEF TypeOK, VerdictStands, NeverGivesUpEarly, WithinBudget, ProviderAnswersNil, Goto
  <2> QED
    BY <1>7, <2>1, <2>2 DEF ProviderAnswersNil, DelayIsBehind, CalculateDelay
<1>8. ASSUME NEW c \in Calls, TimerFires(c)
      PROVE  IInv'
  <2>1. TypeOK'
    BY <1>8 DEF TypeOK, TimerFires, Goto, Watch, FirstStep, Reg!Registered, Reg!Get
  <2>2. FreshProvider' /\ RegistryIsSeen'
    BY <1>8 DEF TypeOK, FreshProvider, RegistryIsSeen, TimerFires, Goto, Watch, FirstStep, Reg!Get
  <2>3. VerdictStands' /\ NeverGivesUpEarly' /\ WithinBudget'
    BY <1>8 DEF TypeOK, VerdictStands, NeverGivesUpEarly, WithinBudget, TimerFires, Goto, FirstStep
  <2> QED
    BY <1>8, <2>1, <2>2, <2>3 DEF TimerFires, DelayIsBehind, CalculateDelay
<1>9. ASSUME NEW c \in Calls, ContextDone(c)
      PROVE  IInv'
  <2>1. TypeOK'
    BY <1>9 DEF TypeOK, ContextDone, Goto, Return, Pair, Results, Ended, Reg!Registered
  <2>2. FreshProvider' /\ RegistryIsSeen' /\ WithinBudget'
    BY <1>9 DEF TypeOK, FreshProvider, RegistryIsSeen, WithinBudget, ContextDone, Goto, Return, Reg!Get
  <2>3. VerdictStands' /\ NeverGivesUpEarly'
    BY <1>9 DEF TypeOK, VerdictStands, NeverGivesUpEarly, ContextDone, Goto, Return
  <2> QED
    BY <1>9, <2>1, <2>2, <2>3 DEF ContextDone, DelayIsBehind, CalculateDelay
<1>10. ASSUME NEW c \in Calls, Cancel(c)
       PROVE  IInv'
  BY <1>10 DEF TypeOK, VerdictStands, NeverGivesUpEarly, FreshProvider, WithinBudget,
               RegistryIsSeen, DelayIsBehind, CalculateDelay, Cancel, Reg!Registered, Reg!Get
<1>11. ASSUME Administer
       PROVE  IInv'
  <2>1. providers' \in [Channels -> Providers \cup {Nil}]
    BY <1>11, ConstantsAssumption
    DEF TypeOK, Administer, Reg!Registered, Reg!Register, Reg!Unregister, Reg!Clear
  <2>2. seen' = [c \in Calls |-> IF Attempting(c) THEN seen[c] \cup {providers'[channel[c]]}
                                                ELSE seen[c]]
    BY <1>11 DEF Administer
  <2>3. TypeOK'
    BY <1>11, <2>1, <2>2 DEF TypeOK, Administer, Reg!Registered
  <2>4. FreshProvider' /\ RegistryIsSeen'
    BY <1>11, <2>2 DEF TypeOK, FreshProvider, RegistryIsSeen, Administer, Attempting, Reg!Get
  <2>5. VerdictStands' /\ NeverGivesUpEarly' /\ WithinBudget' /\ DelayIsBehind'
    BY <1>11 DEF VerdictStands, NeverGivesUpEarly, WithinBudget, DelayIsBehind,
                 CalculateDelay, Administer
  <2> QED
    BY <2>3, <2>4, <2>5
<1>12. ASSUME UNCHANGED vars
       PROVE  IInv'
  BY <1>12 DEF vars, TypeOK, VerdictStands, NeverGivesUpEarly, FreshProvider, WithinBudget,
               RegistryIsSeen, DelayIsBehind, CalculateDelay, Reg!Registered, Reg!Get
<1> QED
  BY <1>1, <1>2, <1>3, <1>4, <1>5, <1>6, <1>7, <1>8, <1>9, <1>10, <1>11, <1>12 DEF Next, Progress

\* The invariant holds in every reachable state.
THEOREM Invariance == Spec => []IInv
<1> QED
  BY InitEstablishes, StepPreserves, PTL DEF Spec

-----------------------------------------------------------------------------
\* Types, and the loop's budget: at most MaxRetries retries are ever made.
THEOREM TypeCorrect == Spec => []TypeOK
<1>1. IInv => TypeOK
  BY DEF IInv
<1> QED
  BY <1>1, Invariance, PTL

\* Nothing is sent again after a success or a final rejection.
THEOREM VerdictStandsAlways == Spec => []VerdictStands
<1>1. IInv => VerdictStands
  BY DEF IInv
<1> QED
  BY <1>1, Invariance, PTL

\* A failure that can be retried is, until the budget or the context ends.
THEOREM NeverGivesUpEarlyAlways == Spec => []NeverGivesUpEarly
<1>1. IInv => NeverGivesUpEarly
  BY DEF IInv
<1> QED
  BY <1>1, Invariance, PTL

\* Each attempt of a RetrySender reaches a provider of that attempt's time.
THEOREM FreshProviderAlways == Spec => []FreshProvider
<1>1. IInv => FreshProvider
  BY DEF IInv
<1> QED
  BY <1>1, Invariance, PTL

\* Delays never shrink, whatever the configuration.
THEOREM BackoffNeverShrinksAlways == Spec => BackoffNeverShrinks
<1>1. ASSUME IInv, [Next]_vars
      PROVE  [\A c \in Calls : delay'[c] >= delay[c]]_vars
  <2>1. \A c \in Calls : delay[c] \in Nat
    BY <1>1 DEF IInv, TypeOK
  <2>2. ASSUME NEW c \in Calls, NotRegistered(c)
        PROVE  \A d \in Calls : delay'[d] >= delay[d]
    <3>1. Pair(Nil, "not_registered") \in [result: Results, err: Errors]
      BY DEF Pair, Results, Errors, Reasons
    <3> QED
      BY <1>1, <2>2, <3>1, AnswerKeepsCount DEF NotRegistered
  <2>3. ASSUME NEW c \in Calls, ProviderAnswers(c)
        PROVE  \A d \in Calls : delay'[d] >= delay[d]
    <3>1. PICK r \in Results, e \in Errors : HandleAnswer(c, "sending", Pair(r, e))
      BY <2>3 DEF ProviderAnswers
    <3>2. Pair(r, e) \in [result: Results, err: Errors]
      BY DEF Pair
    <3> QED
      BY <1>1, <3>1, <3>2, AnswerKeepsCount
  <2>4. \/ \E c \in Calls : NotRegistered(c) \/ ProviderAnswers(c)
        \/ UNCHANGED delay
    BY <1>1 DEF Next, Progress, Start, StartWithoutAttempts, Resolve, CallProvider,
                ProviderAnswersNil, TimerFires, ContextDone, Cancel, Administer, vars
  <2>5. CASE UNCHANGED delay
    BY <2>1, <2>5
  <2> QED
    BY <2>2, <2>3, <2>4, <2>5
<1> QED
  BY <1>1, Invariance, PTL DEF Spec, BackoffNeverShrinks
=============================================================================
