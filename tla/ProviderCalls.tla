--------------------------- MODULE ProviderCalls ---------------------------
(***************************************************************************)
(* The calls one provider object serves at a time: complete() of an LLM    *)
(* provider (tools/llm_provider.py), whose rounds ask for valid JSON again *)
(* and whose every round is one with_retry() behind the provider's circuit *)
(* breaker (tools/resilience.py).  The search provider, the embeddings and *)
(* the Qdrant store use with_retry() the same way, with a single round.    *)
(*                                                                         *)
(* Everything between two awaits is one step.  A call is out of the event  *)
(* loop's hands while the provider answers ("calling") and while tenacity  *)
(* sleeps ("backoff").  The clock is the breaker's: ticks of its cooldown. *)
(***************************************************************************)
EXTENDS Naturals

CONSTANTS
  Callers,          \* tasks that share the provider, parallel researchers say
  Threshold,        \* circuit_failure_threshold
  ResetTicks,       \* circuit_reset_seconds, in ticks
  MaxAttempts,      \* resilience_max_attempts
  MaxRounds         \* MAX_JSON_VALIDATION_RETRIES + 1

ASSUME CallsAssumption ==
  /\ Threshold \in Nat \ {0}
  /\ ResetTicks \in Nat \ {0}
  /\ MaxAttempts \in Nat \ {0}
  /\ MaxRounds \in Nat \ {0}

VARIABLES
  breaker,          \* _state, _consecutive_failures and what is left of the
                    \* reset timeout since _opened_at
  pc,               \* where each task stands in its call
  attempt,          \* the attempt with_retry() is at
  round,            \* json_attempt + 1
  hits              \* history: attempts each task has started while _state
                    \* was open, since it last became so

vars == <<breaker, pc, attempt, round, hits>>

Ended    == {"returned", "raised", "rejected", "cancelled"}
InFlight == {"calling", "backoff"}

----------------------------------------------------------------------------
(* The breaker.  failures stops counting at the threshold: the code only   *)
(* compares it with that and resets it.                                    *)

BreakerStates ==
  [state: {"closed", "open", "half_open"}, failures: 0 .. Threshold,
   cooldown: 0 .. ResetTicks]

NewBreaker == [state |-> "closed", failures |-> 0, cooldown |-> 0]

\* Broken variant: the clock is not consulted, open stays open.
ReadUntimed(b) == b

\* The property `state`: reading it is what turns open into half-open.
Read(b) ==
  IF b.state = "open" /\ b.cooldown = 0 THEN [b EXCEPT !.state = "half_open"] ELSE b

\* Broken variant: a success only closes a breaker that was half open.
SucceededIfHalfOpen(b) ==
  [b EXCEPT !.failures = 0, !.state = IF @ = "half_open" THEN "closed" ELSE @]

Succeeded(b) == NewBreaker

\* A failure while it is open, of a call admitted before, restarts the wait.
Failed(b) ==
  LET n == IF b.failures < Threshold THEN b.failures + 1 ELSE Threshold
  IN  IF b.state = "half_open" \/ n >= Threshold
      THEN [state |-> "open", failures |-> n, cooldown |-> ResetTicks]
      ELSE [b EXCEPT !.failures = n]

----------------------------------------------------------------------------

Init ==
  /\ breaker = NewBreaker
  /\ pc = [c \in Callers |-> "idle"]
  /\ attempt = [c \in Callers |-> 0]
  /\ round = [c \in Callers |-> 0]
  /\ hits = [c \in Callers |-> 0]

\* hits starts over whenever the breaker is, or becomes, anything but open.
Tally(h, b) == [c \in Callers |-> IF b.state = "open" THEN h[c] ELSE 0]

\* Broken variant: a tripped breaker turns nobody away.
EnterUnchecked(c, b, h) ==
  /\ breaker' = Read(b)
  /\ pc' = [pc EXCEPT ![c] = "calling"]
  /\ attempt' = [attempt EXCEPT ![c] = 1]
  /\ hits' = IF Read(b).state = "open" THEN [h EXCEPT ![c] = @ + 1]
             ELSE Tally(h, Read(b))

\* with_retry() up to its first attempt: the one look at the breaker.
Enter(c, b, h) ==
  /\ breaker' = Read(b)
  /\ hits' = Tally(h, Read(b))
  /\ IF Read(b).state = "open"
     THEN /\ pc' = [pc EXCEPT ![c] = "rejected"]
          /\ UNCHANGED attempt
     ELSE /\ pc' = [pc EXCEPT ![c] = "calling"]
          /\ attempt' = [attempt EXCEPT ![c] = 1]

\* A task that has nothing under way calls complete().
Call(c) ==
  /\ pc[c] = "idle"
  /\ round' = [round EXCEPT ![c] = 1]
  /\ Enter(c, breaker, hits)

\* The provider answers, and the answer is what was asked for.
Answer(c) ==
  /\ pc[c] = "calling"
  /\ breaker' = Succeeded(breaker)
  /\ hits' = Tally(hits, breaker')
  /\ pc' = [pc EXCEPT ![c] = "returned"]
  /\ UNCHANGED <<attempt, round>>

\* Broken variant: one round too many.
LastRoundLate(c) == round[c] > MaxRounds

LastRound(c) == round[c] >= MaxRounds

\* The provider answers and the text does not fit the schema.  The answer
\* counts as a success; the next round's with_retry() starts with no await in
\* between, and after the last round the ValidationError is raised.
InvalidAnswer(c) ==
  /\ pc[c] = "calling"
  /\ IF LastRound(c)
     THEN /\ breaker' = Succeeded(breaker)
          /\ hits' = Tally(hits, breaker')
          /\ pc' = [pc EXCEPT ![c] = "raised"]
          /\ UNCHANGED <<attempt, round>>
     ELSE /\ round' = [round EXCEPT ![c] = @ + 1]
          /\ Enter(c, Succeeded(breaker), Tally(hits, Succeeded(breaker)))

\* The attempt raises: counted, then slept on or, after the last, re-raised.
Fail(c) ==
  /\ pc[c] = "calling"
  /\ breaker' = Failed(breaker)
  /\ hits' = IF breaker.state = "open" THEN hits ELSE [d \in Callers |-> 0]
  /\ pc' = [pc EXCEPT ![c] = IF attempt[c] >= MaxAttempts THEN "raised" ELSE "backoff"]
  /\ UNCHANGED <<attempt, round>>

\* Broken variant: the retries are not counted.
RetryUncounted(c) ==
  /\ pc[c] = "backoff"
  /\ pc' = [pc EXCEPT ![c] = "calling"]
  /\ UNCHANGED <<breaker, attempt, round, hits>>

\* The sleep is over.  The breaker is not asked again.
Retry(c) ==
  /\ pc[c] = "backoff"
  /\ pc' = [pc EXCEPT ![c] = "calling"]
  /\ attempt' = [attempt EXCEPT ![c] = @ + 1]
  /\ hits' = IF breaker.state = "open" THEN [hits EXCEPT ![c] = @ + 1] ELSE hits
  /\ UNCHANGED <<breaker, round>>

\* A sibling branch of the graph raised and this task is cancelled where it
\* awaits: CancelledError is no Exception, and nothing is recorded.
Cancel(c) ==
  /\ pc[c] \in InFlight
  /\ pc' = [pc EXCEPT ![c] = "cancelled"]
  /\ UNCHANGED <<breaker, attempt, round, hits>>

\* The task gets on with what the call gave it.
Done(c) ==
  /\ pc[c] \in Ended
  /\ pc' = [pc EXCEPT ![c] = "idle"]
  /\ UNCHANGED <<breaker, attempt, round, hits>>

\* Time passes.
Tick ==
  /\ breaker.state = "open"
  /\ breaker.cooldown > 0
  /\ breaker' = [breaker EXCEPT !.cooldown = @ - 1]
  /\ UNCHANGED <<pc, attempt, round, hits>>

\* One call of complete() once it is under way.
Complete(c) == Answer(c) \/ InvalidAnswer(c) \/ Fail(c) \/ Retry(c)

Next == Tick \/ \E c \in Callers : Call(c) \/ Complete(c) \/ Cancel(c) \/ Done(c)

Spec == Init /\ [][Next]_vars

\* Clients have timeouts, sleeps end, time passes.  Nobody has to call.
FairSpec ==
  /\ Spec
  /\ WF_vars(Tick)
  /\ \A c \in Callers : WF_vars(Complete(c))

----------------------------------------------------------------------------
(* Properties *)

\* The breaker's three fields and every call's counters stay in range.
TypeOK ==
  /\ breaker \in BreakerStates
  /\ pc \in [Callers -> {"idle"} \cup Ended \cup InFlight]
  /\ attempt \in [Callers -> 0 .. MaxAttempts]
  /\ round \in [Callers -> 0 .. MaxRounds]
  /\ hits \in [Callers -> Nat]

\* An open breaker lets nothing through but what it had admitted before, and of
\* that no more than the retries each call had left, however often late
\* failures restart its wait (resilience.py:105 and 145).
StragglersBounded == \A c \in Callers : hits[c] < MaxAttempts

\* A call the provider has answered, with text that did not parse, is never
\* turned away in its next round: the answer itself has closed the breaker,
\* whatever the others' failures had made of it (llm_provider.py:156).
AnsweredIsNotRejected == \A c \in Callers : pc[c] = "rejected" => round[c] = 1

\* Once the provider has stopped failing, calls are no longer rejected:
\* the wait of an open breaker ends, and no success or cancellation in the
\* half-open state can bring it back (resilience.py:98).
RejectionsCease ==
  (<>[][~ \E c \in Callers : Fail(c)]_vars) =>
    (<>[][~ \E c \in Callers : pc'[c] = "rejected" /\ Call(c)]_vars)

\* Every call comes to an end, whatever the provider answers and however the
\* rounds and the attempts nest (llm_provider.py:112, resilience.py:148).
EveryCallReturns ==
  \A c \in Callers : pc[c] \in InFlight ~> pc[c] \in Ended
============================================================================
