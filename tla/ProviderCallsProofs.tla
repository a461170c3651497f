------------------------ MODULE ProviderCallsProofs ------------------------
(***************************************************************************)
(* Theorems about ProviderCalls, for any set of tasks, any threshold,      *)
(* cooldown, number of attempts and number of rounds.                      *)
(***************************************************************************)
EXTENDS ProviderCalls, TLAPS

----------------------------------------------------------------------------
(* The breaker's operators. *)

\* A breaker stays one, whatever is recorded or read (resilience.py:98-121).
LEMMA BreakerKept ==
  ASSUME NEW b \in BreakerStates
  PROVE  /\ NewBreaker \in BreakerStates
         /\ Succeeded(b) \in BreakerStates
         /\ Read(b) \in BreakerStates
         /\ Failed(b) \in BreakerStates
  BY CallsAssumption DEF BreakerStates, NewBreaker, Succeeded, Read, Failed

\* A history that starts over when the breaker is not open is a history still.
LEMMA TallyKept ==
  ASSUME NEW h \in [Callers -> Nat], NEW b \in BreakerStates
  PROVE  /\ Tally(h, b) \in [Callers -> Nat]
         /\ \A c \in Callers : Tally(h, b)[c] <= h[c]
         /\ b.state # "open" => \A c \in Callers : Tally(h, b)[c] = 0
  BY DEF Tally

\* A failure never takes a breaker out of its open state (resilience.py:117).
LEMMA FailureKeepsOpen ==
  ASSUME NEW b \in BreakerStates, b.state = "open"
  PROVE  Failed(b).state = "open"
  BY DEF BreakerStates, Failed

----------------------------------------------------------------------------
(* The inductive invariant. *)

\* A sleeping call has an attempt left, a call in flight has started at most all
\* but its first attempt against an open breaker, and while the breaker is not
\* open there is nothing to count.
Budget ==
  /\ \A c \in Callers : pc[c] = "backoff" => attempt[c] < MaxAttempts
  /\ \A c \in Callers : pc[c] \in InFlight => hits[c] < attempt[c]
  /\ \A c \in Callers : hits[c] < MaxAttempts
  /\ breaker.state # "open" => \A c \in Callers : hits[c] = 0

Inv == TypeOK /\ Budget

\* The entrance of with_retry() keeps types and budget: who is admitted meets a
\* breaker that is not open, and who is not has nothing under way.
LEMMA EnterKeeps ==
  ASSUME Inv, NEW c \in Callers, NEW b \in BreakerStates,
         NEW h \in [Callers -> Nat], \A d \in Callers : h[d] <= hits[d],
         b.state # "open" => \A d \in Callers : h[d] = 0,
         Enter(c, b, h), round' \in [Callers -> 0 .. MaxRounds]
  PROVE  Inv'
<1>1. Read(b) \in BreakerStates
  BY BreakerKept
<1>2. /\ Tally(h, Read(b)) \in [Callers -> Nat]
      /\ \A d \in Callers : Tally(h, Read(b))[d] <= h[d]
      /\ Read(b).state # "open" => \A d \in Callers : Tally(h, Read(b))[d] = 0
  BY <1>1, TallyKept
<1>3. /\ breaker' \in BreakerStates
      /\ hits' \in [Callers -> Nat]
      /\ \A d \in Callers : hits'[d] <= hits[d]
      /\ breaker'.state # "open" => \A d \in Callers : hits'[d] = 0
  <2>1. \A d \in Callers : Tally(h, Read(b))[d] <= hits[d]
    BY <1>2 DEF Inv, TypeOK
  <2> QED
    BY <1>1, <1>2, <2>1 DEF Enter
<1>4. \A d \in Callers : hits'[d] < MaxAttempts
  BY <1>3, CallsAssumption DEF Inv, TypeOK, Budget
<1>5. CASE Read(b).state = "open"
  <2>1. pc' = [pc EXCEPT ![c] = "rejected"] /\ attempt' = attempt
    BY <1>5 DEF Enter
  <2>2. TypeOK'
    BY <1>3, <2>1 DEF Inv, TypeOK, Ended
  <2>3. \A d \in Callers : pc'[d] \in InFlight => pc'[d] = pc[d]
    BY <2>1 DEF Inv, TypeOK, InFlight
  <2>4. \A d \in Callers : pc'[d] \in InFlight => hits'[d] < attempt'[d]
    BY <1>3, <2>1, <2>3 DEF Inv, TypeOK, Budget
  <2>5. \A d \in Callers : pc'[d] = "backoff" => attempt'[d] < MaxAttempts
    BY <2>1, <2>3 DEF Inv, Budget, InFlight
  <2> QED
    BY <1>3, <1>4, <2>2, <2>4, <2>5 DEF Inv, Budget
<1>6. CASE Read(b).state # "open"
  <2>1. /\ pc' = [pc EXCEPT ![c] = "calling"]
        /\ attempt' = [attempt EXCEPT ![c] = 1]
        /\ breaker' = Read(b)
    BY <1>6 DEF Enter
  <2>2. TypeOK'
    BY <1>3, <2>1, CallsAssumption DEF Inv, TypeOK, InFlight
  <2>3. \A d \in Callers : hits'[d] = 0
    BY <1>3, <1>6, <2>1
  <2>4. \A d \in Callers : pc'[d] \in InFlight => 0 < attempt'[d]
    BY <2>1 DEF Inv, TypeOK, Budget
  <2>5. \A d \in Callers : pc'[d] = "backoff" => attempt'[d] < MaxAttempts
    BY <2>1 DEF Inv, TypeOK, Budget
  <2> QED
    BY <1>3, <1>4, <2>2, <2>3, <2>4, <2>5 DEF Inv, Budget
<1> QED
  BY <1>5, <1>6

\* A call that ends keeps types and budget.
LEMMA EndingKeeps ==
  ASSUME Inv, NEW c \in Callers, NEW end \in Ended \cup {"idle"},
         pc' = [pc EXCEPT ![c] = end], breaker' \in BreakerStates,
         hits' \in [Callers -> Nat], \A d \in Callers : hits'[d] <= hits[d],
         breaker'.state # "open" => \A d \in Callers : hits'[d] = 0,
         UNCHANGED <<attempt, round>>
  PROVE  Inv'
<1>1. TypeOK'
  BY DEF Inv, TypeOK
<1>2. \A d \in Callers : pc'[d] \in InFlight => pc'[d] = pc[d]
  BY DEF Inv, TypeOK, InFlight, Ended
<1>3. ASSUME NEW d \in Callers
      PROVE  hits[d] \in Nat /\ hits'[d] \in Nat /\ hits'[d] <= hits[d] /\ hits[d] < MaxAttempts
  BY DEF Inv, TypeOK, Budget
<1>4. \A d \in Callers : hits'[d] < MaxAttempts
  BY <1>3, CallsAssumption
<1>5. ASSUME NEW d \in Callers, pc'[d] \in InFlight PROVE hits'[d] < attempt'[d]
  <2>1. hits[d] < attempt[d] /\ attempt'[d] = attempt[d] /\ attempt[d] \in Nat
    BY <1>2, <1>5, CallsAssumption DEF Inv, TypeOK, Budget
  <2> QED
    BY <1>3, <2>1
<1>6. \A d \in Callers : pc'[d] = "backoff" => attempt'[d] < MaxAttempts
  BY <1>2 DEF Inv, Budget, InFlight
<1> QED
  BY <1>1, <1>4, <1>5, <1>6 DEF Inv, Budget

\* Every provider starts with the invariant.
LEMMA InitInv == Init => Inv
  BY CallsAssumption
  DEF Init, Inv, TypeOK, Budget, BreakerStates, NewBreaker, InFlight

\* No step of a call, a cancellation or the clock leaves the invariant.
LEMMA NextInv == Inv /\ [Next]_vars => Inv'
<1> SUFFICES ASSUME Inv, [Next]_vars PROVE Inv'
  OBVIOUS
<1>0. breaker \in BreakerStates /\ hits \in [Callers -> Nat]
  BY DEF Inv, TypeOK
<1>1. CASE Tick
  BY <1>1, CallsAssumption DEF Tick, Inv, TypeOK, Budget, BreakerStates
<1>2. CASE UNCHANGED vars
  BY <1>2 DEF vars, Inv, TypeOK, Budget
<1>3. ASSUME NEW c \in Callers, Call(c) PROVE Inv'
  <2>1. round' \in [Callers -> 0 .. MaxRounds]
    BY <1>3, CallsAssumption DEF Call, Inv, TypeOK
  <2>2. Enter(c, breaker, hits)
    BY <1>3 DEF Call
  <2>3. \A d \in Callers : hits[d] <= hits[d]
    BY <1>0
  <2>4. breaker.state # "open" => \A d \in Callers : hits[d] = 0
    BY DEF Inv, Budget
  <2> QED
    BY <1>0, <2>1, <2>2, <2>3, <2>4, EnterKeeps
<1>4. Succeeded(breaker) \in BreakerStates /\ Succeeded(breaker).state # "open"
  BY <1>0, BreakerKept DEF Succeeded, NewBreaker
<1>5. /\ Tally(hits, Succeeded(breaker)) \in [Callers -> Nat]
      /\ \A d \in Callers : Tally(hits, Succeeded(breaker))[d] <= hits[d]
      /\ \A d \in Callers : Tally(hits, Succeeded(breaker))[d] = 0
  BY <1>0, <1>4, TallyKept
<1>6. ASSUME NEW c \in Callers, Answer(c) PROVE Inv'
  <2>1. /\ breaker' = Succeeded(breaker)
        /\ hits' = Tally(hits, Succeeded(breaker))
        /\ pc' = [pc EXCEPT ![c] = "returned"]
        /\ UNCHANGED <<attempt, round>>
    BY <1>6 DEF Answer
  <2> QED
    BY <1>4, <1>5, <2>1, EndingKeeps DEF Ended
<1>7. ASSUME NEW c \in Callers, InvalidAnswer(c) PROVE Inv'
  <2>1. CASE LastRound(c)
    <3>1. /\ breaker' = Succeeded(breaker)
          /\ hits' = Tally(hits, Succeeded(breaker))
          /\ pc' = [pc EXCEPT ![c] = "raised"]
          /\ UNCHANGED <<attempt, round>>
      BY <1>7, <2>1 DEF InvalidAnswer
    <3> QED
      BY <1>4, <1>5, <3>1, EndingKeeps DEF Ended
  <2>2. CASE ~ LastRound(c)
    <3>1. round[c] + 1 \in 0 .. MaxRounds
      BY <2>2, CallsAssumption DEF LastRound, Inv, TypeOK
    <3>2. round' \in [Callers -> 0 .. MaxRounds]
      BY <1>7, <2>2, <3>1 DEF InvalidAnswer, Inv, TypeOK
    <3>3. Enter(c, Succeeded(breaker), Tally(hits, Succeeded(breaker)))
      BY <1>7, <2>2 DEF InvalidAnswer
    <3> QED
      BY <1>4, <1>5, <3>2, <3>3, EnterKeeps
  <2> QED
    BY <2>1, <2>2
<1>8. ASSUME NEW c \in Callers, Fail(c) PROVE Inv'
  <2>1. breaker' \in BreakerStates
    BY <1>0, <1>8, BreakerKept DEF Fail
  <2>2. \A d \in Callers : hits[d] = hits'[d]
    BY <1>0, <1>8 DEF Fail, Inv, Budget
  <2>3. hits' = hits
    BY <1>0, <1>8, <2>2 DEF Fail
  <2>4. breaker'.state # "open" => \A d \in Callers : hits[d] = 0
    BY <1>0, <1>8, FailureKeepsOpen DEF Fail, Inv, Budget
  <2>5. hits' \in [Callers -> Nat] /\ \A d \in Callers : hits'[d] <= hits[d]
    BY <1>0, <2>3
  <2>6. breaker'.state # "open" => \A d \in Callers : hits'[d] = 0
    BY <2>3, <2>4
  <2>7. CASE attempt[c] >= MaxAttempts
    <3>1. pc' = [pc EXCEPT ![c] = "raised"] /\ UNCHANGED <<attempt, round>>
      BY <1>8, <2>7 DEF Fail
    <3> QED
      BY <2>1, <2>5, <2>6, <3>1, EndingKeeps DEF Ended
  <2>8. CASE attempt[c] < MaxAttempts
    <3>0. ~ attempt[c] >= MaxAttempts
      BY <2>8, CallsAssumption DEF Inv, TypeOK
    <3>1. pc' = [pc EXCEPT ![c] = "backoff"] /\ UNCHANGED <<attempt, round>>
      BY <1>8, <3>0 DEF Fail
    <3>2. TypeOK'
      BY <2>1, <2>3, <3>1 DEF Inv, TypeOK, InFlight
    <3>3. pc[c] \in InFlight
      BY <1>8 DEF Fail, InFlight
    <3>4. \A d \in Callers : pc'[d] \in InFlight => hits'[d] < attempt'[d]
      BY <2>3, <3>1, <3>3 DEF Inv, TypeOK, Budget
    <3>5. \A d \in Callers : pc'[d] = "backoff" => attempt'[d] < MaxAttempts
      BY <2>8, <3>1 DEF Inv, TypeOK, Budget
    <3> QED
      BY <2>3, <2>4, <3>2, <3>4, <3>5 DEF Inv, Budget
  <2> QED
    BY <2>7, <2>8, CallsAssumption DEF Inv, TypeOK
<1>9. ASSUME NEW c \in Callers, Retry(c) PROVE Inv'
  <2>1. /\ attempt[c] < MaxAttempts /\ attempt[c] \in Nat /\ hits[c] < attempt[c]
        /\ hits[c] \in Nat
    BY <1>9, CallsAssumption DEF Retry, Inv, TypeOK, Budget, InFlight
  <2>2. /\ pc' = [pc EXCEPT ![c] = "calling"]
        /\ attempt' = [attempt EXCEPT ![c] = attempt[c] + 1]
        /\ UNCHANGED <<breaker, round>>
    BY <1>9 DEF Retry
  <2>3. hits' = [hits EXCEPT ![c] = IF breaker.state = "open" THEN hits[c] + 1 ELSE hits[c]]
    BY <1>0, <1>9 DEF Retry
  <2>4. attempt[c] + 1 \in 0 .. MaxAttempts
    BY <2>1, CallsAssumption
  <2>5. TypeOK'
    BY <2>1, <2>2, <2>3, <2>4 DEF Inv, TypeOK, InFlight
  <2>6. \A d \in Callers : pc'[d] \in InFlight => hits'[d] < attempt'[d]
    BY <2>1, <2>2, <2>3 DEF Inv, TypeOK, Budget
  <2>7. \A d \in Callers : pc'[d] = "backoff" => attempt'[d] < MaxAttempts
    BY <2>2 DEF Inv, TypeOK, Budget
  <2>8. \A d \in Callers : hits'[d] < MaxAttempts
    BY <2>1, <2>3, CallsAssumption DEF Inv, TypeOK, Budget
  <2>9. breaker'.state # "open" => \A d \in Callers : hits'[d] = 0
    BY <2>2, <2>3 DEF Inv, TypeOK, Budget
  <2> QED
    BY <2>5, <2>6, <2>7, <2>8, <2>9 DEF Inv, Budget
<1>10. ASSUME NEW c \in Callers, NEW end \in {"cancelled", "idle"},
              pc' = [pc EXCEPT ![c] = end], UNCHANGED <<breaker, attempt, round, hits>>
       PROVE  Inv'
  <2>1. breaker'.state # "open" => \A d \in Callers : hits'[d] = 0
    BY <1>10 DEF Inv, Budget
  <2>2. \A d \in Callers : hits'[d] <= hits[d]
    BY <1>0, <1>10
  <2> QED
    BY <1>0, <1>10, <2>1, <2>2, EndingKeeps DEF Ended
<1>11. ASSUME NEW c \in Callers, Cancel(c) \/ Done(c) PROVE Inv'
  BY <1>10, <1>11 DEF Cancel, Done
<1> QED
  BY <1>1, <1>2, <1>3, <1>6, <1>7, <1>8, <1>9, <1>11 DEF Next, Complete

\* The invariant holds throughout.
LEMMA InvHolds == Spec => []Inv
  BY InitInv, NextInv, PTL DEF Spec

----------------------------------------------------------------------------

\* Every reachable state of a provider and its callers is well typed: attempts and
\* rounds stay within their limits.
THEOREM CallsTypeCorrect == Spec => []TypeOK
<1>1. Inv => TypeOK
  BY DEF Inv
<1> QED
  BY <1>1, InvHolds, PTL

\* However many tasks share the breaker and however late their failures come, an
\* open breaker sees fewer attempts of each than MaxAttempts.
THEOREM FewStragglers == Spec => []StragglersBounded
<1>1. Inv => StragglersBounded
  BY DEF Inv, Budget, StragglersBounded
<1> QED
  BY <1>1, InvHolds, PTL

\* A call is turned away in its first round or not at all.
THEOREM AnsweredGoOn == Spec => []AnsweredIsNotRejected
<1> DEFINE Fine == AnsweredIsNotRejected
<1>1. Init => Fine
  BY DEF Init, AnsweredIsNotRejected
<1>2. Inv /\ Fine /\ [Next]_vars => Fine'
  <2> SUFFICES ASSUME Inv, Fine, [Next]_vars PROVE Fine'
    OBVIOUS
  <2>0. pc \in [Callers -> {"idle"} \cup Ended \cup InFlight] /\ round \in [Callers -> 0 .. MaxRounds]
    BY DEF Inv, TypeOK
  <2>1. CASE Tick \/ UNCHANGED vars
    BY <2>1 DEF Tick, vars, AnsweredIsNotRejected
  <2>2. ASSUME NEW c \in Callers, Call(c) PROVE Fine'
    BY <2>0, <2>2 DEF Call, Enter, AnsweredIsNotRejected
  <2>3. ASSUME NEW c \in Callers, InvalidAnswer(c) PROVE Fine'
    <3>1. Read(Succeeded(breaker)).state # "open"
      BY DEF Succeeded, NewBreaker, Read
    <3>2. pc' \in {[pc EXCEPT ![c] = "raised"], [pc EXCEPT ![c] = "calling"]}
      BY <2>3, <3>1 DEF InvalidAnswer, Enter
    <3>3. round' \in {round, [round EXCEPT ![c] = round[c] + 1]}
      BY <2>3 DEF InvalidAnswer
    <3> QED
      BY <2>0, <3>2, <3>3 DEF AnsweredIsNotRejected
  <2>4. ASSUME NEW c \in Callers,
               NEW next \in {"returned", "raised", "backoff", "calling", "cancelled", "idle"},
               pc' = [pc EXCEPT ![c] = next], round' = round
        PROVE  Fine'
    BY <2>0, <2>4 DEF AnsweredIsNotRejected
  <2>5. ASSUME NEW c \in Callers, Answer(c) \/ Fail(c) \/ Retry(c) \/ Cancel(c) \/ Done(c)
        PROVE  Fine'
    BY <2>4, <2>5 DEF Answer, Fail, Retry, Cancel, Done
  <2> QED
    BY <2>1, <2>2, <2>3, <2>5 DEF Next, Complete
<1> QED
  BY <1>1, <1>2, InvHolds, PTL DEF Spec

----------------------------------------------------------------------------
(* Why every call returns. *)

\* The attempts a call has left in this round and in those to come.
AttemptsLeft(c) == (MaxRounds - round[c]) * MaxAttempts + (MaxAttempts - attempt[c])

\* What a call has still before it: the outcome of the attempt under way, the sleep
\* before the next, and both for each attempt it has left.
CallLeft(c) ==
  CASE pc[c] = "calling" -> 2 + 2 * AttemptsLeft(c)
    [] pc[c] = "backoff" -> 1 + 2 * AttemptsLeft(c)
    [] OTHER             -> 0

\* Each step of a call brings its end closer, and no step of another call, of the
\* breaker or of the clock takes it further away: rounds inside of which attempts start
\* afresh cost more attempts than they bring (llm_provider.py:112, resilience.py:148).
CallsGetShorter ==
  [][\A c \in Callers : pc[c] \in InFlight =>
       /\ CallLeft(c)' <= CallLeft(c)
       /\ Complete(c) \/ Cancel(c) => CallLeft(c)' < CallLeft(c)]_vars

\* What is left of rounds and attempts is a number, and a round is worth MaxAttempts.
LEMMA AttemptsLeftType ==
  ASSUME Inv, NEW c \in Callers
  PROVE  /\ AttemptsLeft(c) \in Nat
         /\ (MaxRounds - round[c]) * MaxAttempts \in Nat
         /\ MaxAttempts - attempt[c] \in Nat
         /\ ~ LastRound(c) => (MaxRounds - round[c]) * MaxAttempts
              = (MaxRounds - (round[c] + 1)) * MaxAttempts + MaxAttempts
         /\ ~ LastRound(c) => (MaxRounds - (round[c] + 1)) * MaxAttempts \in Nat
<1>1. attempt[c] \in 0 .. MaxAttempts /\ round[c] \in 0 .. MaxRounds
  BY DEF Inv, TypeOK
<1>2. MaxAttempts \in Nat /\ MaxRounds \in Nat
  BY CallsAssumption
<1>3. MaxAttempts - attempt[c] \in Nat /\ MaxRounds - round[c] \in Nat
  BY <1>1, <1>2
<1>4. ASSUME NEW n \in Nat PROVE n * MaxAttempts \in Nat
  BY <1>2
<1>5. AttemptsLeft(c) \in Nat /\ (MaxRounds - round[c]) * MaxAttempts \in Nat
  BY <1>3, <1>4 DEF AttemptsLeft
<1>6. ASSUME ~ LastRound(c)
      PROVE  /\ (MaxRounds - round[c]) * MaxAttempts
                  = (MaxRounds - (round[c] + 1)) * MaxAttempts + MaxAttempts
             /\ (MaxRounds - (round[c] + 1)) * MaxAttempts \in Nat
  <2>1. MaxRounds - (round[c] + 1) \in Nat
        /\ MaxRounds - round[c] = (MaxRounds - (round[c] + 1)) + 1
    BY <1>1, <1>2, <1>6 DEF LastRound
  <2>2. ASSUME NEW n \in Nat PROVE (n + 1) * MaxAttempts = n * MaxAttempts + MaxAttempts
    BY <1>2
  <2> QED
    BY <1>4, <2>1, <2>2
<1> QED
  BY <1>3, <1>5, <1>6

\* The same of the next state.
LEMMA AttemptsLeftPrimed ==
  ASSUME Inv', NEW c \in Callers
  PROVE  AttemptsLeft(c)' \in Nat
<1>1. attempt'[c] \in 0 .. MaxAttempts /\ round'[c] \in 0 .. MaxRounds
  BY DEF Inv, TypeOK
<1>2. MaxAttempts \in Nat /\ MaxRounds \in Nat
  BY CallsAssumption
<1>3. MaxAttempts - attempt'[c] \in Nat /\ MaxRounds - round'[c] \in Nat
  BY <1>1, <1>2
<1>4. ASSUME NEW n \in Nat PROVE n * MaxAttempts \in Nat
  BY <1>2
<1> QED
  BY <1>3, <1>4 DEF AttemptsLeft

\* A call that is not in flight any more has nothing left, one in flight something.
LEMMA EndedHasNothing ==
  ASSUME Inv, NEW c \in Callers, pc[c] \in InFlight, pc'[c] \notin InFlight
  PROVE  CallLeft(c)' < CallLeft(c)
<1>1. CallLeft(c)' = 0
  BY DEF CallLeft, InFlight
<1>2. CallLeft(c) > 0
  BY AttemptsLeftType DEF CallLeft, InFlight
<1> QED
  BY <1>1, <1>2

\* The step of a call shortens it.
LEMMA CompleteShortens ==
  ASSUME Inv, NEW c \in Callers, Complete(c)
  PROVE  CallLeft(c)' < CallLeft(c)
<1>0. /\ pc \in [Callers -> {"idle"} \cup Ended \cup InFlight]
      /\ attempt \in [Callers -> 0 .. MaxAttempts] /\ round \in [Callers -> 0 .. MaxRounds]
  BY DEF Inv, TypeOK
<1>1. CASE Answer(c)
  BY <1>0, <1>1, EndedHasNothing DEF Answer, InFlight
<1>2. CASE InvalidAnswer(c) /\ LastRound(c)
  BY <1>0, <1>2, EndedHasNothing DEF InvalidAnswer, InFlight
<1>3. CASE InvalidAnswer(c) /\ ~ LastRound(c)
  <2>1. Read(Succeeded(breaker)).state # "open"
    BY DEF Succeeded, NewBreaker, Read
  <2>2. /\ pc[c] = "calling" /\ pc'[c] = "calling"
        /\ attempt'[c] = 1 /\ round'[c] = round[c] + 1
    BY <1>0, <1>3, <2>1 DEF InvalidAnswer, Enter
  <2>3. CallLeft(c) = 2 + 2 * AttemptsLeft(c)
    BY <2>2 DEF CallLeft
  <2> DEFINE rest == (MaxRounds - (round[c] + 1)) * MaxAttempts
  <2>4. CallLeft(c)' = 2 + 2 * (rest + (MaxAttempts - 1))
    BY <2>2 DEF CallLeft, AttemptsLeft
  <2>5. /\ rest \in Nat /\ MaxAttempts - attempt[c] \in Nat
        /\ AttemptsLeft(c) = (rest + MaxAttempts) + (MaxAttempts - attempt[c])
    BY <1>3, AttemptsLeftType DEF AttemptsLeft
  <2> HIDE DEF rest
  <2> QED
    BY <2>3, <2>4, <2>5, CallsAssumption
<1>4. CASE Fail(c) /\ attempt[c] >= MaxAttempts
  BY <1>0, <1>4, EndedHasNothing DEF Fail, InFlight
<1>5. CASE Fail(c) /\ ~ attempt[c] >= MaxAttempts
  <2>1. pc[c] = "calling" /\ pc'[c] = "backoff" /\ UNCHANGED <<attempt, round>>
    BY <1>0, <1>5 DEF Fail
  <2>2. AttemptsLeft(c)' = AttemptsLeft(c) /\ AttemptsLeft(c) \in Nat
    BY <2>1, AttemptsLeftType DEF AttemptsLeft
  <2>3. CallLeft(c) = 2 + 2 * AttemptsLeft(c) /\ CallLeft(c)' = 1 + 2 * AttemptsLeft(c)'
    BY <2>1 DEF CallLeft
  <2> QED
    BY <2>2, <2>3
<1>6. CASE Retry(c)
  <2>1. /\ pc[c] = "backoff" /\ pc'[c] = "calling" /\ UNCHANGED round
        /\ attempt'[c] = attempt[c] + 1
    BY <1>0, <1>6 DEF Retry
  <2>2. CallLeft(c) = 1 + 2 * AttemptsLeft(c) /\ CallLeft(c)' = 2 + 2 * AttemptsLeft(c)'
    BY <2>1 DEF CallLeft
  <2> DEFINE rest == (MaxRounds - round[c]) * MaxAttempts
  <2>3. /\ AttemptsLeft(c) = rest + (MaxAttempts - attempt[c])
        /\ AttemptsLeft(c)' = rest + (MaxAttempts - (attempt[c] + 1))
    BY <2>1 DEF AttemptsLeft
  <2>4. rest \in Nat /\ attempt[c] \in Nat /\ MaxAttempts \in Nat
    BY <1>0, AttemptsLeftType, CallsAssumption
  <2> HIDE DEF rest
  <2> QED
    BY <2>2, <2>3, <2>4
<1> QED
  BY <1>1, <1>2, <1>3, <1>4, <1>5, <1>6 DEF Complete

\* A step that leaves a call alone leaves it what it has before it.
LEMMA OthersLeave ==
  ASSUME Inv, NEW c \in Callers, [Next]_vars, ~ Complete(c), ~ Cancel(c), pc[c] \in InFlight
  PROVE  CallLeft(c)' = CallLeft(c)
<1>0. /\ pc \in [Callers -> {"idle"} \cup Ended \cup InFlight]
      /\ attempt \in [Callers -> 0 .. MaxAttempts] /\ round \in [Callers -> 0 .. MaxRounds]
  BY DEF Inv, TypeOK
<1>1. SUFFICES pc'[c] = pc[c] /\ attempt'[c] = attempt[c] /\ round'[c] = round[c]
  BY DEF CallLeft, AttemptsLeft
<1>2. CASE Tick \/ UNCHANGED vars
  BY <1>2 DEF Tick, vars
<1>3. ASSUME NEW d \in Callers \ {c}, Call(d) \/ InvalidAnswer(d)
      PROVE  pc'[c] = pc[c] /\ attempt'[c] = attempt[c] /\ round'[c] = round[c]
  BY <1>0, <1>3 DEF Call, InvalidAnswer, Enter
<1>4. ASSUME NEW d \in Callers \ {c}, Answer(d) \/ Fail(d) \/ Retry(d) \/ Cancel(d) \/ Done(d)
      PROVE  pc'[c] = pc[c] /\ attempt'[c] = attempt[c] /\ round'[c] = round[c]
  BY <1>0, <1>4 DEF Answer, Fail, Retry, Cancel, Done
<1>5. ~ Call(c) /\ ~ Done(c)
  BY DEF Call, Done, InFlight, Ended
<1> QED
  BY <1>2, <1>3, <1>4, <1>5 DEF Next, Complete

\* No call can go on for ever: the part of EveryCallReturns that is not fairness.
THEOREM EveryStepShortens == Spec => CallsGetShorter
<1>1. ASSUME Inv, [Next]_vars, NEW c \in Callers, pc[c] \in InFlight
      PROVE  /\ CallLeft(c)' <= CallLeft(c)
             /\ Complete(c) \/ Cancel(c) => CallLeft(c)' < CallLeft(c)
  <2>1. CallLeft(c) \in Nat
    BY <1>1, AttemptsLeftType DEF CallLeft
  <2>2. CASE Complete(c)
    <3>1. CallLeft(c)' < CallLeft(c)
      BY <1>1, <2>2, CompleteShortens
    <3>2. CallLeft(c)' \in Nat
      <4>1. Inv'
        BY <1>1, NextInv
      <4>2. AttemptsLeft(c)' \in Nat
        BY <1>1, <4>1, AttemptsLeftPrimed
      <4> QED
        BY <4>2 DEF CallLeft
    <3> QED
      BY <2>1, <3>1, <3>2
  <2>3. CASE Cancel(c)
    <3>1. pc'[c] = "cancelled"
      BY <1>1, <2>3 DEF Cancel, Inv, TypeOK
    <3>2. CallLeft(c)' < CallLeft(c) /\ CallLeft(c)' = 0
      BY <1>1, <3>1, EndedHasNothing DEF InFlight, CallLeft
    <3> QED
      BY <2>1, <3>2
  <2>4. CASE ~ Complete(c) /\ ~ Cancel(c)
    BY <1>1, <2>1, <2>4, OthersLeave
  <2> QED
    BY <2>2, <2>3, <2>4
<1>2. Inv /\ [Next]_vars =>
        [\A c \in Callers : pc[c] \in InFlight =>
           /\ CallLeft(c)' <= CallLeft(c)
           /\ Complete(c) \/ Cancel(c) => CallLeft(c)' < CallLeft(c)]_vars
  BY <1>1
<1> QED
  BY <1>2, InitInv, NextInv, PTL DEF Spec, CallsGetShorter
============================================================================
