---------------------------- MODULE Waits_proofs ----------------------------
(***************************************************************************)
(* Proofs about Waits, for any parameters and any run of the function.     *)
(*                                                                         *)
(* That the decorator never sleeps longer than was validated compares two  *)
(* loops, which are run one after the other: BudgetInv says that there is  *)
(* one sequence of delays, with its sums, that the first loop went through *)
(* and the second one follows.  The sequence grows with the first loop, so *)
(* that no induction over it is needed.  The sampler's bounds come from    *)
(* SamplerInv, which has one bound on the time and one on the age of the   *)
(* cluster's state for every place in its loop.                            *)
(***************************************************************************)
EXTENDS Waits, TLAPS

\* The places from the call of the function to the handling of its result.
InCall == {"command", "handle", "sample", "func", "check", "sleep"}

\* Every call is one of the tries.
Counted == p.kind = "retry" \/ p.text

\* The calls are the tries that are used up.
TriesInv ==
    /\ pc # "done" => outcome = "none"
    /\ pc = "validate" => p.kind = "retry"
    /\ p.tries > 0 => mtries > 0
    /\ (p.kind = "until" /\ pc \in InCall) => mtries > 1
    /\ pc \in {"validate", "call"} =>
         /\ calls >= p.tries - mtries
         /\ Counted => calls = p.tries - mtries
    /\ pc \in InCall =>
         /\ calls >= p.tries - mtries + 1
         /\ Counted => calls = p.tries - mtries + 1
    /\ AllTriesMade

\* d are the first m delays of a retry, and the next one, and s their sums.
Delays(d, s, m) ==
    /\ d[0] = p.delay /\ s[0] = 0
    /\ \A i \in Nat : i < m =>
         /\ d[i + 1] = Least(d[i] * p.backoff, p.max_delay)
         /\ s[i + 1] = s[i] + d[i]
         /\ s[i] <= s[m]

\* validate_retry_params has come to d[m], and retry to one of the delays before.
Follows(d, s, m) ==
    /\ Delays(d, s, m)
    /\ current_delay = d[m] /\ total_time = s[m]
    /\ p.kind = "retry" => mdelay = d[p.tries - mtries] /\ slept = s[p.tries - mtries]

\* retry sleeps for the delays that were validated.
BudgetInv ==
    /\ \E d, s \in [Nat -> Nat] : Follows(d, s, attempts)
    /\ (pc = "validate" \/ outcome = "ValueError") => mtries = p.tries
    /\ (p.kind = "retry" /\ pc # "validate" /\ outcome # "ValueError") => attempts = p.tries
    /\ outcome # "ValueError" => total_time <= p.max_timeout

\* How late it may be at each place of the sampler's loop.
TimeInv ==
    /\ pc = "sample" => elapsed = 0 \/ elapsed < p.timeout + p.sleep
    /\ pc = "func" => elapsed + left < p.timeout + MaxDur
    /\ pc = "check" => elapsed < p.timeout + MaxDur
    /\ pc = "sleep" => elapsed + left < p.timeout + p.sleep
    /\ TimelyTimeout

\* For how long the cluster may have been ready there, if the latest sample, the one
\* under way included, saw that it was not.
AgeInv ==
    /\ pc = "sample" /\ attempt = 0 => elapsed = 0
    /\ pc = "func" => left <= MaxDur
    /\ pc = "sleep" => left <= p.sleep
    /\ pc \in {"func", "check", "sleep"} => attempt > 0
    /\ (pc = "func" /\ saw = "unready" /\ ready) => age + left <= MaxDur
    /\ ready /\ ~last_exception =>
         /\ pc = "check" => age <= MaxDur
         /\ pc = "sleep" => age + left <= p.sleep + MaxDur
         /\ pc = "sample" /\ attempt > 0 => age <= p.sleep + MaxDur
    /\ NothingOverlooked

WaitsInv == TypeOK /\ TriesInv /\ BudgetInv /\ TimeInv /\ AgeInv

-----------------------------------------------------------------------------
(* Types.                                                                  *)

\* The fields of the parameters.
LEMMA Fields ==
    ASSUME TypeOK
    PROVE  /\ p.kind \in {"retry", "until"} /\ p.body \in {"command", "value", "status"}
           /\ p.text \in BOOLEAN /\ p.catch \in BOOLEAN
           /\ p.tries \in Nat /\ p.delay \in Nat /\ p.backoff \in Nat
           /\ p.max_timeout \in Nat /\ p.max_delay \in Nat
           /\ p.timeout \in Nat /\ p.sleep \in Nat
           /\ MaxDur \in Nat
BY WaitsAssumption DEF TypeOK, Parameters

\* The next delay is a number.
LEMMA NextDelay ==
    ASSUME NEW m \in Nat, NEW b \in Nat, NEW c \in Nat
    PROVE  m * b \in Nat /\ Least(m * b, c) \in Nat
BY DEF Least

\* The value of a call is one of the results.
LEMMA CaughtType ==
    \A r \in Results : catch_exceptions(r) \in Results
BY DEF catch_exceptions, Results

LEMMA InitType == ASSUME Init PROVE TypeOK
<1>1. p \in Parameters /\ MaxDur \in Nat
  BY WaitsAssumption DEF Init
<1>2. p.tries \in Nat /\ p.delay \in Nat /\ p.sleep \in Nat
  BY <1>1 DEF Parameters
<1>3. p \in Params /\ pc \in {"validate", "call"} /\ age = 0 /\ res = "none" /\ outcome = "none"
  BY DEF Init
<1>4. /\ attempts \in 0 .. p.tries /\ total_time \in Nat /\ current_delay \in Nat
      /\ mtries \in 0 .. p.tries /\ mdelay \in Nat /\ calls \in 0 .. p.tries + 1 /\ slept \in Nat
  BY <1>2 DEF Init
<1>5. elapsed \in Nat /\ attempt \in Nat /\ left \in Nat /\ age \in 0 .. MaxAge
  BY <1>1, <1>2, <1>3 DEF Init, MaxAge
<1>6. saw = "nothing" /\ last_exception \in BOOLEAN /\ ready \in BOOLEAN
  BY DEF Init
<1> QED BY <1>3, <1>4, <1>5, <1>6 DEF TypeOK, Results, Outcomes

\* The first loop.
LEMMA ValidateType ==
    ASSUME TypeOK, validate_retry_params \/ EndValidation
    PROVE  TypeOK'
<1>1. CASE validate_retry_params
  <2>1. attempts' \in 0 .. p.tries /\ total_time' \in Nat /\ current_delay' \in Nat
    BY <1>1, Fields, NextDelay DEF validate_retry_params, TypeOK
  <2>2. pc' \in {pc, "done"} /\ outcome' \in Outcomes
    BY <1>1 DEF validate_retry_params, End, TypeOK, Outcomes
  <2>3. UNCHANGED <<p, mtries, mdelay, calls, slept, res, elapsed, attempt, left, saw,
                    last_exception, ready, age>>
    BY <1>1 DEF validate_retry_params, loop, sampler, cluster
  <2> QED BY <2>1, <2>2, <2>3 DEF TypeOK, MaxAge
<1>2. CASE EndValidation
  BY <1>2 DEF EndValidation, validation, loop, sampler, cluster, TypeOK, MaxAge
<1> QED BY <1>1, <1>2

\* Sleeping counts a try.
LEMMA SleepType ==
    ASSUME TypeOK, NEW next \in Nat, Sleep(next), mtries > 1, p' = p
    PROVE  /\ mtries' \in 0 .. p'.tries /\ mdelay' \in Nat /\ slept' \in Nat
           /\ age' \in 0 .. MaxAge' /\ pc' = "call" /\ outcome' \in Outcomes
<1>1. /\ mtries \in Nat /\ mtries <= p.tries /\ mdelay \in Nat /\ slept \in Nat
      /\ age \in Nat /\ age <= MaxAge /\ MaxAge \in Nat /\ MaxAge' = MaxAge
      /\ p.tries \in Nat
  BY Fields DEF TypeOK, MaxAge
<1>2. mtries' \in 0 .. p.tries /\ mdelay' \in Nat /\ slept' \in Nat
  BY <1>1 DEF Sleep
<1>3. age' \in 0 .. MaxAge
  BY <1>1 DEF Sleep, Least
<1> QED BY <1>1, <1>2, <1>3 DEF Sleep, TypeOK

\* The decorators.
LEMMA DecoratorType ==
    ASSUME TypeOK, TriesInv, retry \/ retry_until_exception
    PROVE  TypeOK'
<1>1. UNCHANGED <<p, attempts, total_time, current_delay, calls, elapsed, attempt, left, saw,
                  last_exception, ready>>
  BY DEF retry, retry_until_exception, validation, sampler
<1>2. res' \in Results
  BY DEF retry, retry_until_exception, Results
<1>3. \/ \E next \in Nat : Sleep(next) /\ mtries > 1
      \/ /\ UNCHANGED <<mtries, mdelay, slept, age>>
         /\ pc' \in {"call", "done"} /\ outcome' \in Outcomes
  <2>1. mdelay \in Nat /\ p.backoff \in Nat /\ p.max_delay \in Nat
    BY Fields DEF TypeOK
  <2>2. mdelay * p.backoff \in Nat /\ Least(mdelay * p.backoff, p.max_delay) \in Nat
    BY <2>1, NextDelay
  <2>3. CASE retry
    BY <2>2, <2>3 DEF retry, MoreTries, End, TypeOK, Outcomes
  <2>4. CASE retry_until_exception
    <3>1. mtries > 1
      BY <2>4 DEF retry_until_exception, TriesInv, InCall
    <3> QED BY <2>2, <2>4, <3>1 DEF retry_until_exception, End, TypeOK, Outcomes
  <2> QED BY <2>3, <2>4
<1>4. CASE \E next \in Nat : Sleep(next) /\ mtries > 1
  <2>1. /\ mtries' \in 0 .. p'.tries /\ mdelay' \in Nat /\ slept' \in Nat
        /\ age' \in 0 .. MaxAge' /\ pc' = "call" /\ outcome' \in Outcomes
    BY <1>1, <1>4, SleepType
  <2> QED BY <1>1, <1>2, <2>1 DEF TypeOK
<1>5. CASE /\ UNCHANGED <<mtries, mdelay, slept, age>>
           /\ pc' \in {"call", "done"} /\ outcome' \in Outcomes
  BY <1>1, <1>2, <1>5 DEF TypeOK, MaxAge
<1> QED BY <1>3, <1>4, <1>5

\* The call of the function, and its end.
LEMMA CallType ==
    ASSUME TypeOK, Call \/ GiveUp \/ CommandEnds
    PROVE  TypeOK'
<1>1. CASE Call
  <2>1. calls' \in 0 .. p.tries + 1
    BY <1>1, Fields DEF Call, Least, TypeOK
  <2>2. /\ pc' \in {"command", "handle", "sample"} /\ res' \in Results
        /\ elapsed' \in Nat /\ attempt' \in Nat /\ left' = left /\ saw' = saw
        /\ last_exception' \in BOOLEAN
    <3>1. CASE p.body = "command"
      BY <1>1, <3>1 DEF Call, sampler, TypeOK
    <3>2. CASE p.body # "command" /\ ~SleepFits
      <4>1. catch_exceptions("other") \in Results
        BY CaughtType DEF Results
      <4>2. pc' = "handle" /\ res' = catch_exceptions("other") /\ UNCHANGED sampler
        BY <1>1, <3>2 DEF Call, Ended
      <4> QED BY <4>1, <4>2 DEF sampler, TypeOK
    <3>3. CASE p.body # "command" /\ SleepFits
      <4>1. /\ pc' = "sample" /\ elapsed' = 0 /\ attempt' = 0 /\ last_exception' = FALSE
            /\ UNCHANGED <<res, left, saw>>
        BY <1>1, <3>3, Zenon DEF Call
      <4> QED BY <4>1 DEF TypeOK
    <3> QED BY <3>1, <3>2, <3>3
  <2>3. UNCHANGED <<p, attempts, total_time, current_delay, mtries, mdelay, slept, outcome, ready, age>>
    BY <1>1 DEF Call, validation, cluster
  <2> QED BY <2>1, <2>2, <2>3 DEF TypeOK, MaxAge
<1>2. CASE GiveUp
  BY <1>2 DEF GiveUp, End, validation, loop, sampler, cluster, TypeOK, Outcomes, Results, MaxAge
<1>3. CASE CommandEnds
  <2>1. pc' = "handle" /\ res' \in Results
    BY <1>3, CaughtType DEF CommandEnds, Ended, Results
  <2> QED BY <1>3, <2>1 DEF CommandEnds, validation, loop, sampler, cluster, TypeOK, MaxAge
<1> QED BY <1>1, <1>2, <1>3

\* The sampler's loop, time and the cluster.
LEMMA SamplerType ==
    ASSUME TypeOK, Sample \/ Look \/ FuncEnds \/ Check \/ Wake \/ Tick \/ Change
    PROVE  TypeOK'
<1>1. /\ UNCHANGED <<p, attempts, total_time, current_delay, mtries, mdelay, calls, slept, outcome>>
      /\ MaxAge' = MaxAge
  BY DEF Sample, Look, FuncEnds, Check, Wake, Tick, Change, validation, loop, MaxAge
<1>2. CASE Sample
  <2>1. pc' \in {"handle", "func"} /\ res' \in Results
    BY <1>2, CaughtType DEF Sample, _raise_timeout, Ended, Results, TypeOK
  <2>2. attempt' \in Nat /\ left' \in Nat /\ saw' \in {saw, "nothing"}
    BY <1>2, Fields DEF Sample, TypeOK
  <2> QED BY <1>1, <1>2, <2>1, <2>2 DEF Sample, cluster, TypeOK
<1>3. CASE Look
  BY <1>1, <1>3 DEF Look, cluster, TypeOK
<1>4. CASE FuncEnds
  <2>1. pc' \in {"handle", "check"} /\ res' \in Results /\ last_exception' \in BOOLEAN
    BY <1>4, CaughtType DEF FuncEnds, Ended, Results, TypeOK
  <2> QED BY <1>1, <1>4, <2>1 DEF FuncEnds, cluster, TypeOK
<1>5. CASE Check
  <2>1. pc' \in {"handle", "sleep"} /\ res' \in Results /\ left' \in Nat
    BY <1>5, CaughtType, Fields DEF Check, _raise_timeout, Ended, Results, TypeOK
  <2> QED BY <1>1, <1>5, <2>1 DEF Check, cluster, TypeOK
<1>6. CASE Wake
  BY <1>1, <1>6 DEF Wake, sampler, cluster, TypeOK
<1>7. CASE Tick
  <2>1. left' \in Nat /\ elapsed' \in Nat
    BY <1>7 DEF Tick, TypeOK
  <2>2. age' \in 0 .. MaxAge
    BY <1>7, Fields DEF Tick, Least, TypeOK, MaxAge
  <2> QED BY <1>1, <1>7, <2>1, <2>2 DEF Tick, TypeOK
<1>8. CASE Change
  <2>1. age' \in 0 .. MaxAge /\ ready' \in BOOLEAN
    BY <1>8, Fields DEF Change, TypeOK, MaxAge
  <2> QED BY <1>1, <1>8, <2>1 DEF Change, sampler, TypeOK
<1> QED BY <1>2, <1>3, <1>4, <1>5, <1>6, <1>7, <1>8

\* Every step keeps the types.
LEMMA NextType == ASSUME TypeOK, TriesInv, [Next]_vars PROVE TypeOK'
<1>1. CASE UNCHANGED vars
  BY <1>1 DEF vars, validation, loop, sampler, cluster, TypeOK, MaxAge
<1> QED BY <1>1, ValidateType, CallType, DecoratorType, SamplerType DEF Next, Thread, Terminated

-----------------------------------------------------------------------------
(* The tries.                                                              *)

LEMMA InitTries == ASSUME Init, TypeOK PROVE TriesInv
<1>1. p.tries \in Nat
  BY Fields
<1> QED BY <1>1 DEF Init, TriesInv, AllTriesMade, InCall, Most

\* The steps between the call and its result do not count.
LEMMA InsideTries ==
    ASSUME TypeOK, TriesInv, UNCHANGED <<p, mtries, calls, outcome>>,
           pc' = pc \/ (pc \in InCall /\ pc' \in InCall)
    PROVE  TriesInv'
BY DEF TriesInv, AllTriesMade, Counted, InCall, Most

\* A call is counted.
LEMMA CallTries == ASSUME TypeOK, TriesInv, Call PROVE TriesInv'
<1>1. /\ UNCHANGED <<p, mtries, outcome>> /\ pc = "call" /\ pc' \in InCall
      /\ calls' = Least(calls + 1, p.tries + 1)
      /\ p.kind = "until" => mtries > 1
  BY DEF Call, Ended, InCall
<1>2. p.tries \in Nat /\ mtries \in Nat /\ mtries <= p.tries /\ calls \in Nat
  BY Fields DEF TypeOK
<1>3. calls >= p.tries - mtries /\ (Counted => calls = p.tries - mtries)
  BY <1>1 DEF TriesInv
<1>4. calls' >= p.tries - mtries + 1 /\ (Counted => calls' = p.tries - mtries + 1)
  BY <1>1, <1>2, <1>3 DEF Least
<1>5. Counted' = Counted
  BY <1>1 DEF Counted
<1>6. outcome' = "none" /\ pc' \notin {"validate", "call", "done"}
  BY <1>1 DEF TriesInv, InCall
<1>7. Counted => calls' <= Most(p.tries, 1)
  BY <1>1, <1>2, <1>4 DEF Most, TriesInv, Counted
<1>8. AllTriesMade'
  <2>1. p.kind \in {"retry", "until"}
    BY Fields
  <2> QED BY <1>1, <1>6, <1>7, <2>1 DEF AllTriesMade, Counted
<1> QED BY <1>1, <1>4, <1>5, <1>6, <1>8 DEF TriesInv

\* A try is used up.
LEMMA SleepTries ==
    ASSUME TypeOK, TriesInv, NEW next, Sleep(next), mtries > 1, pc \in InCall,
           UNCHANGED <<p, calls>>
    PROVE  TriesInv'
<1>1. /\ pc' = "call" /\ outcome' = outcome /\ mtries' = mtries - 1
  BY DEF Sleep
<1>2. p.tries \in Nat /\ mtries \in Nat /\ mtries <= p.tries /\ calls \in Nat
  BY Fields DEF TypeOK
<1>3. outcome = "none" /\ calls >= p.tries - mtries + 1 /\ (Counted => calls = p.tries - mtries + 1)
  BY DEF TriesInv, InCall
<1>4. calls >= p.tries - mtries' /\ (Counted => calls = p.tries - mtries') /\ mtries' > 0
  BY <1>1, <1>2, <1>3
<1>5. AllTriesMade' /\ Counted' = Counted
  BY <1>1 DEF TriesInv, AllTriesMade, Counted
<1> QED BY <1>1, <1>3, <1>4, <1>5 DEF TriesInv, InCall

\* The decorator gets a result.
LEMMA DecoratorTries ==
    ASSUME TypeOK, TriesInv, retry \/ retry_until_exception
    PROVE  TriesInv'
<1>1. UNCHANGED <<p, calls>> /\ pc = "handle" /\ pc \in InCall
  BY DEF retry, retry_until_exception, InCall
<1>2. p.tries \in Nat /\ mtries \in Nat /\ mtries <= p.tries /\ calls \in Nat
  BY Fields DEF TypeOK
<1>3. /\ calls >= p.tries - mtries + 1 /\ (Counted => calls = p.tries - mtries + 1)
      /\ p.tries > 0 => mtries > 0
  BY <1>1 DEF TriesInv
<1>4. \A next : Sleep(next) /\ mtries > 1 => TriesInv'
  BY <1>1, SleepTries
<1>5. CASE retry
  <2>1. CASE IsChecked /\ HasText /\ MoreTries
    <3>1. mtries > 1 /\ Sleep(Least(mdelay * p.backoff, p.max_delay))
      BY <1>5, <2>1 DEF retry, MoreTries
    <3> QED BY <1>4, <3>1
  <2>2. CASE ~(IsChecked /\ HasText /\ MoreTries)
    <3>1. pc' = "done" /\ outcome' = res /\ mtries' = mtries /\ p.kind = "retry"
      BY <1>5, <2>2 DEF retry, End
    <3>2. outcome' \in {"timeout", "checked"} \/ (outcome' = "mismatch" /\ ~p.text) => mtries <= 1
      BY <1>2, <2>2, <3>1 DEF IsChecked, HasText, MoreTries
    <3>3. calls = p.tries - mtries + 1
      BY <1>3, <3>1 DEF Counted
    <3>4. mtries <= 1 => calls = Most(p.tries, 1)
      BY <1>2, <1>3, <3>3 DEF Most
    <3>5. calls <= Most(p.tries, 1)
      BY <1>2, <1>3, <3>3 DEF Most
    <3>6. AllTriesMade'
      BY <1>1, <3>1, <3>2, <3>4, <3>5 DEF AllTriesMade
    <3> QED BY <1>1, <1>3, <3>1, <3>6 DEF TriesInv, InCall
  <2> QED BY <2>1, <2>2
<1>6. CASE retry_until_exception
  <2>1. mtries > 1 /\ p.kind = "until"
    BY <1>1, <1>6 DEF retry_until_exception, TriesInv
  <2>2. CASE res \in {"value", "None", "False"} /\ Sleep(mdelay * p.backoff)
    BY <1>4, <2>1, <2>2
  <2>3. CASE pc' = "call" /\ UNCHANGED <<outcome, mtries>> /\ ~p.text
    <3>1. calls >= p.tries - mtries
      BY <1>2, <1>3
    <3>2. AllTriesMade'
      BY <1>1, <2>3 DEF TriesInv, AllTriesMade
    <3> QED BY <1>1, <2>1, <2>3, <3>1, <3>2 DEF TriesInv, InCall, Counted
  <2>4. CASE pc' = "done" /\ mtries' = mtries /\ outcome' # "False"
    <3>1. Counted => calls <= Most(p.tries, 1)
      BY <1>2, <1>3, <2>1 DEF Most
    <3>2. AllTriesMade'
      BY <1>1, <2>1, <2>4, <3>1 DEF AllTriesMade, Counted
    <3> QED BY <1>1, <1>3, <2>4, <3>2 DEF TriesInv, InCall
  <2> QED BY <1>6, <2>2, <2>3, <2>4 DEF retry_until_exception, End, IsChecked
<1> QED BY <1>5, <1>6

LEMMA NextTries == ASSUME TypeOK, TriesInv, [Next]_vars PROVE TriesInv'
<1>1. CASE validate_retry_params
  <2>1. /\ UNCHANGED <<p, mtries, calls>> /\ p.kind = "retry"
        /\ \/ pc' = pc /\ outcome' = outcome
           \/ pc' = "done" /\ outcome' = "ValueError" /\ outcome = "none"
    BY <1>1 DEF validate_retry_params, End, loop, TriesInv
  <2>2. CASE pc' = pc /\ outcome' = outcome
    BY <2>1, <2>2, InsideTries
  <2>3. CASE pc' = "done" /\ outcome' = "ValueError"
    BY <2>1, <2>3 DEF TriesInv, AllTriesMade, InCall
  <2> QED BY <2>1, <2>2, <2>3
<1>2. CASE EndValidation
  <2>1. UNCHANGED <<p, mtries, calls, outcome>> /\ pc = "validate" /\ pc' = "call"
    BY <1>2 DEF EndValidation, loop
  <2> QED BY <2>1 DEF TriesInv, AllTriesMade, InCall, Counted
<1>3. CASE Call
  BY <1>3, CallTries
<1>4. CASE GiveUp
  <2>1. /\ UNCHANGED <<p, mtries, calls>> /\ pc = "call" /\ pc' = "done" /\ outcome' = "False"
        /\ p.kind = "until" /\ mtries <= 1
    BY <1>4 DEF GiveUp, End, loop
  <2>2. p.tries \in Nat /\ mtries \in Nat /\ mtries <= p.tries /\ calls \in Nat
    BY Fields DEF TypeOK
  <2>3. calls >= p.tries - mtries /\ (Counted => calls = p.tries - mtries)
    BY <2>1 DEF TriesInv
  <2>4. calls >= p.tries - 1 /\ (Counted => calls <= Most(p.tries, 1))
    BY <2>1, <2>2, <2>3 DEF Most
  <2>5. AllTriesMade'
    BY <2>1, <2>4 DEF AllTriesMade, Counted
  <2> QED BY <2>1, <2>5 DEF TriesInv, InCall
<1>5. CASE retry \/ retry_until_exception
  BY <1>5, DecoratorTries
<1>6. CASE CommandEnds
  BY <1>6, InsideTries DEF CommandEnds, Ended, loop, InCall
<1>7. CASE Sample \/ Look \/ FuncEnds \/ Check \/ Wake
  BY <1>7, InsideTries
     DEF Sample, Look, FuncEnds, Check, Wake, _raise_timeout, Ended, loop, InCall
<1>8. CASE Tick \/ Change \/ UNCHANGED vars
  BY <1>8, InsideTries DEF Tick, Change, vars, loop
<1> QED BY <1>1, <1>2, <1>3, <1>4, <1>5, <1>6, <1>7, <1>8 DEF Next, Thread, Terminated

-----------------------------------------------------------------------------
(* The delays.                                                             *)

\* The delays e, with their sums t, are the delays d and one more.
OneMore(e, t, d, s, m) ==
    /\ Delays(e, t, m + 1)
    /\ e[m + 1] = Least(d[m] * p.backoff, p.max_delay) /\ t[m + 1] = s[m] + d[m]
    /\ \A i \in Nat : i <= m => e[i] = d[i] /\ t[i] = s[i]

\* There always are delays that go one further.
LEMMA OneDelayMore ==
    ASSUME TypeOK
    PROVE  \A d, s \in [Nat -> Nat], m \in Nat :
             Delays(d, s, m) => \E e, t \in [Nat -> Nat] : OneMore(e, t, d, s, m)
<1> TAKE d, s \in [Nat -> Nat], m \in Nat
<1> HAVE Delays(d, s, m)
<1>1. d[m] \in Nat /\ s[m] \in Nat /\ p.backoff \in Nat /\ p.max_delay \in Nat /\ m + 1 \in Nat
  BY Fields
<1>2. PICK x \in Nat : x = Least(d[m] * p.backoff, p.max_delay)
  BY <1>1, NextDelay
<1>3. PICK y \in Nat : y = s[m] + d[m]
  BY <1>1
<1>4. PICK e \in [Nat -> Nat] : e = [d EXCEPT ![m + 1] = x]
  BY <1>1, <1>2
<1>5. PICK t \in [Nat -> Nat] : t = [s EXCEPT ![m + 1] = y]
  BY <1>1, <1>3
<1>6. /\ e[m + 1] = x /\ t[m + 1] = y
      /\ \A i \in Nat : i <= m => e[i] = d[i] /\ t[i] = s[i]
  BY <1>4, <1>5
<1>7. Delays(e, t, m + 1)
  <2>1. e[0] = p.delay /\ t[0] = 0
    BY <1>6 DEF Delays
  <2>2. ASSUME NEW i \in Nat, i < m + 1
        PROVE  /\ e[i + 1] = Least(e[i] * p.backoff, p.max_delay)
               /\ t[i + 1] = t[i] + e[i]
               /\ t[i] <= t[m + 1]
    <3>1. e[i] = d[i] /\ t[i] = s[i] /\ d[i] \in Nat /\ s[i] \in Nat
      BY <1>6, <2>2
    <3>2. CASE i < m
      <4>1. e[i + 1] = d[i + 1] /\ t[i + 1] = s[i + 1]
        BY <1>6, <3>2
      <4>2. /\ d[i + 1] = Least(d[i] * p.backoff, p.max_delay)
            /\ s[i + 1] = s[i] + d[i] /\ s[i] <= s[m]
        BY <3>2 DEF Delays
      <4>3. t[i] <= t[m + 1]
        BY <1>1, <1>3, <1>6, <3>1, <4>2
      <4> QED BY <3>1, <4>1, <4>2, <4>3
    <3>3. CASE i = m
      <4>1. e[i + 1] = Least(e[i] * p.backoff, p.max_delay) /\ t[i + 1] = t[i] + e[i]
        BY <1>2, <1>3, <1>6, <3>1, <3>3
      <4>2. t[i] <= t[m + 1]
        BY <1>1, <1>3, <1>6, <3>1, <3>3
      <4> QED BY <4>1, <4>2
    <3> QED BY <2>2, <3>2, <3>3
  <2> QED BY <2>1, <2>2 DEF Delays
<1> QED BY <1>2, <1>3, <1>6, <1>7 DEF OneMore

LEMMA InitBudget == ASSUME Init, TypeOK PROVE BudgetInv
<1>1. p.delay \in Nat /\ p.tries \in Nat /\ p.max_timeout \in Nat
  BY Fields
<1>2. PICK d \in [Nat -> Nat] : d = [i \in Nat |-> p.delay]
  BY <1>1
<1>3. PICK s \in [Nat -> Nat] : s = [i \in Nat |-> 0]
  OBVIOUS
<1>4. d[0] = p.delay /\ s[0] = 0
  BY <1>2, <1>3
<1>5. Delays(d, s, 0)
  BY <1>4 DEF Delays
<1>6. Follows(d, s, attempts)
  <2>1. p.tries - mtries = 0 /\ attempts = 0
    BY <1>1 DEF Init
  <2> QED BY <1>4, <1>5, <2>1 DEF Init, Follows
<1>7. /\ pc = "validate" \/ p.kind # "retry"
      /\ mtries = p.tries /\ outcome = "none" /\ total_time = 0
  BY DEF Init
<1> QED BY <1>1, <1>6, <1>7 DEF BudgetInv

\* A round of the validation.
LEMMA ValidateBudget ==
    ASSUME TypeOK, TriesInv, BudgetInv, validate_retry_params
    PROVE  BudgetInv'
<1>1. /\ UNCHANGED <<p, mtries, mdelay, slept>> /\ pc = "validate" /\ p.kind = "retry"
      /\ attempts' = attempts + 1 /\ total_time' = total_time + current_delay
      /\ current_delay' = Least(current_delay * p.backoff, p.max_delay)
      /\ \/ total_time' <= p.max_timeout /\ pc' = pc /\ outcome' = outcome
         \/ outcome' = "ValueError"
  <2>1. total_time + current_delay > p.max_timeout \/ total_time + current_delay <= p.max_timeout
    BY Fields DEF TypeOK
  <2> QED BY <2>1 DEF validate_retry_params, End, loop, TriesInv
<1>2. attempts \in Nat /\ p.tries \in Nat
  BY Fields DEF TypeOK
<1>3. PICK d, s \in [Nat -> Nat] : Follows(d, s, attempts)
  BY DEF BudgetInv
<1>4. Delays(d, s, attempts) /\ current_delay = d[attempts] /\ total_time = s[attempts]
  BY <1>3 DEF Follows
<1>5. PICK e, t \in [Nat -> Nat] : OneMore(e, t, d, s, attempts)
  BY <1>2, <1>4, OneDelayMore, Zenon
<1>6. /\ Delays(e, t, attempts + 1)
      /\ e[attempts + 1] = Least(d[attempts] * p.backoff, p.max_delay)
      /\ t[attempts + 1] = s[attempts] + d[attempts]
      /\ \A i \in Nat : i <= attempts => e[i] = d[i] /\ t[i] = s[i]
  BY <1>5 DEF OneMore
<1>7. mtries = p.tries /\ p.tries - mtries = 0
  BY <1>1, <1>2 DEF BudgetInv
<1>8. mdelay = e[p.tries - mtries] /\ slept = t[p.tries - mtries]
  BY <1>1, <1>2, <1>3, <1>6, <1>7 DEF Follows
<1>9. Follows(e, t, attempts)'
  BY <1>1, <1>4, <1>6, <1>8 DEF Follows, Delays
<1>10. \E dd, ss \in [Nat -> Nat] : Follows(dd, ss, attempts)'
  BY <1>6, <1>9
<1> QED BY <1>1, <1>7, <1>10 DEF BudgetInv

\* retry sleeps for the next one of the delays.
LEMMA RetryBudgetStep ==
    ASSUME TypeOK, TriesInv, BudgetInv, retry, IsChecked /\ HasText /\ MoreTries
    PROVE  BudgetInv'
<1>1. /\ UNCHANGED <<p, attempts, total_time, current_delay>> /\ pc = "handle" /\ p.kind = "retry"
      /\ pc' = "call" /\ outcome' = outcome /\ outcome = "none"
      /\ slept' = slept + mdelay /\ mtries' = mtries - 1 /\ mtries > 1
      /\ mdelay' = Least(mdelay * p.backoff, p.max_delay)
  BY DEF retry, Sleep, validation, MoreTries, TriesInv
<1>2. mtries \in Nat /\ mtries <= p.tries /\ p.tries \in Nat
  BY Fields DEF TypeOK
<1>3. attempts = p.tries
  BY <1>1 DEF BudgetInv
<1>4. PICK d, s \in [Nat -> Nat] : Follows(d, s, attempts)
  BY DEF BudgetInv
<1>5. PICK i \in Nat : i = p.tries - mtries
  BY <1>2
<1>6. i < attempts /\ i + 1 = p.tries - mtries'
  BY <1>1, <1>2, <1>3, <1>5
<1>7. mdelay = d[i] /\ slept = s[i]
  BY <1>1, <1>4, <1>5 DEF Follows
<1>8. d[i + 1] = Least(d[i] * p.backoff, p.max_delay) /\ s[i + 1] = s[i] + d[i]
  BY <1>4, <1>6 DEF Follows, Delays
<1>9. mdelay' = d[p'.tries - mtries'] /\ slept' = s[p'.tries - mtries']
  BY <1>1, <1>6, <1>7, <1>8
<1>10. Follows(d, s, attempts)'
  BY <1>1, <1>4, <1>9 DEF Follows, Delays
<1>11. \E dd, ss \in [Nat -> Nat] : Follows(dd, ss, attempts)'
  BY <1>10
<1> QED BY <1>1, <1>3, <1>11 DEF BudgetInv

\* The steps that touch neither loop, and those of retry_until_exception.
LEMMA ElsewhereBudget ==
    ASSUME TypeOK, BudgetInv, UNCHANGED <<p, attempts, total_time, current_delay>>,
           p.kind = "until" \/ UNCHANGED <<mtries, mdelay, slept>>,
           p.kind = "retry" => (pc' = "validate" <=> pc = "validate"),
           p.kind = "until" => pc' # "validate",
           outcome' = outcome \/ (outcome' # "ValueError" /\ outcome # "ValueError"),
           p.kind = "until" => outcome' # "ValueError"
    PROVE  BudgetInv'
<1>1. PICK d, s \in [Nat -> Nat] : Follows(d, s, attempts)
  BY DEF BudgetInv
<1>2. Follows(d, s, attempts)'
  BY <1>1 DEF Follows, Delays
<1>3. \E dd, ss \in [Nat -> Nat] : Follows(dd, ss, attempts)'
  BY <1>2
<1>4. CASE p.kind = "until"
  BY <1>3, <1>4 DEF BudgetInv
<1>5. CASE p.kind = "retry" /\ UNCHANGED <<mtries, mdelay, slept>>
  BY <1>3, <1>5 DEF BudgetInv
<1> QED BY <1>4, <1>5, Fields

LEMMA NextBudget == ASSUME TypeOK, TriesInv, BudgetInv, [Next]_vars PROVE BudgetInv'
<1>0. p.kind \in {"retry", "until"} /\ (p.kind = "until" => pc # "validate")
  BY Fields DEF TriesInv
<1>1. CASE validate_retry_params
  BY <1>1, ValidateBudget
<1>2. CASE EndValidation
  <2>1. /\ UNCHANGED <<p, attempts, total_time, current_delay, mtries, mdelay, slept, outcome>>
        /\ pc' = "call" /\ attempts = p.tries
    BY <1>2 DEF EndValidation, validation, loop
  <2>2. PICK d, s \in [Nat -> Nat] : Follows(d, s, attempts)
    BY DEF BudgetInv
  <2>3. Follows(d, s, attempts)'
    BY <2>1, <2>2 DEF Follows, Delays
  <2>4. \E dd, ss \in [Nat -> Nat] : Follows(dd, ss, attempts)'
    BY <2>3
  <2> QED BY <2>1, <2>4 DEF BudgetInv
<1>3. CASE retry
  <2>1. CASE IsChecked /\ HasText /\ MoreTries
    BY <1>3, <2>1, RetryBudgetStep
  <2>2. CASE ~(IsChecked /\ HasText /\ MoreTries)
    <3>1. /\ UNCHANGED <<p, attempts, total_time, current_delay, mtries, mdelay, slept>>
          /\ pc = "handle" /\ pc' = "done" /\ outcome' = res /\ outcome = "none"
          /\ p.kind = "retry" /\ res # "ValueError"
      BY <1>3, <2>2 DEF retry, End, validation, TriesInv, TypeOK, Results
    <3> QED BY <3>1, ElsewhereBudget
  <2> QED BY <2>1, <2>2
<1>4. CASE retry_until_exception
  <2>1. /\ UNCHANGED <<p, attempts, total_time, current_delay>> /\ p.kind = "until"
        /\ pc = "handle" /\ pc' \in {"call", "done"} /\ outcome = "none"
    BY <1>4 DEF retry_until_exception, Sleep, End, validation, TriesInv
  <2>2. outcome' # "ValueError"
    BY <1>4, <2>1 DEF retry_until_exception, Sleep, End, TypeOK, Results
  <2> QED BY <2>1, <2>2, ElsewhereBudget
<1>5. CASE Call
  <2>1. /\ UNCHANGED <<p, attempts, total_time, current_delay, mtries, mdelay, slept, outcome>>
        /\ pc = "call" /\ pc' \in {"command", "handle", "sample"} /\ outcome = "none"
    BY <1>5 DEF Call, Ended, validation, TriesInv
  <2> QED BY <2>1, ElsewhereBudget
<1>6. CASE GiveUp
  <2>1. /\ UNCHANGED <<p, attempts, total_time, current_delay, mtries, mdelay, slept>>
        /\ pc = "call" /\ pc' = "done" /\ outcome' = "False" /\ outcome = "none"
    BY <1>6 DEF GiveUp, End, validation, loop, TriesInv
  <2> QED BY <2>1, ElsewhereBudget
<1>7. CASE CommandEnds \/ Sample \/ FuncEnds \/ Check \/ Wake
  <2>1. /\ UNCHANGED <<p, attempts, total_time, current_delay, mtries, mdelay, slept, outcome>>
        /\ pc # "validate" /\ pc' # "validate" /\ outcome = "none"
    BY <1>7 DEF CommandEnds, Sample, FuncEnds, Check, Wake, _raise_timeout, Ended, validation, loop,
                TriesInv
  <2> QED BY <2>1, ElsewhereBudget
<1>8. CASE Look \/ Tick \/ Change \/ UNCHANGED vars
  <2>1. UNCHANGED <<p, pc, attempts, total_time, current_delay, mtries, mdelay, slept, outcome>>
    BY <1>8 DEF Look, Tick, Change, vars, validation, loop
  <2>2. CASE p.kind = "retry"
    BY <2>1, <2>2, ElsewhereBudget
  <2>3. CASE p.kind = "until"
    <3>1. PICK d, s \in [Nat -> Nat] : Follows(d, s, attempts)
      BY DEF BudgetInv
    <3>2. Follows(d, s, attempts)'
      BY <2>1, <3>1 DEF Follows, Delays
    <3>3. \E dd, ss \in [Nat -> Nat] : Follows(dd, ss, attempts)'
      BY <3>2
    <3> QED BY <2>1, <3>3 DEF BudgetInv
  <2> QED BY <1>0, <2>2, <2>3
<1> QED BY <1>1, <1>2, <1>3, <1>4, <1>5, <1>6, <1>7, <1>8 DEF Next, Thread, Terminated

-----------------------------------------------------------------------------
(* The sampler.                                                            *)

\* What the sampler's loop does to the time and the age.
Numeric ==
    /\ p.timeout \in Nat /\ p.sleep \in Nat /\ MaxDur \in Nat
    /\ elapsed \in Nat /\ attempt \in Nat /\ left \in Nat /\ age \in Nat

LEMMA Numbers == ASSUME TypeOK PROVE Numeric
<1>1. age \in Nat
  BY Fields DEF TypeOK, MaxAge
<1> QED BY <1>1, Fields DEF Numeric, TypeOK

\* A tick: one more of age and one less of what is left.
LEMMA Older ==
    \A a, b, l, k, m \in Nat : a + l <= m /\ b <= a + 1 /\ l = k + 1 => b + k <= m
  OBVIOUS

\* The result of a call that did not time out.
LEMMA NotTimedOut ==
    \A r \in {"value", "None", "checked", "mismatch", "other"} :
        catch_exceptions(r) \notin {"timeout", "False"}
BY DEF catch_exceptions

LEMMA InitSampler == ASSUME Init PROVE TimeInv /\ AgeInv
BY DEF Init, TimeInv, AgeInv, TimelyTimeout, NothingOverlooked, SamplerTimedOut

\* Outside of its loop and of what it raised the sampler has no say.
LEMMA OutsideSampler ==
    ASSUME pc' \notin {"sample", "func", "check", "sleep", "handle"}
           \/ (pc' = "handle" /\ res' \notin {"timeout", "False"})
    PROVE  TimeInv' /\ AgeInv'
BY DEF TimeInv, AgeInv, TimelyTimeout, NothingOverlooked, SamplerTimedOut

LEMMA NextSampler ==
    ASSUME TypeOK, TypeOK', TriesInv, TimeInv, AgeInv, [Next]_vars
    PROVE  TimeInv' /\ AgeInv'
<1>0. Numeric /\ Numeric'
  <2>1. p' \in Parameters /\ MaxDur \in Nat
    BY WaitsAssumption DEF TypeOK
  <2>2. p'.timeout \in Nat /\ p'.sleep \in Nat
    BY <2>1 DEF Parameters
  <2>3. Numeric'
    BY <2>1, <2>2 DEF TypeOK, MaxAge, Numeric
  <2> QED BY <2>3, Numbers
<1>1. CASE validate_retry_params \/ EndValidation
  BY <1>1, OutsideSampler DEF validate_retry_params, EndValidation, End
<1>2. CASE GiveUp \/ retry \/ retry_until_exception
  BY <1>2, OutsideSampler DEF GiveUp, retry, retry_until_exception, Sleep, End
<1>3. CASE CommandEnds
  <2>1. pc' = "handle" /\ res' \notin {"timeout", "False"}
    BY <1>3, NotTimedOut DEF CommandEnds, Ended
  <2> QED BY <2>1, OutsideSampler
<1>4. CASE Call
  <2>1. CASE p.body = "command"
    BY <1>4, <2>1, OutsideSampler DEF Call
  <2>2. CASE p.body # "command" /\ ~SleepFits
    <3>1. pc' = "handle" /\ res' \notin {"timeout", "False"}
      BY <1>4, <2>2, NotTimedOut DEF Call, Ended
    <3> QED BY <3>1, OutsideSampler
  <2>3. CASE p.body # "command" /\ SleepFits
    <3>1. pc' = "sample" /\ elapsed' = 0 /\ attempt' = 0
      BY <1>4, <2>3, Zenon DEF Call
    <3> QED BY <3>1 DEF TimeInv, AgeInv, TimelyTimeout, NothingOverlooked, SamplerTimedOut
  <2> QED BY <2>1, <2>2, <2>3
<1>5. CASE Sample
  <2>1. UNCHANGED <<p, elapsed, last_exception, ready, age>> /\ pc = "sample"
    BY <1>5 DEF Sample, cluster
  <2>2. CASE TimedOut
    <3>1. pc' = "handle" /\ UNCHANGED <<attempt, left, saw>>
      BY <1>5, <2>2 DEF Sample, _raise_timeout, Ended
    <3>2. TimelyTimeout'
      BY <1>0, <2>1, <2>2 DEF TimeInv, TimelyTimeout, TimedOut, Most, Numeric
    <3>3. NothingOverlooked'
      BY <1>0, <2>1, <2>2, <3>1 DEF AgeInv, NothingOverlooked, TimedOut, Numeric
    <3> QED BY <3>1, <3>2, <3>3 DEF TimeInv, AgeInv
  <2>3. CASE ~TimedOut
    <3>1. pc' = "func" /\ attempt' = attempt + 1 /\ left' \in 0 .. MaxDur /\ saw' = "nothing"
      BY <1>5, <2>3 DEF Sample
    <3>2. TimeInv'
      BY <1>0, <2>1, <2>3, <3>1 DEF TimeInv, TimelyTimeout, SamplerTimedOut, TimedOut, Numeric
    <3>3. AgeInv'
      BY <1>0, <2>1, <3>1 DEF AgeInv, NothingOverlooked, SamplerTimedOut, Numeric
    <3> QED BY <3>2, <3>3
  <2> QED BY <2>2, <2>3
<1>6. CASE Look
  <2>1. UNCHANGED <<p, pc, res, elapsed, attempt, left, last_exception, ready, age>> /\ pc = "func"
    BY <1>6 DEF Look, cluster
  <2>2. saw' = "unready" => ~ready
    BY <1>6 DEF Look
  <2> QED BY <2>1, <2>2
          DEF TimeInv, AgeInv, TimelyTimeout, NothingOverlooked, SamplerTimedOut
<1>7. CASE FuncEnds
  <2>1. /\ UNCHANGED <<p, elapsed, attempt, left, saw, ready, age>> /\ pc = "func" /\ left = 0
        /\ saw # "nothing" /\ last_exception' = (saw = "exception")
    BY <1>7 DEF FuncEnds, cluster
  <2>2. CASE saw = "ready"
    <3>1. pc' = "handle" /\ res' \notin {"timeout", "False"}
      BY <1>7, <2>2, NotTimedOut DEF FuncEnds, Ended
    <3> QED BY <3>1, OutsideSampler
  <2>3. CASE saw # "ready"
    <3>1. pc' = "check"
      BY <1>7, <2>3 DEF FuncEnds
    <3>2. TimeInv'
      BY <1>0, <2>1, <3>1 DEF TimeInv, TimelyTimeout, SamplerTimedOut, Numeric
    <3>3. saw = "unready" \/ last_exception'
      BY <2>1, <2>3 DEF TypeOK
    <3>4. AgeInv'
      BY <1>0, <2>1, <3>1, <3>3 DEF AgeInv, NothingOverlooked, SamplerTimedOut, Numeric
    <3> QED BY <3>2, <3>4
  <2> QED BY <2>2, <2>3
<1>8. CASE Check
  <2>1. UNCHANGED <<p, elapsed, attempt, saw, last_exception, ready, age>> /\ pc = "check"
    BY <1>8 DEF Check, cluster
  <2>2. CASE TimedOut
    <3>1. pc' = "handle"
      BY <1>8, <2>2 DEF Check, _raise_timeout, Ended
    <3>2. TimelyTimeout'
      BY <1>0, <2>1, <2>2 DEF TimeInv, TimelyTimeout, TimedOut, Most, Numeric
    <3>3. NothingOverlooked'
      BY <1>0, <2>1 DEF AgeInv, NothingOverlooked, Numeric
    <3> QED BY <3>1, <3>2, <3>3 DEF TimeInv, AgeInv
  <2>3. CASE ~TimedOut
    <3>1. pc' = "sleep" /\ left' = p.sleep
      BY <1>8, <2>3 DEF Check
    <3>2. TimeInv'
      BY <1>0, <2>1, <2>3, <3>1 DEF TimeInv, TimelyTimeout, SamplerTimedOut, TimedOut, Numeric
    <3>3. AgeInv'
      BY <1>0, <2>1, <3>1 DEF AgeInv, NothingOverlooked, SamplerTimedOut, Numeric
    <3> QED BY <3>2, <3>3
  <2> QED BY <2>2, <2>3
<1>9. CASE Wake
  <2>1. /\ UNCHANGED <<p, elapsed, attempt, left, saw, last_exception, ready, age>>
        /\ pc = "sleep" /\ left = 0 /\ pc' = "sample"
    BY <1>9 DEF Wake, sampler, cluster
  <2> QED BY <1>0, <2>1
          DEF TimeInv, AgeInv, TimelyTimeout, NothingOverlooked, SamplerTimedOut, Numeric
<1>10. CASE Tick
  <2>1. /\ UNCHANGED <<p, pc, res, attempt, saw, last_exception, ready>> /\ pc \in {"func", "sleep"}
        /\ left' = left - 1 /\ left > 0 /\ elapsed' = elapsed + 1
    BY <1>10 DEF Tick
  <2>2. ready => age' <= age + 1
    <3>1. age \in Nat /\ MaxAge \in Nat
      BY <1>0 DEF Numeric, MaxAge
    <3> QED BY <1>10, <3>1 DEF Tick, Least
  <2>3. TimeInv'
    BY <1>0, <2>1 DEF TimeInv, TimelyTimeout, SamplerTimedOut, Numeric
  <2>4. AgeInv'
    <3>1. CASE pc = "func"
      <4>1. left' <= MaxDur /\ attempt' > 0
        BY <1>0, <2>1, <3>1 DEF AgeInv, Numeric
      <4>2. ASSUME saw' = "unready", ready'
            PROVE  age' + left' <= MaxDur
        <5>1. saw = "unready" /\ ready
          BY <2>1, <4>2
        <5>2. age + left <= MaxDur
          BY <3>1, <5>1 DEF AgeInv
        <5>3. age' <= age + 1
          BY <2>2, <5>1
        <5>4. /\ age \in Nat /\ age' \in Nat /\ left \in Nat /\ left' \in Nat
              /\ MaxDur \in Nat /\ left = left' + 1
          BY <1>0, <2>1 DEF Numeric
        <5> QED BY <5>2, <5>3, <5>4, Older
      <4> QED BY <2>1, <3>1, <4>1, <4>2 DEF AgeInv, NothingOverlooked, SamplerTimedOut
    <3>2. CASE pc = "sleep"
      BY <1>0, <2>1, <2>2, <3>2 DEF AgeInv, NothingOverlooked, SamplerTimedOut, Numeric
    <3> QED BY <2>1, <3>1, <3>2
  <2> QED BY <2>3, <2>4
<1>11. CASE Change
  <2>1. UNCHANGED <<p, pc, res, elapsed, attempt, left, saw, last_exception>> /\ age' = 0
    BY <1>11 DEF Change, sampler
  <2>2. TimeInv'
    BY <2>1 DEF TimeInv, TimelyTimeout, SamplerTimedOut
  <2>3. AgeInv'
    BY <1>0, <2>1 DEF AgeInv, NothingOverlooked, SamplerTimedOut, Numeric
  <2> QED BY <2>2, <2>3
<1>12. CASE UNCHANGED vars
  BY <1>12 DEF vars, sampler, cluster, TimeInv, AgeInv, TimelyTimeout, NothingOverlooked,
               SamplerTimedOut
<1> QED BY <1>1, <1>2, <1>3, <1>4, <1>5, <1>6, <1>7, <1>8, <1>9, <1>10, <1>11, <1>12
        DEF Next, Thread, Terminated

-----------------------------------------------------------------------------
(* The theorems.                                                           *)

\* The invariant holds throughout.
THEOREM Invariance == Spec => []WaitsInv
<1>1. ASSUME Init PROVE WaitsInv
  BY <1>1, InitType, InitTries, InitBudget, InitSampler DEF WaitsInv
<1>2. ASSUME WaitsInv, [Next]_vars PROVE WaitsInv'
  BY <1>2, NextType, NextTries, NextBudget, NextSampler DEF WaitsInv
<1> QED BY <1>1, <1>2, PTL DEF Spec

\* The state of a wait is type-correct, whatever its parameters.
THEOREM WaitsTypeCorrect == Spec => []TypeOK
<1>1. WaitsInv => TypeOK
  BY DEF WaitsInv
<1> QED BY <1>1, Invariance, PTL

\* A sampler that times out has not overlooked a cluster that was ready for longer
\* than one sleep and one run of the function, unless its latest sample raised.
THEOREM NothingIsOverlooked == Spec => []NothingOverlooked
<1>1. WaitsInv => NothingOverlooked
  BY DEF WaitsInv, AgeInv
<1> QED BY <1>1, Invariance, PTL

\* TimeoutExpiredError is raised no earlier than the timeout, and less than one sleep
\* or one run of the function after it.
THEOREM TimeoutIsTimely == Spec => []TimelyTimeout
<1>1. WaitsInv => TimelyTimeout
  BY DEF WaitsInv, TimeInv
<1> QED BY <1>1, Invariance, PTL

\* What validate_retry_params accepted is what retry sleeps at most.
THEOREM BudgetKept == Spec => []RetryBudget
<1>1. WaitsInv => RetryBudget
  <2> SUFFICES ASSUME WaitsInv, p.kind = "retry" PROVE slept <= p.max_timeout
    BY DEF RetryBudget
  <2>1. /\ p.tries \in Nat /\ p.max_timeout \in Nat /\ mtries \in Nat /\ mtries <= p.tries
        /\ total_time \in Nat /\ slept \in Nat
    BY Fields DEF WaitsInv, TypeOK
  <2>2. PICK d, s \in [Nat -> Nat] : Follows(d, s, attempts)
    BY DEF WaitsInv, BudgetInv
  <2>3. PICK i \in Nat : i = p.tries - mtries
    BY <2>1
  <2>4. slept = s[i] /\ s[0] = 0 /\ total_time = s[attempts]
    BY <2>2, <2>3 DEF Follows, Delays
  <2>5. CASE pc = "validate" \/ outcome = "ValueError"
    <3>1. i = 0
      BY <2>1, <2>3, <2>5 DEF WaitsInv, BudgetInv
    <3> QED BY <2>1, <2>4, <3>1
  <2>6. CASE ~(pc = "validate" \/ outcome = "ValueError")
    <3>1. attempts = p.tries /\ total_time <= p.max_timeout
      BY <2>6 DEF WaitsInv, BudgetInv
    <3>2. i < attempts => s[i] <= s[attempts]
      BY <2>2 DEF Follows, Delays
    <3>3. i < attempts \/ i = attempts
      BY <2>1, <2>3, <3>1
    <3> QED BY <2>1, <2>4, <3>1, <3>2, <3>3
  <2> QED BY <2>5, <2>6
<1> QED BY <1>1, Invariance, PTL

\* Neither more nor fewer calls are made than the tries, except by a
\* retry_until_exception without a text.
THEOREM TriesAreMade == Spec => []AllTriesMade
<1>1. WaitsInv => AllTriesMade
  BY DEF WaitsInv, TriesInv
<1> QED BY <1>1, Invariance, PTL
=============================================================================
