-------------------------------- MODULE Waits --------------------------------
(***************************************************************************)
(* The waits of ocs-ci: the decorators retry, retry_until_exception and    *)
(* catch_exceptions around a function that runs a command or samples the   *)
(* cluster with a TimeoutSampler, as deploy_hyper_converged and many       *)
(* others do.                                                              *)
(*                                                                         *)
(* One thread waits; beside it the cluster turns ready, or not ready any   *)
(* more, whenever it likes.  Time passes in the sampled function and in    *)
(* sleeps.  The function looks at the cluster at some moment of its run.   *)
(*                                                                         *)
(* Data.  A result is what the waiting code tells apart.  "timeout" is the *)
(* TimeoutExpiredError of the sampler, which the decorators check for;     *)
(* "checked" and "mismatch" are other exceptions they check for, with and  *)
(* without the text; "other" is one they do not.  "None" stands for any    *)
(* value of a command, "value" for the expected one of a sample.           *)
(*                                                                         *)
(* The heartbeat, the post-mortem attributes and the function "for garbage *)
(* collector", which nobody passes, are left out.                          *)
(***************************************************************************)
EXTENDS Integers

CONSTANTS
    Params,     \* the parameters that waits are written with
    MaxDur      \* the longest run of the sampled function

Parameters ==
    [kind : {"retry", "until"},             \* the decorator
     body : {"command", "value", "status"}, \* what it decorates: a command, or
                                            \* wait_for_func_value or _status
     text : BOOLEAN,                        \* text_in_exception is given
     catch : BOOLEAN,                       \* catch_exceptions is in between
     tries : Nat, delay : Nat, backoff : Nat, max_timeout : Nat, max_delay : Nat,
     timeout : Nat, sleep : Nat]

ASSUME WaitsAssumption ==
    /\ Params \subseteq Parameters
    /\ MaxDur \in Nat

VARIABLES
    p,              \* the parameters of this wait
    pc,             \* where its thread is
    attempts,       \* validate_retry_params: the attempts counted,
    total_time,     \* their delays,
    current_delay,  \* and the next delay
    mtries, mdelay, \* what is left of the tries, and the next delay
    res,            \* the result of the call
    outcome,        \* what the caller of the decorated function gets
    elapsed,        \* the sampler's time.time() - start_time
    attempt,        \* its samples
    left,           \* what is left of a sleep or of the function's run
    saw,            \* what the function saw
    last_exception, \* the latest sample raised
    ready,          \* the cluster is as it should be
    age,            \* and has been for so long
    calls, slept    \* calls of the function, and how long the decorator slept

validation == <<attempts, total_time, current_delay>>
loop == <<mtries, mdelay, calls, slept>>
sampler == <<elapsed, attempt, left, saw, last_exception>>
cluster == <<ready, age>>
vars == <<p, pc, validation, loop, res, outcome, sampler, cluster>>

Results == {"none", "value", "None", "False", "timeout", "checked", "mismatch", "other"}
Outcomes == Results \cup {"ValueError", "True"}

Least(m, n) == IF m <= n THEN m ELSE n
Most(m, n) == IF m <= n THEN n ELSE m

\* Nothing tells longer ages apart.
MaxAge == p.sleep + MaxDur + 1

\* A decorator is applied before the function is called: retry validates first.
Init ==
    /\ p \in Params
    /\ pc = IF p.kind = "retry" THEN "validate" ELSE "call"
    /\ attempts = 0 /\ total_time = 0 /\ current_delay = p.delay
    /\ mtries = p.tries /\ mdelay = p.delay /\ calls = 0 /\ slept = 0
    /\ res = "none" /\ outcome = "none"
    /\ elapsed = 0 /\ attempt = 0 /\ left = 0 /\ saw = "nothing" /\ last_exception = FALSE
    /\ ready \in BOOLEAN /\ age = 0

End(o) == pc' = "done" /\ outcome' = o

-----------------------------------------------------------------------------
(* validate_retry_params.                                                  *)

\* Variant: the sum is not kept.
validate_retry_paramsEach ==
    /\ pc = "validate" /\ attempts < p.tries
    /\ attempts' = attempts + 1
    /\ total_time' = current_delay
    /\ current_delay' = Least(current_delay * p.backoff, p.max_delay)
    /\ IF total_time' > p.max_timeout THEN End("ValueError") ELSE UNCHANGED <<pc, outcome>>
    /\ UNCHANGED <<p, loop, res, sampler, cluster>>

\* Variant: one attempt too many is counted.
validate_retry_paramsOneMore ==
    /\ pc = "validate" /\ attempts <= p.tries
    /\ attempts' = attempts + 1
    /\ total_time' = total_time + current_delay
    /\ current_delay' = Least(current_delay * p.backoff, p.max_delay)
    /\ IF total_time' > p.max_timeout THEN End("ValueError") ELSE UNCHANGED <<pc, outcome>>
    /\ UNCHANGED <<p, loop, res, sampler, cluster>>

\* One round of its loop.
validate_retry_params ==
    /\ pc = "validate" /\ attempts < p.tries
    /\ attempts' = attempts + 1
    /\ total_time' = total_time + current_delay
    /\ current_delay' = Least(current_delay * p.backoff, p.max_delay)
    /\ IF total_time' > p.max_timeout THEN End("ValueError") ELSE UNCHANGED <<pc, outcome>>
    /\ UNCHANGED <<p, loop, res, sampler, cluster>>

EndValidation ==
    /\ pc = "validate" /\ attempts = p.tries
    /\ pc' = "call"
    /\ UNCHANGED <<p, validation, loop, res, outcome, sampler, cluster>>

-----------------------------------------------------------------------------
(* The decorators.                                                         *)

\* catch_exceptions: an exception it knows becomes the value None.
catch_exceptions(r) == IF p.catch /\ r = "other" THEN "None" ELSE r

\* The call has ended with r.
Ended(r) == pc' = "handle" /\ res' = catch_exceptions(r)

\* "check that given timeout and sleep values makes sense".
SleepFits == p.timeout >= p.sleep

\* f is called: a command is run, or a sampler made and iterated over.  Only
\* retry makes the last try; retry_until_exception gives up before it.
Call ==
    /\ pc = "call"
    /\ p.kind = "until" => mtries > 1
    /\ calls' = Least(calls + 1, p.tries + 1)
    /\ \/ p.body = "command" /\ pc' = "command" /\ UNCHANGED <<res, sampler>>
       \/ p.body # "command" /\ ~SleepFits /\ Ended("other") /\ UNCHANGED sampler
       \/ /\ p.body # "command" /\ SleepFits
          /\ pc' = "sample"
          /\ elapsed' = 0 /\ attempt' = 0 /\ last_exception' = FALSE
          /\ UNCHANGED <<res, left, saw>>
    /\ UNCHANGED <<p, validation, mtries, mdelay, slept, outcome, cluster>>

\* retry_until_exception returns False.
GiveUp ==
    /\ pc = "call" /\ p.kind = "until" /\ mtries <= 1
    /\ End("False")
    /\ UNCHANGED <<p, validation, loop, res, sampler, cluster>>

\* The command ends somehow.
CommandEnds ==
    /\ pc = "command"
    /\ \E r \in {"None", "checked", "mismatch", "other"} : Ended(r)
    /\ UNCHANGED <<p, validation, loop, outcome, sampler, cluster>>

\* The decorator sleeps, and the call is made again.
Sleep(next) ==
    /\ pc' = "call" /\ outcome' = outcome
    /\ slept' = slept + mdelay
    /\ mtries' = mtries - 1
    /\ mdelay' = next
    /\ age' = IF ready THEN Least(age + mdelay, MaxAge) ELSE 0

\* The class of the exception is checked, and its text if one is given.
IsChecked == res \in {"timeout", "checked", "mismatch"}
HasText == res # "mismatch" \/ ~p.text

\* Variant: every failure is followed by another try.
MoreTriesAlways == mtries > 0

MoreTries == mtries > 1

\* Variant: the tries are not counted.
retryUncounted ==
    /\ pc = "handle" /\ p.kind = "retry"
    /\ IF IsChecked /\ HasText /\ MoreTries
         THEN /\ pc' = "call" /\ outcome' = outcome
              /\ slept' = slept /\ age' = age
              /\ UNCHANGED <<mtries, mdelay>>
         ELSE End(res) /\ UNCHANGED <<mtries, mdelay, slept, age>>
    /\ res' = "none"
    /\ UNCHANGED <<p, validation, calls, sampler, ready>>

\* retry: values, other exceptions and the last try's go to the caller.
retry ==
    /\ pc = "handle" /\ p.kind = "retry"
    /\ IF IsChecked /\ HasText /\ MoreTries
         THEN Sleep(Least(mdelay * p.backoff, p.max_delay))
         ELSE End(res) /\ UNCHANGED <<mtries, mdelay, slept, age>>
    /\ res' = "none"
    /\ UNCHANGED <<p, validation, calls, sampler, ready>>

\* retry_until_exception: a value means another try.  A checked exception ends
\* the loop if it has the text that is asked for; if none is, it is dropped and
\* the loop goes on at once.
retry_until_exception ==
    /\ pc = "handle" /\ p.kind = "until"
    /\ \/ res \in {"value", "None", "False"} /\ Sleep(mdelay * p.backoff)
       \/ /\ IsChecked /\ ~p.text
          /\ pc' = "call" /\ UNCHANGED <<outcome, mtries, mdelay, slept, age>>
       \/ /\ IsChecked /\ p.text
          /\ End(IF HasText THEN "True" ELSE res)
          /\ UNCHANGED <<mtries, mdelay, slept, age>>
       \/ res = "other" /\ End(res) /\ UNCHANGED <<mtries, mdelay, slept, age>>
    /\ res' = "none"
    /\ UNCHANGED <<p, validation, calls, sampler, ready>>

-----------------------------------------------------------------------------
(* TimeoutSampler.__iter__, and wait_for_func_value over it.               *)

\* Variant: the timeout is over when more than it has elapsed.
TimedOutLate == p.timeout < elapsed

TimedOut == p.timeout <= elapsed

\* _raise_timeout; wait_for_func_status turns the exception into a value.
_raise_timeout == Ended(IF p.body = "status" THEN "False" ELSE "timeout")

\* The function is called, unless it is too late.
Sample ==
    /\ pc = "sample"
    /\ \/ TimedOut /\ _raise_timeout /\ UNCHANGED <<attempt, left, saw>>
       \/ /\ ~TimedOut
          /\ attempt' = attempt + 1
          /\ pc' = "func" /\ left' \in 0 .. MaxDur /\ saw' = "nothing"
          /\ UNCHANGED res
    /\ UNCHANGED <<p, validation, loop, outcome, elapsed, last_exception, cluster>>

\* At some moment it looks at the cluster, or fails to.
Look ==
    /\ pc = "func" /\ saw = "nothing"
    /\ saw' \in {IF ready THEN "ready" ELSE "unready", "exception"}
    /\ UNCHANGED <<p, pc, validation, loop, res, outcome, elapsed, attempt, left,
                   last_exception, cluster>>

\* The expected value ends the wait, however late it comes.  An exception is
\* remembered, and the loop goes on as after any other value.
FuncEnds ==
    /\ pc = "func" /\ left = 0 /\ saw # "nothing"
    /\ last_exception' = (saw = "exception")
    /\ \/ saw = "ready" /\ Ended("value")
       \/ saw # "ready" /\ pc' = "check" /\ UNCHANGED res
    /\ UNCHANGED <<p, validation, loop, outcome, elapsed, attempt, left, saw, cluster>>

\* Variant: the sampler sleeps longer every time.
CheckBackoff ==
    /\ pc = "check"
    /\ \/ TimedOut /\ _raise_timeout /\ UNCHANGED left
       \/ ~TimedOut /\ pc' = "sleep" /\ left' = p.sleep * (attempt + 1) /\ UNCHANGED res
    /\ UNCHANGED <<p, validation, loop, outcome, elapsed, attempt, saw, last_exception, cluster>>

\* The loop's second check, before it sleeps.
Check ==
    /\ pc = "check"
    /\ \/ TimedOut /\ _raise_timeout /\ UNCHANGED left
       \/ ~TimedOut /\ pc' = "sleep" /\ left' = p.sleep /\ UNCHANGED res
    /\ UNCHANGED <<p, validation, loop, outcome, elapsed, attempt, saw, last_exception, cluster>>

Wake ==
    /\ pc = "sleep" /\ left = 0
    /\ pc' = "sample"
    /\ UNCHANGED <<p, validation, loop, res, outcome, sampler, cluster>>

-----------------------------------------------------------------------------

Tick ==
    /\ pc \in {"func", "sleep"} /\ left > 0
    /\ left' = left - 1 /\ elapsed' = elapsed + 1
    /\ age' = IF ready THEN Least(age + 1, MaxAge) ELSE 0
    /\ UNCHANGED <<p, pc, validation, loop, res, outcome, attempt, saw, last_exception, ready>>

\* The cluster changes.
Change ==
    /\ pc # "done"
    /\ ready' = ~ready /\ age' = 0
    /\ UNCHANGED <<p, pc, validation, loop, res, outcome, sampler>>

Thread ==
    \/ validate_retry_params \/ EndValidation
    \/ Call \/ GiveUp \/ CommandEnds \/ retry \/ retry_until_exception
    \/ Sample \/ Look \/ FuncEnds \/ Check \/ Wake

Terminated == pc = "done" /\ UNCHANGED vars

Next == Thread \/ Tick \/ Change \/ Terminated

Spec == Init /\ [][Next]_vars

\* Time passes and the thread runs; commands end.
FairSpec == Spec /\ WF_vars(Thread \/ Tick)

-----------------------------------------------------------------------------
(* Properties.                                                             *)

TypeOK ==
    /\ p \in Params
    /\ pc \in {"validate", "call", "command", "handle", "sample", "func", "check", "sleep",
               "done"}
    /\ attempts \in 0 .. p.tries /\ total_time \in Nat /\ current_delay \in Nat
    /\ mtries \in 0 .. p.tries /\ mdelay \in Nat
    /\ calls \in 0 .. p.tries + 1 /\ slept \in Nat
    /\ res \in Results /\ outcome \in Outcomes
    /\ elapsed \in Nat /\ attempt \in Nat /\ left \in Nat
    /\ saw \in {"nothing", "ready", "unready", "exception"}
    /\ last_exception \in BOOLEAN
    /\ ready \in BOOLEAN /\ age \in 0 .. MaxAge

SamplerTimedOut == pc = "handle" /\ res \in {"timeout", "False"}

\* A sampler that times out has not overlooked a cluster that was ready: unless
\* its latest sample raised, the cluster became ready after that sample, at most
\* one sleep and one run of the function ago.  With a timeout of 0 it does not
\* sample at all.
NothingOverlooked ==
    SamplerTimedOut /\ ready /\ ~last_exception /\ p.timeout > 0 => age <= p.sleep + MaxDur

\* TimeoutExpiredError is raised when the timeout is over, and, since no sample is
\* begun after that, before one more sleep or run of the function is over as well.
TimelyTimeout ==
    SamplerTimedOut => /\ p.timeout <= elapsed
                       /\ elapsed < p.timeout + Most(MaxDur, p.sleep) \/ p.timeout = 0

\* "Validate retry parameters to ensure the total retry time does not exceed
\* max_timeout": the decorated function never sleeps longer than that between its
\* tries, with the delay growing and capped as it was validated.
RetryBudget == p.kind = "retry" => slept <= p.max_timeout

\* retry, "Number of times to try (not retry) before giving up": a checked exception
\* only reaches the caller when all tries were made, one if tries is 0, and no more
\* are made.  The limit holds for retry_until_exception as well, if it has a text.
AllTriesMade ==
    /\ calls <= Most(p.tries, 1) \/ (p.kind = "until" /\ ~p.text)
    /\ p.kind = "retry" /\ (outcome \in {"timeout", "checked"} \/ (outcome = "mismatch" /\ ~p.text))
         => calls = Most(p.tries, 1)

\* retry_until_exception, "number of times to try (not retry) before giving up": it
\* returns False only when the function was called that often.
TriesBeforeGivingUp == (p.kind = "until" /\ outcome = "False") => calls >= p.tries

\* Every wait ends, except that of a retry_until_exception without a text, which
\* drops the exception that it waits for.
Ends == (p.kind = "until" => p.text) => <>(pc = "done")
=============================================================================
