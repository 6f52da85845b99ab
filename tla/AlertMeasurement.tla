-------------------------- MODULE AlertMeasurement --------------------------
(***************************************************************************)
(* measure_operation(), around which the monitoring fixtures are built.    *)
(*                                                                         *)
(* The test's thread measures an operation: a subscriber thread collects   *)
(* the alerts that Prometheus reports in a list, the operation runs, the   *)
(* subscriber is cancelled, and the results are dumped into a file.  A     *)
(* later call that finds the file reads it instead, unless a flaky test is *)
(* run again.  The list belongs to the class of the subscribers, and a     *)
(* cancelled subscriber finishes the round it is in.  On managed platforms *)
(* another thread restores the PagerDuty secret while it is required.      *)
(*                                                                         *)
(* Data.  An alert is a name; the list is the set of its alerts, since     *)
(* none is added twice.  A result file holds the alerts, whether the       *)
(* operation succeeded, and the number of the measurement that wrote it.   *)
(* Times, the sleep for minimal_time and the incidents are left out.       *)
(*                                                                         *)
(* Bounds.  NMeasurements for the measurements that are started.           *)
(***************************************************************************)
EXTENDS Integers, FiniteSets

CONSTANTS
    Files,          \* result files, one for each fixture
    Alerts,         \* alerts
    NMeasurements,  \* measurements of a session
    Managed,        \* the platform is a managed service
    Faults          \* what may fail

FaultKinds == {"operation", "request", "pagerduty", "dump"}

ASSUME MeasurementAssumption ==
    /\ NMeasurements \in Nat
    /\ Managed \in BOOLEAN
    /\ Faults \subseteq FaultKinds

VARIABLES
    main,           \* where the test's thread is
    fixture,        \* the file of the call under way
    ok,             \* the operation succeeded
    first_run,      \* results["first_run"]
    rerun,          \* the test is run again
    ignore,         \* config.RUN["ignore_next_measurement_file"]
    n,              \* the latest measurement, 0 before the first
    file,           \* the result files
    alert_list,     \* PrometheusAlertSubscriber.prometheus_alert_list
    sub,            \* the subscriber threads
    finished,       \* the measurements whose subscriber is cancelled
    added,          \* what each subscriber found
    seen,           \* and what of it before it was cancelled
    secret,         \* config.RUN["thread_pagerduty_secret_update"]
    updater,        \* the thread of that name
    correct         \* the PagerDuty secret holds the token of the tests

call == <<main, fixture, ok, first_run, rerun, ignore, n>>
harvest == <<alert_list, sub, added, seen>>
pagerduty == <<secret, updater, correct>>
vars == <<call, file, harvest, finished, pagerduty>>

Measurements == 1 .. NMeasurements

NoFixture == "none"
NoFile == [kind |-> "none"]
Truncated == [kind |-> "truncated"]
Dumped(i, good, A) == [kind |-> "results", by |-> i, ok |-> good, alerts |-> A]
Contents ==
    {NoFile, Truncated} \cup
    [kind : {"results"}, by : {0} \cup Measurements, ok : BOOLEAN, alerts : SUBSET Alerts]

MainSteps == {"idle", "subscribe", "operation", "unsubscribe", "incidents", "dump",
              "body", "join", "done"}
SubSteps == {"none", "waiting", "asking", "adding", "ended"}

\* A measurement directory from the configuration may hold files of an earlier
\* session.
Init ==
    /\ main = "idle" /\ fixture = NoFixture /\ ok = TRUE /\ first_run = FALSE
    /\ rerun = FALSE /\ ignore = FALSE /\ n = 0
    /\ file \in [Files -> {NoFile, Dumped(0, TRUE, Alerts)}]
    /\ alert_list = {}
    /\ sub = [i \in Measurements |-> [step |-> "none", batch |-> {}]]
    /\ finished = {}
    /\ added = [i \in Measurements |-> {}] /\ seen = [i \in Measurements |-> {}]
    /\ secret = "not_required"
    /\ updater = IF Managed THEN "running" ELSE "ended"
    /\ correct = TRUE

-----------------------------------------------------------------------------
(* The test's thread.                                                      *)

\* Variant: the file is used even when it was to be ignored.
IsMeasuredIgnoringFlag(f) == file[f] # NoFile

\* is_measurement_done, and the flag.
IsMeasured(f) == file[f] # NoFile /\ ~ignore

\* A test with file f is over, the flag being as given.  One that is flaky and
\* fails for the first time, in its set-up or in its body, is run again after
\* ignore_next_measurement_file().  The one test with that filter
\* (test_mcg_cpu_usage) has one measurement.
EndRun(f, flag) ==
    /\ main' = "idle"
    /\ \/ rerun' = FALSE /\ fixture' = NoFixture /\ ignore' = flag
       \/ ~rerun /\ n < NMeasurements /\ rerun' = TRUE /\ fixture' = f /\ ignore' = TRUE

\* The fixture raises: the body of the test does not run.
Fail(f, flag) == ok' = TRUE /\ EndRun(f, flag)

\* It goes on.
Proceed(f, step, flag) ==
    main' = step /\ fixture' = f /\ ignore' = flag /\ UNCHANGED <<rerun, ok>>

\* The results are read; half a file cannot be.
Load(f) ==
    /\ IsMeasured(f)
    /\ \/ file[f] = Truncated /\ Fail(f, FALSE) /\ UNCHANGED first_run
       \/ file[f] # Truncated /\ first_run' = FALSE /\ Proceed(f, "body", FALSE)
    /\ UNCHANGED <<file, secret>>

\* Variant: the updates of the secret are not asked for.
MeasureUnrequired(f) ==
    /\ ~IsMeasured(f)
    /\ Proceed(f, "subscribe", FALSE)
    /\ UNCHANGED <<first_run, file, secret>>

Measure(f) ==
    /\ ~IsMeasured(f)
    /\ Proceed(f, "subscribe", FALSE)
    /\ secret' = IF Managed THEN "required" ELSE secret
    /\ UNCHANGED <<first_run, file>>

\* A call uses the flag up, whether it finds a file or not.  A test that is run
\* again calls with the file it had.
measure_operation(f) ==
    /\ main = "idle"
    /\ rerun => f = fixture
    /\ Load(f) \/ (n < NMeasurements /\ Measure(f))
    /\ UNCHANGED <<n, harvest, finished, updater, correct>>

\* The subscriber logs in when it is made, which may fail; then it is started.
subscribe ==
    /\ main = "subscribe"
    /\ \/ /\ n' = n + 1
          /\ sub' = [sub EXCEPT ![n + 1].step = "waiting"]
          /\ Proceed(fixture, "operation", ignore)
       \/ "request" \in Faults /\ Fail(fixture, ignore) /\ UNCHANGED <<n, sub>>
    /\ UNCHANGED <<first_run, file, alert_list, added, seen, finished, pagerduty>>

\* Variant: an exception leaves the subscriber running.
operationRaisesOut ==
    /\ main = "operation"
    /\ \/ Proceed(fixture, "unsubscribe", ignore)
       \/ "operation" \in Faults /\ Fail(fixture, ignore)
    /\ UNCHANGED <<first_run, n, file, harvest, finished, pagerduty>>

\* It may raise; the rest is in the finally clause.
operation ==
    /\ main = "operation"
    /\ ok' \in {TRUE} \cup (IF "operation" \in Faults THEN {FALSE} ELSE {})
    /\ main' = "unsubscribe"
    /\ UNCHANGED <<fixture, first_run, rerun, ignore, n, file, harvest, finished, pagerduty>>

\* Variant: it clears the list as well.
unsubscribeClears ==
    /\ main = "unsubscribe"
    /\ finished' = finished \cup {n}
    /\ main' = IF Managed THEN "incidents" ELSE "dump"
    /\ alert_list' = {}
    /\ UNCHANGED <<fixture, ok, first_run, rerun, ignore, n, file, sub, added, seen, pagerduty>>

\* Timer.cancel(), without a join.
unsubscribe ==
    /\ main = "unsubscribe"
    /\ finished' = finished \cup {n}
    /\ main' = IF Managed THEN "incidents" ELSE "dump"
    /\ UNCHANGED <<fixture, ok, first_run, rerun, ignore, n, file, harvest, pagerduty>>

\* When PagerDuty does not answer nothing is dumped.  "Stopping PagerDuty
\* periodical update" sets the status to required once more.
incidents ==
    /\ main = "incidents"
    /\ \/ Proceed(fixture, "dump", ignore) /\ secret' = "required"
       \/ "pagerduty" \in Faults /\ Fail(fixture, ignore) /\ UNCHANGED secret
    /\ UNCHANGED <<first_run, n, file, harvest, finished, updater, correct>>

\* get_alerts returned the list itself: what is written is its content by now.  A
\* result that cannot be written leaves half a file.  Only what an operation that
\* succeeded returned reaches a test.
dump ==
    /\ main = "dump"
    /\ \/ /\ file' = [file EXCEPT ![fixture] = Dumped(n, ok, alert_list)]
          /\ first_run' = ok
          /\ IF ok THEN Proceed(fixture, "body", ignore) ELSE Fail(fixture, ignore)
       \/ /\ "dump" \in Faults
          /\ file' = [file EXCEPT ![fixture] = Truncated]
          /\ Fail(fixture, ignore) /\ UNCHANGED first_run
    /\ UNCHANGED <<n, harvest, finished, pagerduty>>

\* The body of the test has passed or failed.
EndTest ==
    /\ main = "body"
    /\ EndRun(fixture, ignore)
    /\ first_run' = FALSE
    /\ UNCHANGED <<ok, n, file, harvest, finished, pagerduty>>

\* Variant: a status nobody knows.
finalizerUnknown ==
    /\ main = "idle" /\ ~rerun
    /\ secret' = "stopped" /\ main' = "join"
    /\ UNCHANGED <<fixture, ok, first_run, rerun, ignore, n, file, harvest, finished, updater,
                   correct>>

\* The session's fixture stops the updates.
finalizer ==
    /\ main = "idle" /\ ~rerun
    /\ secret' = "finished" /\ main' = "join"
    /\ UNCHANGED <<fixture, ok, first_run, rerun, ignore, n, file, harvest, finished, updater,
                   correct>>

join ==
    /\ main = "join" /\ updater = "ended"
    /\ main' = "done"
    /\ UNCHANGED <<fixture, ok, first_run, rerun, ignore, n, file, harvest, finished, pagerduty>>

Main ==
    \/ \E f \in Files : measure_operation(f)
    \/ subscribe \/ operation \/ unsubscribe \/ incidents \/ dump \/ EndTest
    \/ finalizer \/ join

-----------------------------------------------------------------------------
(* The subscriber threads.                                                 *)

\* Variant: a round is begun whether cancelled or not.
runForever(i) ==
    /\ sub[i].step = "waiting"
    /\ sub' = [sub EXCEPT ![i].step = "asking"]
    /\ UNCHANGED <<call, file, alert_list, added, seen, finished, pagerduty>>

\* run(): "while not self.finished.wait(self.interval)".
run(i) ==
    /\ sub[i].step = "waiting"
    /\ sub' = [sub EXCEPT ![i].step = IF i \in finished THEN "ended" ELSE "asking"]
    /\ UNCHANGED <<call, file, alert_list, added, seen, finished, pagerduty>>

\* PrometheusAPI.get answers with the alerts of the moment; its time-out ends the
\* thread, since nothing catches it.
get(i) ==
    /\ sub[i].step = "asking"
    /\ \/ \E A \in SUBSET Alerts : sub' = [sub EXCEPT ![i] = [step |-> "adding", batch |-> A]]
       \/ "request" \in Faults /\ sub' = [sub EXCEPT ![i].step = "ended"]
    /\ UNCHANGED <<call, file, alert_list, added, seen, finished, pagerduty>>

\* One by one, the alerts of the answer are added to the list.
prometheus_log(i) ==
    /\ sub[i].step = "adding"
    /\ \/ \E a \in sub[i].batch :
            /\ alert_list' = alert_list \cup {a}
            /\ sub' = [sub EXCEPT ![i].batch = @ \ {a}]
            /\ added' = [added EXCEPT ![i] = @ \cup {a}]
            /\ seen' = IF i \in finished THEN seen ELSE [seen EXCEPT ![i] = @ \cup {a}]
       \/ /\ sub[i].batch = {}
          /\ sub' = [sub EXCEPT ![i].step = "waiting"]
          /\ UNCHANGED <<alert_list, added, seen>>
    /\ UNCHANGED <<call, file, finished, pagerduty>>

Subscriber(i) == run(i) \/ get(i) \/ prometheus_log(i)

-----------------------------------------------------------------------------
(* The thread that restores the secret, and the cluster.                   *)

\* One round of its loop, before it sleeps.  Nothing catches what the command
\* raises, which ends the thread.
update_pagerduty_integration_secret ==
    /\ updater = "running"
    /\ \/ /\ updater' = IF secret = "finished" THEN "ended" ELSE "running"
          /\ correct' = (correct \/ secret = "required")
       \/ /\ "pagerduty" \in Faults /\ secret = "required"
          /\ updater' = "ended" /\ UNCHANGED correct
    /\ UNCHANGED <<call, file, harvest, finished, secret>>

\* The operator of the service puts its own token into the secret.
Overwrite ==
    /\ Managed /\ correct /\ main # "done"
    /\ correct' = FALSE
    /\ UNCHANGED <<call, file, harvest, finished, secret, updater>>

Terminated == main = "done" /\ UNCHANGED vars

Next ==
    \/ Main
    \/ \E i \in Measurements : Subscriber(i)
    \/ update_pagerduty_integration_secret
    \/ Overwrite
    \/ Terminated

Spec == Init /\ [][Next]_vars

\* The threads run, and requests end.  Operations and tests may take for ever.
FairSpec ==
    /\ Spec
    /\ WF_vars(join)
    /\ \A i \in Measurements : WF_vars(Subscriber(i))
    /\ WF_vars(update_pagerduty_integration_secret)

-----------------------------------------------------------------------------
(* Properties.                                                             *)

TypeOK ==
    /\ main \in MainSteps
    /\ fixture \in Files \cup {NoFixture}
    /\ ok \in BOOLEAN /\ first_run \in BOOLEAN /\ rerun \in BOOLEAN /\ ignore \in BOOLEAN
    /\ n \in 0 .. NMeasurements
    /\ file \in [Files -> Contents]
    /\ alert_list \subseteq Alerts
    /\ sub \in [Measurements -> [step : SubSteps, batch : SUBSET Alerts]]
    /\ finished \subseteq Measurements
    /\ added \in [Measurements -> SUBSET Alerts] /\ seen \in [Measurements -> SUBSET Alerts]
    /\ secret \in {"not_required", "required", "finished"}
    /\ updater \in {"running", "ended"}
    /\ correct \in BOOLEAN

Written(f) == file[f].kind = "results" /\ file[f].by # 0

\* "make sure that ... alerting data are saved into measurement dump file": a
\* result file holds every alert its subscriber had found when it was cancelled,
\* whether the operation raised or not and although rounds of subscribers that
\* were cancelled before still write to the same list.  And it holds none that only
\* a later measurement found.
CompleteAlerts ==
    \A f \in Files : Written(f) =>
        /\ seen[file[f].by] \subseteq file[f].alerts
        /\ file[f].alerts \subseteq UNION {added[i] : i \in 1 .. file[f].by}

Harvesting == {i \in Measurements : sub[i].step \notin {"none", "ended"} /\ i \notin finished}

\* The alerts are harvested by the subscriber of the measurement under way alone:
\* whichever step of measure_operation fails, the one it started is cancelled, and
\* none is left to harvest while a test runs.
OneHarvest ==
    /\ Harvesting \subseteq {n}
    /\ main \in {"idle", "subscribe", "incidents", "dump", "body", "join"} => Harvesting = {}

\* ignore_next_measurement_file, "make sure that the measurement is done again": a
\* flaky test that is run again gets the results of an operation that was run for
\* it, not the ones it failed with.
RerunMeasures == (main = "body" /\ rerun) => (first_run /\ file[fixture].by = n)

\* "required - secret is periodically updated to correct value": while an operation
\* is measured, an overwritten secret is put right, unless the thread that does it
\* died.
SecretRestored ==
    (main = "operation" /\ ~correct) ~> (correct \/ updater = "ended" \/ main = "join")

\* A cancelled subscriber ends, also when it was waiting for an answer; and
\* "finished - thread is terminated": the session's finalizer does not hang in the
\* join of the updating thread.
ThreadsEnd ==
    /\ \A i \in Measurements : i \in finished ~> sub[i].step = "ended"
    /\ main = "join" ~> main = "done"
=============================================================================
