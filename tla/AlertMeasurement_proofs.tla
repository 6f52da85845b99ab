----------------------- MODULE AlertMeasurement_proofs -----------------------
(***************************************************************************)
(* Proofs about AlertMeasurement, for any number of fixtures, alerts and   *)
(* measurements, managed or not, whatever fails.                           *)
(*                                                                         *)
(* Every property rests on HarvestInv: the subscribers that are cancelled  *)
(* are those of all measurements but the one whose operation is under way. *)
(* What a subscriber had found when it was cancelled does not change any   *)
(* more, and is in the list, from which nothing is ever taken: so it is in *)
(* the file, and stays what the file must hold.                            *)
(***************************************************************************)
EXTENDS AlertMeasurement, TLAPS

\* The steps of a call that measures.
Measuring == {"subscribe", "operation", "unsubscribe", "incidents", "dump"}

\* A call has a file, and there is room for the measurement it starts.
CallInv ==
    /\ (main \in Measuring \cup {"body"} \/ rerun) => fixture \in Files
    /\ main = "subscribe" => n < NMeasurements
    /\ main \in Measuring \ {"subscribe"} => n \in Measurements

\* Measurements are begun one after the other, and all but the one whose operation
\* runs are over.
HarvestInv ==
    /\ \A i \in Measurements : i > n => sub[i].step = "none"
    /\ finished = IF main \in {"operation", "unsubscribe"} THEN 1 .. n - 1 ELSE 1 .. n

\* A test that is about to be run again ignores the file.
RerunInv ==
    /\ (main = "idle" /\ rerun) => ignore
    /\ RerunMeasures

\* The list holds what the subscribers found and nothing else, and a file was
\* written by a measurement that is over.
ListInv ==
    /\ \A i \in Measurements : seen[i] \subseteq added[i] /\ added[i] \subseteq alert_list
    /\ \A a \in alert_list : \E i \in 1 .. n : a \in added[i]
    /\ \A f \in Files : Written(f) => file[f].by \in finished

MeasurementInv == TypeOK /\ CallInv /\ HarvestInv /\ RerunInv /\ ListInv /\ CompleteAlerts

-----------------------------------------------------------------------------
(* Types.                                                                  *)

\* The number of measurements, apart from the Booleans the provers mix it up with.
LEMMA BoundType == NMeasurements \in Nat
BY MeasurementAssumption, Zenon

\* What is dumped is a result file.
LEMMA ContentTypes ==
    /\ NoFile \in Contents /\ Truncated \in Contents
    /\ \A i \in {0} \cup Measurements, good \in BOOLEAN, A \in SUBSET Alerts :
         Dumped(i, good, A) \in Contents
BY DEF Contents, Dumped

LEMMA InitType == ASSUME Init PROVE TypeOK
<1>1. file \in [Files -> Contents]
  <2>1. Dumped(0, TRUE, Alerts) \in Contents
    BY ContentTypes
  <2> QED BY <2>1, ContentTypes DEF Init
<1>2. n \in 0 .. NMeasurements
  BY BoundType DEF Init
<1> QED BY <1>1, <1>2, MeasurementAssumption DEF Init, TypeOK, MainSteps, SubSteps

\* The steps of the test's thread.
LEMMA MainType == ASSUME MeasurementInv, Main PROVE TypeOK'
<1> USE DEF MeasurementInv
<1>1. ASSUME NEW f \in Files, measure_operation(f) PROVE TypeOK'
  BY <1>1, BoundType
     DEF measure_operation, Load, Measure, Fail, EndRun, Proceed, harvest, TypeOK, MainSteps
<1>2. CASE subscribe
  <2>1. n + 1 \in Measurements \/ n' = n
    BY <1>2, BoundType DEF subscribe, CallInv, TypeOK, Measurements
  <2>2. sub' \in [Measurements -> [step : SubSteps, batch : SUBSET Alerts]]
    BY <1>2 DEF subscribe, TypeOK, SubSteps
  <2>3. n' \in 0 .. NMeasurements
    BY <1>2, <2>1, BoundType DEF subscribe, TypeOK, Measurements
  <2>4. /\ main' \in MainSteps /\ fixture' \in Files \cup {NoFixture} /\ ok' \in BOOLEAN
        /\ rerun' \in BOOLEAN /\ ignore' \in BOOLEAN
    BY <1>2 DEF subscribe, Fail, EndRun, Proceed, TypeOK, MainSteps
  <2> QED BY <1>2, <2>2, <2>3, <2>4 DEF subscribe, pagerduty, TypeOK
<1>3. CASE operation
  BY <1>3 DEF operation, harvest, pagerduty, TypeOK, MainSteps
<1>4. CASE unsubscribe
  BY <1>4 DEF unsubscribe, CallInv, Measuring, harvest, pagerduty, TypeOK, MainSteps
<1>5. CASE incidents
  BY <1>5 DEF incidents, Fail, EndRun, Proceed, harvest, TypeOK, MainSteps
<1>6. CASE dump
  <2>1. Dumped(n, ok, alert_list) \in Contents /\ Truncated \in Contents
    BY <1>6, ContentTypes DEF dump, CallInv, Measuring, TypeOK
  <2>2. file' \in [Files -> Contents]
    BY <1>6, <2>1 DEF dump, TypeOK
  <2>3. /\ main' \in MainSteps /\ fixture' \in Files \cup {NoFixture} /\ ok' \in BOOLEAN
        /\ rerun' \in BOOLEAN /\ first_run' \in BOOLEAN /\ ignore' \in BOOLEAN
    BY <1>6 DEF dump, Fail, EndRun, Proceed, TypeOK, MainSteps
  <2> QED BY <1>6, <2>2, <2>3 DEF dump, harvest, pagerduty, TypeOK
<1>7. CASE EndTest
  BY <1>7 DEF EndTest, EndRun, harvest, pagerduty, TypeOK, MainSteps
<1>8. CASE finalizer \/ join
  BY <1>8 DEF finalizer, join, harvest, pagerduty, TypeOK, MainSteps
<1> QED BY <1>1, <1>2, <1>3, <1>4, <1>5, <1>6, <1>7, <1>8 DEF Main

\* The steps of a subscriber.
LEMMA SubscriberType == ASSUME TypeOK, NEW i \in Measurements, Subscriber(i) PROVE TypeOK'
<1>1. UNCHANGED <<call, file, finished, pagerduty>>
  BY DEF Subscriber, run, get, prometheus_log
<1>2. sub' \in [Measurements -> [step : SubSteps, batch : SUBSET Alerts]]
  <2>1. CASE run(i)
    BY <2>1 DEF run, TypeOK, SubSteps
  <2>2. CASE get(i)
    BY <2>2 DEF get, TypeOK, SubSteps
  <2>3. CASE prometheus_log(i)
    BY <2>3 DEF prometheus_log, TypeOK, SubSteps
  <2> QED BY <2>1, <2>2, <2>3 DEF Subscriber
<1>3. /\ alert_list' \subseteq Alerts
      /\ added' \in [Measurements -> SUBSET Alerts] /\ seen' \in [Measurements -> SUBSET Alerts]
  <2>1. CASE run(i) \/ get(i)
    BY <2>1 DEF run, get, TypeOK
  <2>2. CASE prometheus_log(i)
    <3>1. CASE UNCHANGED <<alert_list, added, seen>>
      BY <3>1 DEF TypeOK
    <3>2. CASE ~UNCHANGED <<alert_list, added, seen>>
      <4>1. PICK a \in sub[i].batch :
              /\ alert_list' = alert_list \cup {a}
              /\ added' = [added EXCEPT ![i] = @ \cup {a}]
              /\ seen' = seen \/ seen' = [seen EXCEPT ![i] = @ \cup {a}]
        BY <2>2, <3>2 DEF prometheus_log
      <4>2. a \in Alerts
        BY DEF TypeOK
      <4> QED BY <4>1, <4>2 DEF TypeOK
    <3> QED BY <3>1, <3>2
  <2> QED BY <2>1, <2>2 DEF Subscriber
<1> QED BY <1>1, <1>2, <1>3 DEF TypeOK, call, pagerduty

\* The steps of the updating thread and of the cluster.
LEMMA SecretType ==
    ASSUME TypeOK, update_pagerduty_integration_secret \/ Overwrite
    PROVE  TypeOK'
BY DEF update_pagerduty_integration_secret, Overwrite, TypeOK, call, harvest

-----------------------------------------------------------------------------
(* The invariant.                                                          *)

LEMMA InitInv == ASSUME Init PROVE MeasurementInv
<1>1. TypeOK
  BY InitType
<1>2. CallInv /\ RerunInv
  BY DEF Init, CallInv, RerunInv, RerunMeasures, Measuring
<1>3. HarvestInv
  BY DEF Init, HarvestInv
<1>4. \A f \in Files : ~Written(f)
  BY DEF Init, Written, NoFile, Dumped
<1> QED BY <1>1, <1>2, <1>3, <1>4 DEF MeasurementInv, ListInv, CompleteAlerts, Init

\* The test's thread.
LEMMA MainCall == ASSUME MeasurementInv, Main PROVE CallInv' /\ RerunInv'
<1> USE DEF MeasurementInv
<1>1. ASSUME NEW f \in Files, measure_operation(f) PROVE CallInv' /\ RerunInv'
  BY <1>1 DEF measure_operation, Load, Measure, IsMeasured, Fail, EndRun, Proceed, CallInv, RerunInv,
              RerunMeasures, Measuring
<1>2. CASE subscribe
  <2>1. n \in Nat /\ n < NMeasurements => n + 1 \in Measurements
    BY BoundType DEF Measurements
  <2> QED BY <1>2, <2>1 DEF subscribe, Fail, EndRun, Proceed, CallInv, RerunInv, RerunMeasures, Measuring,
                            TypeOK
<1>3. CASE operation \/ unsubscribe \/ incidents
  BY <1>3 DEF operation, unsubscribe, incidents, Fail, EndRun, Proceed, CallInv, RerunInv, RerunMeasures,
              Measuring
<1>4. CASE dump
  <2>1. fixture \in Files /\ file \in [Files -> Contents]
    BY <1>4 DEF dump, CallInv, Measuring, TypeOK
  <2>2. CallInv'
    BY <1>4 DEF dump, Fail, EndRun, Proceed, CallInv, Measuring
  <2>3. main' = "body" => first_run' /\ file'[fixture'].by = n'
    BY <1>4, <2>1 DEF dump, Fail, EndRun, Proceed, Dumped
  <2>4. main' = "idle" /\ rerun' => ignore'
    BY <1>4 DEF dump, Fail, EndRun, Proceed
  <2> QED BY <2>2, <2>3, <2>4 DEF RerunInv, RerunMeasures
<1>5. CASE EndTest
  BY <1>5 DEF EndTest, EndRun, CallInv, RerunInv, RerunMeasures, Measuring
<1>6. CASE finalizer \/ join
  BY <1>6 DEF finalizer, join, CallInv, RerunInv, RerunMeasures, Measuring
<1> QED BY <1>1, <1>2, <1>3, <1>4, <1>5, <1>6 DEF Main

\* The subscriber of a new measurement is the next one, and cancelled in the step
\* that leaves "unsubscribe".
LEMMA MainHarvest == ASSUME MeasurementInv, Main PROVE HarvestInv'
<1> USE DEF MeasurementInv
<1>0. n \in Nat
  BY DEF TypeOK
<1>1. ASSUME NEW f \in Files, measure_operation(f) PROVE HarvestInv'
  BY <1>1 DEF measure_operation, Load, Measure, Fail, EndRun, Proceed, harvest, HarvestInv
<1>2. CASE subscribe
  <2>1. CASE n' = n + 1
    <3>1. \A i \in Measurements : i # n + 1 => sub'[i] = sub[i]
      BY <1>2, <2>1, <1>0 DEF subscribe, TypeOK
    <3>2. finished' = 1 .. n' - 1 /\ main' = "operation"
      BY <1>2, <2>1, <1>0 DEF subscribe, HarvestInv, Proceed
    <3> QED BY <1>0, <2>1, <3>1, <3>2 DEF HarvestInv, Measurements
  <2>2. CASE n' # n + 1
    BY <1>2, <2>2 DEF subscribe, Fail, EndRun, HarvestInv
  <2> QED BY <2>1, <2>2
<1>3. CASE unsubscribe
  <2>1. n \in Measurements /\ finished = 1 .. n - 1 /\ finished' = finished \cup {n} /\ n' = n
    BY <1>3 DEF unsubscribe, CallInv, HarvestInv, Measuring
  <2>2. finished' = 1 .. n'
    BY <2>1, BoundType DEF Measurements
  <2> QED BY <1>3, <2>1, <2>2 DEF unsubscribe, harvest, HarvestInv
<1>4. CASE operation
  BY <1>4 DEF operation, harvest, HarvestInv
<1>5. CASE incidents \/ dump
  BY <1>5 DEF incidents, dump, Fail, EndRun, Proceed, harvest, HarvestInv
<1>6. CASE EndTest \/ finalizer \/ join
  BY <1>6 DEF EndTest, EndRun, finalizer, join, harvest, HarvestInv
<1> QED BY <1>1, <1>2, <1>3, <1>4, <1>5, <1>6 DEF Main

\* Only dump writes a file, of a measurement that is over, and none of these steps
\* touches the list.
LEMMA MainAlerts == ASSUME MeasurementInv, Main PROVE ListInv' /\ CompleteAlerts'
<1> USE DEF MeasurementInv
<1>1. UNCHANGED <<alert_list, added, seen>> /\ finished \subseteq finished' /\ n \in Nat
      /\ (n' = n \/ n' = n + 1)
  <2>1. n \in Nat
    BY DEF TypeOK
  <2>2. CASE subscribe
    BY <2>1, <2>2 DEF subscribe
  <2>3. CASE unsubscribe \/ operation
    BY <2>1, <2>3 DEF operation, unsubscribe, harvest
  <2>4. CASE incidents \/ dump
    BY <2>1, <2>4 DEF incidents, dump, harvest
  <2>5. CASE EndTest \/ finalizer \/ join
    BY <2>1, <2>5 DEF EndTest, EndRun, finalizer, join, harvest
  <2>6. CASE \E f \in Files : measure_operation(f)
    BY <2>1, <2>6 DEF measure_operation, harvest
  <2> QED BY <2>2, <2>3, <2>4, <2>5, <2>6 DEF Main
<1>2. \A a \in alert_list' : \E i \in 1 .. n' : a \in added'[i]
  <2>1. 1 .. n \subseteq 1 .. n'
    BY <1>1
  <2> QED BY <1>1, <2>1 DEF ListInv
<1>3. CASE UNCHANGED file
  <2>1. \A f \in Files : Written(f)' = Written(f)
    BY <1>3 DEF Written
  <2>2. CompleteAlerts'
    BY <1>1, <1>3, <2>1 DEF CompleteAlerts
  <2> QED BY <1>1, <1>2, <1>3, <2>1, <2>2 DEF ListInv
<1>4. CASE file' # file
  <2>1. dump
    BY <1>4 DEF Main, measure_operation, Load, Measure, subscribe, operation, unsubscribe, incidents,
                EndTest, finalizer, join
  <2>2. fixture \in Files /\ n \in finished /\ n \in Measurements /\ finished' = finished
    BY <2>1, BoundType DEF dump, CallInv, HarvestInv, Measuring, Measurements
  <2>3. \A f \in Files : f # fixture => file'[f] = file[f]
    BY <2>1 DEF dump, TypeOK
  <2>4. file'[fixture] = Dumped(n, ok, alert_list) \/ file'[fixture] = Truncated
    BY <2>1, <2>2 DEF dump, TypeOK
  <2>5. \A f \in Files : f = fixture /\ Written(f)'
          => file'[f].by = n /\ file'[f].alerts = alert_list
    BY <2>4 DEF Written, Dumped, Truncated
  <2>6. \A f \in Files : f # fixture => Written(f)' = Written(f)
    BY <2>3 DEF Written
  <2>7. ListInv'
    BY <1>1, <1>2, <2>2, <2>3, <2>5, <2>6 DEF ListInv
  <2>8. CompleteAlerts'
    <3> SUFFICES ASSUME NEW f \in Files, Written(f)'
                 PROVE  /\ seen'[file'[f].by] \subseteq file'[f].alerts
                        /\ file'[f].alerts \subseteq UNION {added'[i] : i \in 1 .. file'[f].by}
      BY DEF CompleteAlerts
    <3>1. CASE f = fixture
      <4>1. seen[n] \subseteq alert_list
        BY <2>2 DEF ListInv
      <4>2. alert_list \subseteq UNION {added[i] : i \in 1 .. n}
        BY DEF ListInv
      <4> QED BY <1>1, <2>5, <3>1, <4>1, <4>2
    <3>2. CASE f # fixture
      BY <1>1, <2>3, <2>6, <3>2 DEF CompleteAlerts
    <3> QED BY <3>1, <3>2
  <2> QED BY <2>7, <2>8
<1> QED BY <1>3, <1>4

\* A subscriber that was cancelled may still find alerts; what it had seen before
\* does not change.
LEMMA SubscriberInv ==
    ASSUME MeasurementInv, NEW i \in Measurements, Subscriber(i)
    PROVE  MeasurementInv'
<1> USE DEF MeasurementInv
<1>1. UNCHANGED <<main, fixture, ok, first_run, rerun, ignore, n, file, finished>>
  BY DEF Subscriber, run, get, prometheus_log, call
<1>2. TypeOK'
  BY SubscriberType
<1>3. sub[i].step # "none" /\ \A j \in Measurements : j # i => sub'[j] = sub[j]
  BY DEF Subscriber, run, get, prometheus_log, TypeOK
<1>4. CallInv' /\ RerunInv'
  BY <1>1 DEF CallInv, RerunInv, RerunMeasures
<1>5. HarvestInv'
  BY <1>1, <1>3 DEF HarvestInv
<1>6. i \in 1 .. n
  BY <1>3 DEF HarvestInv, Measurements, TypeOK
<1>7. \A f \in Files : Written(f)' = Written(f)
  BY <1>1 DEF Written
<1>8. CASE UNCHANGED <<alert_list, added, seen>>
  <2>1. ListInv'
    BY <1>1, <1>7, <1>8 DEF ListInv
  <2>2. CompleteAlerts'
    BY <1>1, <1>7, <1>8 DEF CompleteAlerts
  <2> QED BY <1>2, <1>4, <1>5, <2>1, <2>2
<1>9. CASE ~UNCHANGED <<alert_list, added, seen>>
  <2>1. PICK a \in sub[i].batch :
          /\ alert_list' = alert_list \cup {a}
          /\ added' = [added EXCEPT ![i] = @ \cup {a}]
          /\ seen' = IF i \in finished THEN seen ELSE [seen EXCEPT ![i] = @ \cup {a}]
    BY <1>9 DEF Subscriber, run, get, prometheus_log
  <2>2. added'[i] = added[i] \cup {a} /\ \A j \in Measurements : j # i => added'[j] = added[j]
    BY <2>1 DEF TypeOK
  <2>3. \A j \in Measurements : added[j] \subseteq added'[j]
    BY <2>2
  <2>4. seen'[i] \subseteq seen[i] \cup {a} /\ \A j \in Measurements : j # i => seen'[j] = seen[j]
    BY <2>1 DEF TypeOK
  <2>5. \A j \in finished : seen'[j] = seen[j]
    BY <2>1, <2>4 DEF TypeOK
  <2>6. \A j \in 1 .. n : j \in Measurements
    BY BoundType DEF TypeOK, Measurements
  <2>7. ListInv'
    <3>1. \A j \in Measurements : seen'[j] \subseteq added'[j] /\ added'[j] \subseteq alert_list'
      BY <2>1, <2>2, <2>4 DEF ListInv
    <3>2. \A b \in alert_list' : \E j \in 1 .. n : b \in added'[j]
      BY <1>6, <2>1, <2>2, <2>3, <2>6 DEF ListInv
    <3> QED BY <1>1, <1>7, <3>1, <3>2 DEF ListInv
  <2>8. CompleteAlerts'
    <3> SUFFICES ASSUME NEW f \in Files, Written(f)
                 PROVE  /\ seen'[file[f].by] \subseteq file[f].alerts
                        /\ file[f].alerts \subseteq UNION {added'[j] : j \in 1 .. file[f].by}
      BY <1>1, <1>7 DEF CompleteAlerts
    <3>1. file[f].by \in finished /\ file[f].by \in Measurements
      BY DEF ListInv, TypeOK
    <3>2. seen'[file[f].by] \subseteq file[f].alerts
      BY <2>5, <3>1 DEF CompleteAlerts
    <3>3. \A j \in 1 .. file[f].by : j \in Measurements
      BY <3>1, BoundType DEF Measurements
    <3>4. file[f].alerts \subseteq UNION {added'[j] : j \in 1 .. file[f].by}
      BY <2>3, <3>3 DEF CompleteAlerts
    <3> QED BY <3>2, <3>4
  <2> QED BY <1>2, <1>4, <1>5, <2>7, <2>8
<1> QED BY <1>8, <1>9

\* A step that touches neither the call nor the harvest nor the files.
LEMMA ElsewhereInv ==
    ASSUME MeasurementInv, TypeOK', UNCHANGED <<call, file, harvest, finished>>
    PROVE  MeasurementInv'
<1>1. \A f \in Files : Written(f)' = Written(f)
  BY DEF Written
<1>2. CallInv' /\ RerunInv' /\ HarvestInv'
  BY DEF MeasurementInv, CallInv, RerunInv, RerunMeasures, HarvestInv, call, harvest
<1>3. ListInv' /\ CompleteAlerts'
  BY <1>1 DEF MeasurementInv, ListInv, CompleteAlerts, call, harvest
<1> QED BY <1>2, <1>3 DEF MeasurementInv

\* Every step keeps the invariant.
LEMMA NextInv == ASSUME MeasurementInv, [Next]_vars PROVE MeasurementInv'
<1>1. CASE Main
  BY <1>1, MainType, MainCall, MainHarvest, MainAlerts DEF MeasurementInv
<1>2. ASSUME NEW i \in Measurements, Subscriber(i) PROVE MeasurementInv'
  BY <1>2, SubscriberInv
<1>3. CASE update_pagerduty_integration_secret \/ Overwrite
  BY <1>3, SecretType, ElsewhereInv
     DEF update_pagerduty_integration_secret, Overwrite, MeasurementInv
<1>4. CASE UNCHANGED vars
  <2>1. TypeOK'
    BY <1>4 DEF MeasurementInv, TypeOK, vars, call, harvest, pagerduty
  <2> QED BY <1>4, <2>1, ElsewhereInv DEF vars
<1> QED BY <1>1, <1>2, <1>3, <1>4 DEF Next, Terminated

\* The invariant holds throughout.
THEOREM Invariance == Spec => []MeasurementInv
BY InitInv, NextInv, PTL DEF Spec

-----------------------------------------------------------------------------
(* The theorems.                                                           *)

\* The state of a session of measurements is type-correct.
THEOREM MeasurementTypeCorrect == Spec => []TypeOK
<1>1. MeasurementInv => TypeOK
  BY DEF MeasurementInv
<1> QED BY <1>1, Invariance, PTL

\* A result file holds all that its subscriber had found when it was cancelled, and
\* nothing that only a later measurement found, however late the rounds of
\* cancelled subscribers end.
THEOREM AlertsComplete == Spec => []CompleteAlerts
<1>1. MeasurementInv => CompleteAlerts
  BY DEF MeasurementInv
<1> QED BY <1>1, Invariance, PTL

\* There is never more than one subscriber that is not cancelled, and none outside
\* of a measurement, whichever step of measure_operation failed.
THEOREM HarvestedOnce == Spec => []OneHarvest
<1>1. MeasurementInv => OneHarvest
  <2> SUFFICES ASSUME MeasurementInv PROVE OneHarvest
    OBVIOUS
  <2>1. \A i \in Harvesting : i <= n /\ i \in Measurements
    BY DEF Harvesting, MeasurementInv, HarvestInv, TypeOK, Measurements
  <2>2. \A i \in Harvesting : i = n /\ main \in {"operation", "unsubscribe"}
    BY <2>1 DEF Harvesting, MeasurementInv, HarvestInv, TypeOK, Measurements
  <2> QED BY <2>2 DEF OneHarvest
<1> QED BY <1>1, Invariance, PTL

\* A flaky test that is run again gets a measurement that was made for it.
THEOREM RerunIsMeasured == Spec => []RerunMeasures
<1>1. MeasurementInv => RerunMeasures
  BY DEF MeasurementInv, RerunInv
<1> QED BY <1>1, Invariance, PTL
=============================================================================
