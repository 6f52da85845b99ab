------------------------ MODULE MCAlertMeasurement ------------------------
(* AlertMeasurement for TLC: two result files, two measurements.           *)
EXTENDS AlertMeasurement

CONSTANTS f1, f2, a1
=============================================================================
