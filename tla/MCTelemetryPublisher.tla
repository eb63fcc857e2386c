------------------------ MODULE MCTelemetryPublisher ------------------------
(* Small instances of TelemetryPublisher: two numeric signals and the gear,   *)
(* two readings of each, an interval of two seconds in half-second ticks.     *)
EXTENDS TelemetryPublisher

CONSTANTS speed, rpm

MCNumeric == {speed, rpm}
=============================================================================
