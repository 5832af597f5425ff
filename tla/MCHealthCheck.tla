--------------------------- MODULE MCHealthCheck ----------------------------
(* Small instances of HealthCheck for TLC. *)
EXTENDS HealthCheck

OneKey == [a \in Alerts |-> "k1"]
TwoKeys == [a \in Alerts |-> IF a = 1 THEN "k1" ELSE "k2"]

AllServices == Services

\* The probe of the one check.
TheProbe == [h \in HealthChecks |-> CHOOSE a \in Probes : TRUE]
=============================================================================
