------------------------------ MODULE ServingMC ------------------------------
(* An instance for TLC: the job that scores headlines and the cold start.   *)
EXTENDS Serving

MCRecurring == {"explain"}
=============================================================================
