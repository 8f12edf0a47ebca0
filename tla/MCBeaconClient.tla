--------------------------- MODULE MCBeaconClient ---------------------------
(* Model-checking instance of BeaconClient.  MaxRetries is the default 3,  *)
(* so a GET makes up to four attempts and three backoff waits.  MaxDelay   *)
(* is lowered from 30 s to 300 ms so that the third wait (nominal 400 ms)  *)
(* reaches the cap.  The jitter is represented by its lowest value, the    *)
(* nominal one and the highest one below 1.2 (rand.Float64() < 1).         *)
EXTENDS BeaconClient

MCStatuses == {200, 429, 503, 500}
MCJitterPercents == {80, 100, 119}
=============================================================================
