--------------------------- MODULE MCEurekaClient ---------------------------
(* The registration client for TLC; the cfg files give the durations.        *)
EXTENDS EurekaClient
=============================================================================
