----------------------------- MODULE MCCollector -----------------------------
(* Instances of Collector for TLC: which transports a configuration enables, *)
(* and which requests arrive.                                                *)
EXTENDS Collector

CONSTANTS r1, r2

AnyConfig == SUBSET Transports
OnlyHTTP  == {{"http"}}

OneRequest  == {r1}
TwoRequests == {r1, r2}
=============================================================================
