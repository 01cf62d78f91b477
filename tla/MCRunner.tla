------------------------------ MODULE MCRunner ------------------------------
(* Instances of Runner and RunnerCycle for TLC: Run with one or two domains. *)
EXTENDS RunnerCycle

CONSTANTS d1, d2

MCDomains   == {d1, d2}
MCOneDomain == {d1}
=============================================================================
