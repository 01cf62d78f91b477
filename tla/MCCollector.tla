---------------------------- MODULE MCCollector ----------------------------
(* Instances of Collector for TLC: one domain, of two calls or of a call and
   one for each resource. *)
EXTENDS Collector, DomainPolls

CONSTANTS d1, r1

MCDomains   == {d1}
MCResources == {r1}
MCPolls     == {Registry, Serverless}
=============================================================================
