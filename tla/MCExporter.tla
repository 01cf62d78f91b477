----------------------------- MODULE MCExporter -----------------------------
(* Instances of Exporter for TLC: one domain, two connections. *)
EXTENDS Exporter

CONSTANTS d1, c1, c2

MCDomains == {d1}
MCConns == {c1, c2}
=============================================================================
