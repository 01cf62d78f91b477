--------------------------- MODULE MCMetricCache ---------------------------
(* Instances of MetricCache for TLC: the Poll methods of DomainPolls. *)
EXTENDS MetricCache, DomainPolls, FiniteSets, TLC

CONSTANTS l1, l2, r1, r2

MCOneLoop   == {l1}
MCTwoLoops  == {l1, l2}
MCResources == {r1, r2}

MCAllPolls == AllPolls
MCPod      == {Pod}
MCTemplate == {Template}

\* No vec is written by two of the nine domains, so that each can be taken on
\* its own.
VecsOf(p) == {p.columns[j].vec : j \in DOMAIN p.columns}
ASSUME VecsApart ==
  /\ Cardinality(AllPolls) = 9
  /\ \A p, q \in AllPolls : p # q => VecsOf(p) \cap VecsOf(q) = {}

MCResourceSymmetry == Permutations(MCResources)
=============================================================================
