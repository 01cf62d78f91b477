---------------------------- MODULE DomainPolls ----------------------------
(***************************************************************************)
(* The nine domains of internal/collector, as data: the name and the tier  *)
(* of each and, for MetricCache, what its Poll does: which calls it makes, *)
(* which vecs it resets, in order, and which gauges it then sets, in order.*)
(*                                                                         *)
(* A column is one WithLabelValues(...).Set(...) of the code: a vec and    *)
(* the label that is a constant there, "" if none.  Columns are set in     *)
(* loops, for each resource of the answer to a call; a loop that is not    *)
(* "each" runs once.  A column of an optional vec is only set for the      *)
(* resources that report it, one of a detailed vec from a call of the      *)
(* resource's own.  A gauge that is never reset is a plain one, no vec.    *)
(* One GPU stands for those of a pod, one data center for those of a GPU,  *)
(* and one status for those of a cluster's pods.                           *)
(***************************************************************************)
EXTENDS Sequences

\* A call of the generated client, and the optional parameters it is given.
Ask(name, params) == [op |-> name, params |-> params]

Each(call) == [call |-> call, each |-> TRUE]
Once(call) == [call |-> call, each |-> FALSE]

\* Columns without, and with, a constant label.
InLoop(i, vecs) ==
  [j \in DOMAIN vecs |-> [loop |-> i, vec |-> vecs[j], label |-> ""]]
Labelled(i, vec, labels) ==
  [j \in DOMAIN labels |-> [loop |-> i, vec |-> vec, label |-> labels[j]]]

RuntimeVecs ==
  {"PodUptimeSeconds", "PodCPUUtilPercent", "PodMemoryUtilPercent",
   "PodGPUUtilPercent", "PodGPUMemoryUtilPercent"}

Pod ==
  [name     |-> "pod",
   tier     |-> "fast",
   calls    |-> <<Ask("ListPods", {})>>,
   resets   |-> <<"PodUp", "PodCPUUtilPercent", "PodMemoryUtilPercent", "PodGPUUtilPercent",
                  "PodGPUMemoryUtilPercent", "PodUptimeSeconds", "PodCostPerHourDollars",
                  "PodDiskGB", "PodInfo">>,
   loops    |-> <<Each(1)>>,
   columns  |-> InLoop(1, <<"PodUp", "PodCostPerHourDollars", "PodDiskGB", "PodInfo",
                            "PodUptimeSeconds", "PodCPUUtilPercent", "PodMemoryUtilPercent",
                            "PodGPUUtilPercent", "PodGPUMemoryUtilPercent">>),
   optional |-> RuntimeVecs,
   detailed |-> {}]

Serverless ==
  [name     |-> "serverless",
   tier     |-> "fast",
   calls    |-> <<Ask("ListEndpoints", {})>>,
   resets   |-> <<"ServerlessWorkers", "ServerlessWorkerStale", "ServerlessWorkersMin",
                  "ServerlessWorkersMax", "ServerlessInfo">>,
   loops    |-> <<Each(1)>>,
   columns  |-> InLoop(1, <<"ServerlessInfo", "ServerlessWorkersMin", "ServerlessWorkersMax">>)
                \o Labelled(1, "ServerlessWorkers",
                            <<"running", "idle", "initializing", "throttled", "unhealthy">>)
                \o InLoop(1, <<"ServerlessWorkerStale">>),
   optional |-> {},
   detailed |-> {"ServerlessWorkers", "ServerlessWorkerStale"}]

Catalog ==
  [name     |-> "catalog",
   tier     |-> "slow",
   calls    |-> <<Ask("ListGpuTypes", {"include", "product"}), Ask("ListGpuTypes", {"include", "product"}),
                  Ask("ListGpuTypes", {"include", "product"}), Ask("ListCpuTypes", {})>>,
   resets   |-> <<"CatalogGpuPriceDollarsPerHour", "CatalogCpuPriceDollarsPerVcpuHour",
                  "CatalogGpuAvailability">>,
   loops    |-> <<Each(1), Each(1), Each(2), Each(3), Each(4)>>,
   columns  |-> Labelled(1, "CatalogGpuPriceDollarsPerHour", <<"SECURE", "COMMUNITY">>)
                \o Labelled(2, "CatalogGpuAvailability", <<"POD">>)
                \o Labelled(3, "CatalogGpuAvailability", <<"SERVERLESS">>)
                \o Labelled(4, "CatalogGpuAvailability", <<"CLUSTER">>)
                \o Labelled(5, "CatalogCpuPriceDollarsPerVcpuHour", <<"SECURE", "SERVERLESS">>),
   optional |-> {"CatalogGpuAvailability"},
   detailed |-> {}]

Cluster ==
  [name     |-> "cluster",
   tier     |-> "fast",
   calls    |-> <<Ask("ListClusters", {})>>,
   resets   |-> <<"ClusterPods", "ClusterInfo">>,
   loops    |-> <<Each(1)>>,
   columns  |-> InLoop(1, <<"ClusterInfo", "ClusterPods">>),
   optional |-> {"ClusterPods"},
   detailed |-> {}]

Registry ==
  [name     |-> "registry",
   tier     |-> "slow",
   calls    |-> <<Ask("ListRegistries", {}), Ask("ListDelegations", {})>>,
   resets   |-> <<"RegistryInfo">>,
   loops    |-> <<Each(1), Once(2)>>,
   columns  |-> InLoop(1, <<"RegistryInfo">>) \o InLoop(2, <<"RegistryDelegationCount">>),
   optional |-> {},
   detailed |-> {}]

Billing ==
  [name     |-> "billing",
   tier     |-> "slow",
   calls    |-> <<Ask("ListBilling", {"bucketSize", "lastN"})>>,
   resets   |-> <<"BillingCostDollars">>,
   loops    |-> <<Once(1)>>,
   columns  |-> Labelled(1, "BillingCostDollars",
                  <<"pod_gpu", "pod_cpu", "pod_disk", "serverless_gpu", "serverless_cpu",
                    "serverless_disk", "serverless_fee", "storage_standard",
                    "storage_high_performance", "endpoint", "cluster_gpu", "cluster_disk",
                    "cluster_networking">>),
   optional |-> {},
   detailed |-> {}]

Account ==
  [name     |-> "account",
   tier     |-> "fast",
   calls    |-> <<Ask("GetSshKeys", {})>>,
   resets   |-> <<>>,
   loops    |-> <<Once(1)>>,
   columns  |-> InLoop(1, <<"AccountSSHKeys">>),
   optional |-> {},
   detailed |-> {}]

\* One call, one vec, one column; all of these are slow.
Simple(name, call, vec) ==
  [name     |-> name,
   tier     |-> "slow",
   calls    |-> <<Ask(call, {})>>,
   resets   |-> <<vec>>,
   loops    |-> <<Each(1)>>,
   columns  |-> InLoop(1, <<vec>>),
   optional |-> {},
   detailed |-> {}]

Template      == Simple("template", "ListTemplates", "TemplateInfo")
NetworkVolume == Simple("network-volume", "ListNetworkVolumes", "NetworkVolumeSizeGB")

\* The call a detailed Poll makes for each of the resources it has listed.
DetailOp == "ListEndpointWorkers"

\* The operations of the client that a Poll uses.
Asks(p) ==
  {p.calls[i].op : i \in DOMAIN p.calls} \cup (IF p.detailed = {} THEN {} ELSE {DetailOp})

AllPolls ==
  {Pod, Serverless, Catalog, Cluster, Registry, Billing, Account, Template, NetworkVolume}
=============================================================================
