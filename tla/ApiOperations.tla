--------------------------- MODULE ApiOperations ---------------------------
(***************************************************************************)
(* openapi/client_gen.go, the generated client, as data for ApiClient: of  *)
(* each operation the request its New...Request builds and the responses   *)
(* its Parse...HTTPResponse tells apart.                                   *)
(*                                                                         *)
(* Every Parse decodes the listed statuses into a typed field if the       *)
(* response says it is JSON, any other JSON into a default problem, and    *)
(* binds the headers of the response, of which only Retry-After, of a 429, *)
(* is not a string.  So only the statuses differ from one to another.      *)
(***************************************************************************)
EXTENDS Sequences

\* A path parameter.  Escaped it is one segment, whatever is in it; only an empty
\* one, "." and "..", which url.Parse would resolve away, are left out.
Id == "{id}"

\* Path parameters are of the path, all other parameters are optional ones.
Request(method, path, optional, json) ==
  [method |-> method, path |-> <<"v2">> \o path, optional |-> optional, json |-> json]

Get(path, optional) == Request("GET", path, optional, FALSE)
Delete(path)        == Request("DELETE", path, {}, FALSE)
Post(path)          == Request("POST", path, {}, TRUE)
Put(path)           == Request("PUT", path, {}, TRUE)
Patch(path)         == Request("PATCH", path, {}, TRUE)

\* Statuses with a typed field, those of a problem, and those with no body.
Json(success, problems) == [json |-> {success}, problem |-> problems, bare |-> {}]
NoContent(problems)     == [json |-> {}, problem |-> problems, bare |-> {204}]
Stream(problems)        == [json |-> {}, problem |-> problems, bare |-> {}]

-----------------------------------------------------------------------------
GetSshKeysRequest == Get(<<"account", "ssh-keys">>, {})
GetSshKeysResponse == Json(200, {401, 403, 429})

UpdateSshKeysRequest == Put(<<"account", "ssh-keys">>)
UpdateSshKeysResponse == Json(200, {401, 403, 422, 429})

ListBillingRequest == Get(<<"billing">>, {"startTime", "endTime", "bucketSize", "lastN"})
ListBillingResponse == Json(200, {401, 403, 429})

ListClusterBillingRequest == Get(<<"billing", "clusters">>,
      {"startTime", "endTime", "bucketSize", "lastN", "clusterId"})
ListClusterBillingResponse == Json(200, {401, 403, 429})

ListEndpointBillingRequest == Get(<<"billing", "endpoints">>,
      {"startTime", "endTime", "bucketSize", "lastN"})
ListEndpointBillingResponse == Json(200, {401, 403, 429})

ListNetworkVolumeBillingRequest == Get(<<"billing", "network-volumes">>,
      {"startTime", "endTime", "bucketSize", "lastN", "networkVolumeId"})
ListNetworkVolumeBillingResponse == Json(200, {401, 403, 429})

ListPodBillingRequest == Get(<<"billing", "pods">>,
      {"startTime", "endTime", "bucketSize", "lastN", "podId"})
ListPodBillingResponse == Json(200, {401, 403, 429})

ListServerlessBillingRequest == Get(<<"billing", "serverless">>,
      {"startTime", "endTime", "bucketSize", "lastN", "serverlessId"})
ListServerlessBillingResponse == Json(200, {401, 403, 429})

ListCpuTypesRequest == Get(<<"catalog", "cpus">>, {"include", "product", "vcpuCount"})
ListCpuTypesResponse == Json(200, {401, 403, 429})

GetCpuTypeRequest == Get(<<"catalog", "cpus", Id>>, {"include", "product", "vcpuCount"})
GetCpuTypeResponse == Json(200, {401, 403, 404, 429})

ListDataCentersRequest == Get(<<"catalog", "datacenters">>,
      {"include", "regions", "networkVolumeTypes", "compliance", "globalNetwork"})
ListDataCentersResponse == Json(200, {401, 403, 429})

GetDataCenterRequest == Get(<<"catalog", "datacenters", Id>>, {"include"})
GetDataCenterResponse == Json(200, {401, 403, 404, 429})

ListGpuTypesRequest == Get(<<"catalog", "gpus">>,
      {"include", "product", "count", "cloud", "countryCodes", "cudaVersions", "minCudaVersion"})
ListGpuTypesResponse == Json(200, {401, 403, 429})

GetGpuTypeRequest == Get(<<"catalog", "gpus", Id>>,
      {"include", "product", "count", "cloud", "countryCodes", "cudaVersions", "minCudaVersion"})
GetGpuTypeResponse == Json(200, {401, 403, 404, 429})

ListPublicTemplatesRequest == Get(<<"catalog", "templates">>, {"source"})
ListPublicTemplatesResponse == Json(200, {401, 403, 429})

ListClustersRequest == Get(<<"clusters">>, {})
ListClustersResponse == Json(200, {401, 403, 429})

CreateClusterRequest == Post(<<"clusters">>)
CreateClusterResponse == Json(201, {400, 401, 403, 422, 429})

DeleteClusterRequest == Delete(<<"clusters", Id>>)
DeleteClusterResponse == NoContent({401, 403, 404, 429})

GetClusterRequest == Get(<<"clusters", Id>>, {})
GetClusterResponse == Json(200, {401, 403, 404, 429})

UpdateClusterRequest == Patch(<<"clusters", Id>>)
UpdateClusterResponse == Json(200, {400, 401, 403, 404, 422, 429})

ListClusterPodsRequest == Get(<<"clusters", Id, "pods">>, {})
ListClusterPodsResponse == Json(200, {401, 403, 404, 429})

ListNetworkVolumesRequest == Get(<<"network-volumes">>, {})
ListNetworkVolumesResponse == Json(200, {401, 403, 429})

CreateNetworkVolumeRequest == Post(<<"network-volumes">>)
CreateNetworkVolumeResponse == Json(201, {400, 401, 403, 422, 429})

DeleteNetworkVolumeRequest == Delete(<<"network-volumes", Id>>)
DeleteNetworkVolumeResponse == NoContent({401, 403, 404, 429})

GetNetworkVolumeRequest == Get(<<"network-volumes", Id>>, {})
GetNetworkVolumeResponse == Json(200, {401, 403, 404, 429})

UpdateNetworkVolumeRequest == Patch(<<"network-volumes", Id>>)
UpdateNetworkVolumeResponse == Json(200, {400, 401, 403, 404, 422, 429})

ListPodsRequestPuts == Put(<<"pods">>)  \* mutant of ListPodsRequest

ListPodsRequest == Get(<<"pods">>, {"includeClusterPods"})
ListPodsResponse == Json(200, {401, 403, 429})

CreatePodRequest == Post(<<"pods">>)
CreatePodResponse == Json(201, {400, 401, 403, 404, 422, 429})

DeletePodRequest == Delete(<<"pods", Id>>)
DeletePodResponse == NoContent({401, 403, 404, 409, 429})

GetPodRequest == Get(<<"pods", Id>>, {})
GetPodResponse == Json(200, {401, 403, 404, 429})

UpdatePodRequest == Patch(<<"pods", Id>>)
UpdatePodResponse == Json(200, {400, 401, 403, 404, 409, 422, 429})

PodActionRequest == Post(<<"pods", Id, "action">>)
PodActionResponse == [Json(200, {400, 401, 403, 404, 409, 422, 429}) EXCEPT !.bare = {204}]

GetPodLogsRequest == Get(<<"pods", Id, "logs">>, {"source", "tail", "since", "Last-Event-ID"})
GetPodLogsResponse == Stream({401, 403, 404, 429})

ListRegistriesRequest == Get(<<"registries">>, {})
ListRegistriesResponse == Json(200, {401, 403, 429})

CreateRegistryRequest == Post(<<"registries">>)
CreateRegistryResponse == Json(201, {400, 401, 403, 422, 429})

ListDelegationsRequest == Get(<<"registries", "delegations">>, {})
ListDelegationsResponse == Json(200, {429})

CreateDelegationRequest == Post(<<"registries", "delegations">>)
CreateDelegationResponse == Json(201, {429})

RevokeDelegationRequest == Delete(<<"registries", "delegations", Id>>)
RevokeDelegationResponse == NoContent({404, 429})

DeleteRegistryRequest == Delete(<<"registries", Id>>)
DeleteRegistryResponse == NoContent({400, 401, 403, 404, 429})

GetRegistryRequest == Get(<<"registries", Id>>, {})
GetRegistryResponse == Json(200, {401, 403, 404, 429})

ListEndpointsRequest == Get(<<"serverless">>, {})
ListEndpointsResponse == Json(200, {401, 403, 429})

CreateEndpointRequest == Post(<<"serverless">>)
CreateEndpointResponse == Json(201, {400, 401, 403, 404, 422, 429})

DeleteEndpointRequest == Delete(<<"serverless", Id>>)
DeleteEndpointResponse == NoContent({401, 403, 404, 429})

GetEndpointRequest == Get(<<"serverless", Id>>, {})
GetEndpointResponse == Json(200, {401, 403, 404, 429})

UpdateEndpointRequest == Patch(<<"serverless", Id>>)
UpdateEndpointResponse == Json(200, {400, 401, 403, 404, 422, 429})

ListEndpointReleasesRequest == Get(<<"serverless", Id, "releases">>, {})
ListEndpointReleasesResponse == Json(200, {401, 403, 404, 429})

ListEndpointWorkersRequest == Get(<<"serverless", Id, "workers">>, {})
ListEndpointWorkersResponse == Json(200, {401, 403, 404, 429})

GetWorkerLogsRequest == Get(<<"serverless", Id, "workers", Id, "logs">>,
      {"source", "tail", "since", "Last-Event-ID"})
GetWorkerLogsResponse == Stream({401, 403, 404, 429})

ListTemplatesRequest == Get(<<"templates">>, {})
ListTemplatesResponse == Json(200, {401, 403, 429})

CreateTemplateRequest == Post(<<"templates">>)
CreateTemplateResponse == Json(201, {400, 401, 403, 422, 429})

DeleteTemplateRequest == Delete(<<"templates", Id>>)
DeleteTemplateResponse == NoContent({400, 401, 403, 404, 429})

GetTemplateRequest == Get(<<"templates", Id>>, {})
GetTemplateResponse == Json(200, {401, 403, 404, 429})

UpdateTemplateRequest == Patch(<<"templates", Id>>)
UpdateTemplateResponse == Json(200, {400, 401, 403, 404, 422, 429})
-----------------------------------------------------------------------------
Op(builds, parses) == [request |-> builds, response |-> parses]

Operations ==
  [GetSshKeys |-> Op(GetSshKeysRequest, GetSshKeysResponse),
   UpdateSshKeys |-> Op(UpdateSshKeysRequest, UpdateSshKeysResponse),
   ListBilling |-> Op(ListBillingRequest, ListBillingResponse),
   ListClusterBilling |-> Op(ListClusterBillingRequest, ListClusterBillingResponse),
   ListEndpointBilling |-> Op(ListEndpointBillingRequest, ListEndpointBillingResponse),
   ListNetworkVolumeBilling |-> Op(ListNetworkVolumeBillingRequest, ListNetworkVolumeBillingResponse),
   ListPodBilling |-> Op(ListPodBillingRequest, ListPodBillingResponse),
   ListServerlessBilling |-> Op(ListServerlessBillingRequest, ListServerlessBillingResponse),
   ListCpuTypes |-> Op(ListCpuTypesRequest, ListCpuTypesResponse),
   GetCpuType |-> Op(GetCpuTypeRequest, GetCpuTypeResponse),
   ListDataCenters |-> Op(ListDataCentersRequest, ListDataCentersResponse),
   GetDataCenter |-> Op(GetDataCenterRequest, GetDataCenterResponse),
   ListGpuTypes |-> Op(ListGpuTypesRequest, ListGpuTypesResponse),
   GetGpuType |-> Op(GetGpuTypeRequest, GetGpuTypeResponse),
   ListPublicTemplates |-> Op(ListPublicTemplatesRequest, ListPublicTemplatesResponse),
   ListClusters |-> Op(ListClustersRequest, ListClustersResponse),
   CreateCluster |-> Op(CreateClusterRequest, CreateClusterResponse),
   DeleteCluster |-> Op(DeleteClusterRequest, DeleteClusterResponse),
   GetCluster |-> Op(GetClusterRequest, GetClusterResponse),
   UpdateCluster |-> Op(UpdateClusterRequest, UpdateClusterResponse),
   ListClusterPods |-> Op(ListClusterPodsRequest, ListClusterPodsResponse),
   ListNetworkVolumes |-> Op(ListNetworkVolumesRequest, ListNetworkVolumesResponse),
   CreateNetworkVolume |-> Op(CreateNetworkVolumeRequest, CreateNetworkVolumeResponse),
   DeleteNetworkVolume |-> Op(DeleteNetworkVolumeRequest, DeleteNetworkVolumeResponse),
   GetNetworkVolume |-> Op(GetNetworkVolumeRequest, GetNetworkVolumeResponse),
   UpdateNetworkVolume |-> Op(UpdateNetworkVolumeRequest, UpdateNetworkVolumeResponse),
   ListPods |-> Op(ListPodsRequest, ListPodsResponse),
   CreatePod |-> Op(CreatePodRequest, CreatePodResponse),
   DeletePod |-> Op(DeletePodRequest, DeletePodResponse),
   GetPod |-> Op(GetPodRequest, GetPodResponse),
   UpdatePod |-> Op(UpdatePodRequest, UpdatePodResponse),
   PodAction |-> Op(PodActionRequest, PodActionResponse),
   GetPodLogs |-> Op(GetPodLogsRequest, GetPodLogsResponse),
   ListRegistries |-> Op(ListRegistriesRequest, ListRegistriesResponse),
   CreateRegistry |-> Op(CreateRegistryRequest, CreateRegistryResponse),
   ListDelegations |-> Op(ListDelegationsRequest, ListDelegationsResponse),
   CreateDelegation |-> Op(CreateDelegationRequest, CreateDelegationResponse),
   RevokeDelegation |-> Op(RevokeDelegationRequest, RevokeDelegationResponse),
   DeleteRegistry |-> Op(DeleteRegistryRequest, DeleteRegistryResponse),
   GetRegistry |-> Op(GetRegistryRequest, GetRegistryResponse),
   ListEndpoints |-> Op(ListEndpointsRequest, ListEndpointsResponse),
   CreateEndpoint |-> Op(CreateEndpointRequest, CreateEndpointResponse),
   DeleteEndpoint |-> Op(DeleteEndpointRequest, DeleteEndpointResponse),
   GetEndpoint |-> Op(GetEndpointRequest, GetEndpointResponse),
   UpdateEndpoint |-> Op(UpdateEndpointRequest, UpdateEndpointResponse),
   ListEndpointReleases |-> Op(ListEndpointReleasesRequest, ListEndpointReleasesResponse),
   ListEndpointWorkers |-> Op(ListEndpointWorkersRequest, ListEndpointWorkersResponse),
   GetWorkerLogs |-> Op(GetWorkerLogsRequest, GetWorkerLogsResponse),
   ListTemplates |-> Op(ListTemplatesRequest, ListTemplatesResponse),
   CreateTemplate |-> Op(CreateTemplateRequest, CreateTemplateResponse),
   DeleteTemplate |-> Op(DeleteTemplateRequest, DeleteTemplateResponse),
   GetTemplate |-> Op(GetTemplateRequest, GetTemplateResponse),
   UpdateTemplate |-> Op(UpdateTemplateRequest, UpdateTemplateResponse)]
=============================================================================
