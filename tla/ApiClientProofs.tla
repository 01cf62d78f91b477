-------------------------- MODULE ApiClientProofs --------------------------
(* Theorems about ApiClient, for any base URLs, statuses and operations. *)
EXTENDS ApiClient, TLAPS

\* A response that Poll may take for its answer.
Genuine == /\ response.status = 200 /\ response.json
           /\ response.content # "other" /\ body = "closed"

\* Where the call is says which verdict there can be, and whether the body is
\* open; what Poll is left to check is that the field is that of JSON200.
CallInv ==
  /\ pc \in {"building", "sending", "reading", "checking", "returned"}
  /\ pc # "returned" => verdict = "pending"
  /\ pc \in {"building", "sending"} => body = "none"
  /\ pc \in {"checking", "returned"} => body # "open"
  /\ pc = "checking" /\ field = "json" => Genuine
  /\ verdict = "answered" /\ op \in PollOps => Genuine

\* While Do is under way there is a request: the operation's, for the base as it
\* was given, or one that a redirect has led to, which reads if the first did.
SentInv ==
  /\ pc = "sending" => sent # NoRequest
  /\ UnderBase
  /\ PollsOnlyRead

-----------------------------------------------------------------------------
(* The table of the operations.                                            *)

Methods == {"GET", "POST", "PUT", "PATCH", "DELETE"}
RequestOK(r) == r.method \in Methods /\ r.json \in BOOLEAN

LEMMA RequestsAre ==
  /\ \A path, optional : RequestOK(Get(path, optional))
  /\ \A path : /\ RequestOK(Post(path)) /\ RequestOK(Put(path)) /\ RequestOK(Patch(path))
               /\ RequestOK(Delete(path))
BY DEF RequestOK, Methods, Get, Post, Put, Patch, Delete, Request

\* Each of the 53 operations builds a request with a method.
LEMMA OperationsAre ==
  \A o \in DOMAIN Operations : RequestOK(Operations[o].request)
<1>1. \A r \in {GetSshKeysRequest, UpdateSshKeysRequest, ListBillingRequest,
            ListClusterBillingRequest, ListEndpointBillingRequest,
            ListNetworkVolumeBillingRequest, ListPodBillingRequest,
            ListServerlessBillingRequest, ListCpuTypesRequest, GetCpuTypeRequest,
            ListDataCentersRequest, GetDataCenterRequest, ListGpuTypesRequest,
            GetGpuTypeRequest, ListPublicTemplatesRequest, ListClustersRequest,
            CreateClusterRequest, DeleteClusterRequest, GetClusterRequest,
            UpdateClusterRequest, ListClusterPodsRequest, ListNetworkVolumesRequest,
            CreateNetworkVolumeRequest, DeleteNetworkVolumeRequest, GetNetworkVolumeRequest,
            UpdateNetworkVolumeRequest, ListPodsRequest, CreatePodRequest, DeletePodRequest,
            GetPodRequest, UpdatePodRequest, PodActionRequest, GetPodLogsRequest,
            ListRegistriesRequest, CreateRegistryRequest, ListDelegationsRequest,
            CreateDelegationRequest, RevokeDelegationRequest, DeleteRegistryRequest,
            GetRegistryRequest, ListEndpointsRequest, CreateEndpointRequest,
            DeleteEndpointRequest, GetEndpointRequest, UpdateEndpointRequest,
            ListEndpointReleasesRequest, ListEndpointWorkersRequest, GetWorkerLogsRequest,
            ListTemplatesRequest, CreateTemplateRequest, DeleteTemplateRequest,
            GetTemplateRequest, UpdateTemplateRequest} :
        RequestOK(r)
  BY RequestsAre DEF GetSshKeysRequest, UpdateSshKeysRequest, ListBillingRequest, ListClusterBillingRequest,
     ListEndpointBillingRequest, ListNetworkVolumeBillingRequest, ListPodBillingRequest,
     ListServerlessBillingRequest, ListCpuTypesRequest, GetCpuTypeRequest,
     ListDataCentersRequest, GetDataCenterRequest, ListGpuTypesRequest, GetGpuTypeRequest,
     ListPublicTemplatesRequest, ListClustersRequest, CreateClusterRequest,
     DeleteClusterRequest, GetClusterRequest, UpdateClusterRequest, ListClusterPodsRequest,
     ListNetworkVolumesRequest, CreateNetworkVolumeRequest, DeleteNetworkVolumeRequest,
     GetNetworkVolumeRequest, UpdateNetworkVolumeRequest, ListPodsRequest, CreatePodRequest,
     DeletePodRequest, GetPodRequest, UpdatePodRequest, PodActionRequest, GetPodLogsRequest,
     ListRegistriesRequest, CreateRegistryRequest, ListDelegationsRequest,
     CreateDelegationRequest, RevokeDelegationRequest, DeleteRegistryRequest,
     GetRegistryRequest, ListEndpointsRequest, CreateEndpointRequest, DeleteEndpointRequest,
     GetEndpointRequest, UpdateEndpointRequest, ListEndpointReleasesRequest,
     ListEndpointWorkersRequest, GetWorkerLogsRequest, ListTemplatesRequest,
     CreateTemplateRequest, DeleteTemplateRequest, GetTemplateRequest, UpdateTemplateRequest
<1>2. \A o \in DOMAIN Operations :
        Operations[o].request \in
           {GetSshKeysRequest, UpdateSshKeysRequest, ListBillingRequest,
            ListClusterBillingRequest, ListEndpointBillingRequest,
            ListNetworkVolumeBillingRequest, ListPodBillingRequest,
            ListServerlessBillingRequest, ListCpuTypesRequest, GetCpuTypeRequest,
            ListDataCentersRequest, GetDataCenterRequest, ListGpuTypesRequest,
            GetGpuTypeRequest, ListPublicTemplatesRequest, ListClustersRequest,
            CreateClusterRequest, DeleteClusterRequest, GetClusterRequest,
            UpdateClusterRequest, ListClusterPodsRequest, ListNetworkVolumesRequest,
            CreateNetworkVolumeRequest, DeleteNetworkVolumeRequest, GetNetworkVolumeRequest,
            UpdateNetworkVolumeRequest, ListPodsRequest, CreatePodRequest, DeletePodRequest,
            GetPodRequest, UpdatePodRequest, PodActionRequest, GetPodLogsRequest,
            ListRegistriesRequest, CreateRegistryRequest, ListDelegationsRequest,
            CreateDelegationRequest, RevokeDelegationRequest, DeleteRegistryRequest,
            GetRegistryRequest, ListEndpointsRequest, CreateEndpointRequest,
            DeleteEndpointRequest, GetEndpointRequest, UpdateEndpointRequest,
            ListEndpointReleasesRequest, ListEndpointWorkersRequest, GetWorkerLogsRequest,
            ListTemplatesRequest, CreateTemplateRequest, DeleteTemplateRequest,
            GetTemplateRequest, UpdateTemplateRequest}
  BY DEF Operations, Op
<1> QED
  BY <1>1, <1>2

\* The operations that there are in Polls.
Polled == {"ListPods", "ListEndpoints", "ListEndpointWorkers", "ListGpuTypes", "ListCpuTypes",
           "ListClusters", "ListRegistries", "ListDelegations", "ListBilling", "GetSshKeys",
           "ListTemplates", "ListNetworkVolumes"}

LEMMA PollsAsk == \A p \in AllPolls : Asks(p) \subseteq Polled
<1> DEFINE Calls(p) == {p.calls[i].op : i \in DOMAIN p.calls}
<1>1. /\ Calls(Pod) \subseteq Polled /\ Calls(Serverless) \subseteq Polled
      /\ Calls(Cluster) \subseteq Polled /\ Calls(Billing) \subseteq Polled
      /\ Calls(Account) \subseteq Polled /\ Calls(Registry) \subseteq Polled
      /\ Calls(Template) \subseteq Polled /\ Calls(NetworkVolume) \subseteq Polled
  BY DEF Pod, Serverless, Cluster, Billing, Account, Registry, Template, NetworkVolume, Simple,
         Ask, Polled
<1>2. Calls(Catalog) \subseteq Polled
  BY DEF Catalog, Ask, Polled
<1>3. DetailOp \in Polled
  BY DEF DetailOp, Polled
<1>4. \A p \in AllPolls : Calls(p) \subseteq Polled
  BY <1>1, <1>2 DEF AllPolls
<1> QED
  BY <1>3, <1>4 DEF Asks

\* Each of them reads, and has a typed field for a 200 and for nothing else, so
\* that JSON200 is the field a Poll is to look at.
LEMMA PolledAre ==
  ASSUME NEW o \in PollOps
  PROVE  /\ Operations[o].request.method = "GET" /\ ~Operations[o].request.json
         /\ Operations[o].response.json = {200}
<1>1. o \in Polled
  BY PollsAsk DEF PollOps
<1>2. ASSUME NEW path, NEW optional
      PROVE  Get(path, optional).method = "GET" /\ ~Get(path, optional).json
  BY DEF Get, Request
<1>3. \A problems : Json(200, problems).json = {200}
  BY DEF Json
<1> DEFINE Requested == {ListPodsRequest, ListEndpointsRequest, ListEndpointWorkersRequest,
             ListGpuTypesRequest, ListCpuTypesRequest, ListClustersRequest,
             ListRegistriesRequest, ListDelegationsRequest, ListBillingRequest,
             GetSshKeysRequest, ListTemplatesRequest, ListNetworkVolumesRequest}
           Parsed == {ListPodsResponse, ListEndpointsResponse, ListEndpointWorkersResponse,
             ListGpuTypesResponse, ListCpuTypesResponse, ListClustersResponse,
             ListRegistriesResponse, ListDelegationsResponse, ListBillingResponse,
             GetSshKeysResponse, ListTemplatesResponse, ListNetworkVolumesResponse}
<1>4. \A r \in Requested : r.method = "GET" /\ ~r.json
  BY <1>2 DEF ListPodsRequest, ListEndpointsRequest, ListEndpointWorkersRequest, ListGpuTypesRequest,
         ListCpuTypesRequest, ListClustersRequest, ListRegistriesRequest,
         ListDelegationsRequest, ListBillingRequest, GetSshKeysRequest, ListTemplatesRequest,
         ListNetworkVolumesRequest
<1>5. \A r \in Parsed : r.json = {200}
  BY <1>3 DEF ListPodsResponse, ListEndpointsResponse, ListEndpointWorkersResponse,
         ListGpuTypesResponse, ListCpuTypesResponse, ListClustersResponse,
         ListRegistriesResponse, ListDelegationsResponse, ListBillingResponse,
         GetSshKeysResponse, ListTemplatesResponse, ListNetworkVolumesResponse
<1>6. Operations[o].request \in Requested
  BY <1>1 DEF Polled, Operations, Op
<1>7. Operations[o].response \in Parsed
  BY <1>1 DEF Polled, Operations, Op
<1> HIDE DEF Requested, Parsed
<1> QED
  BY <1>4, <1>5, <1>6, <1>7

-----------------------------------------------------------------------------
\* What is decoded into an operation's only typed field was a 200 of JSON.
LEMMA JsonField ==
  ASSUME op \in PollOps, FieldOf(response) = "json", Decodes(response)
  PROVE  response.status = 200 /\ response.json /\ response.content # "other"
<1>1. Operations[op].response.json = {200}
  BY PolledAre
<1> QED
  BY <1>1 DEF FieldOf, Decodes

LEMMA CallStep == CallInv /\ [ClientNext]_clientVars => CallInv'
<1> SUFFICES ASSUME CallInv, [ClientNext]_clientVars
             PROVE  CallInv'
  OBVIOUS
<1> USE DEF CallInv, Genuine
<1>1. CASE BuildFails
  BY <1>1 DEF BuildFails, Returns
<1>2. CASE Send
  BY <1>2 DEF Send
<1>3. CASE SendFails
  BY <1>3 DEF SendFails, Returns
<1>4. CASE ResponseArrives
  BY <1>4 DEF ResponseArrives
<1>5. CASE ReadFails
  BY <1>5 DEF ReadFails, Returns
<1>6. CASE BodyRead
  <2>1. CASE Decodes(response) /\ op \in PollOps
    <3>1. /\ pc' = "checking" /\ body' = "closed" /\ field' = FieldOf(response)
          /\ UNCHANGED <<verdict, response, op>>
      BY <1>6, <2>1 DEF BodyRead, Returns
    <3>2. pc = "reading" /\ verdict = "pending"
      BY <1>6 DEF BodyRead
    <3>3. field' = "json" => Genuine'
      BY <3>1, <2>1, JsonField
    <3> QED
      BY <3>1, <3>2, <3>3
  <2>2. CASE Decodes(response) /\ op \notin PollOps
    BY <1>6, <2>2 DEF BodyRead, Returns
  <2>3. CASE ~Decodes(response)
    BY <1>6, <2>3 DEF BodyRead, Returns
  <2> QED
    BY <2>1, <2>2, <2>3
<1>7. CASE PollChecks
  BY <1>7 DEF PollChecks
<1>8. CASE ContextEnds
  BY <1>8 DEF ContextEnds, callVars
<1>9. CASE UNCHANGED clientVars
  BY <1>9 DEF clientVars, callVars
<1>10. CASE Redirected
  BY <1>10 DEF Redirected
<1> QED
  BY <1>1, <1>2, <1>3, <1>4, <1>5, <1>6, <1>7, <1>8, <1>9, <1>10 DEF ClientNext, Step, Over

LEMMA CallInvariant == ClientSpec => []CallInv
<1>1. ClientInit => CallInv
  BY DEF ClientInit, CallInv, Genuine
<1> QED
  BY <1>1, CallStep, PTL DEF ClientSpec

\* Only a whole 200 of JSON is ever an answer to a Poll (pod.go:24-30).
THEOREM OnlyGenuineAnswers == ClientSpec => []AnswerIsGenuine
<1>1. CallInv => AnswerIsGenuine
  BY DEF CallInv, Genuine, AnswerIsGenuine
<1> QED
  BY <1>1, CallInvariant, PTL

\* However a call ends, its response's body does not stay open
\* (client_gen.go:21822-21826).
THEOREM BodiesAreClosed == ClientSpec => []NoBodyLeaked
<1>1. CallInv => NoBodyLeaked
  BY DEF CallInv, NoBodyLeaked
<1> QED
  BY <1>1, CallInvariant, PTL

-----------------------------------------------------------------------------
\* With the slash that NewClient adds nothing of the base is replaced.
LEMMA ResolveUnderBase ==
  ASSUME NEW b \in [path : Seq(STRING), slash : BOOLEAN], NEW path
  PROVE  Resolve(Server(b), path) = b.path \o path
BY DEF Resolve, Server

\* What is sent is the operation's request, under the base.
LEMMA SentIs ==
  ASSUME ClientTypeOK, Send
  PROVE  /\ sent' = [method |-> Operations[op].request.method,
                     path   |-> base.path \o Operations[op].request.path,
                     json   |-> Operations[op].request.json,
                     auth   |-> TRUE]
         /\ sent' # NoRequest
<1>1. sent' = [method |-> Operations[op].request.method,
               path   |-> Resolve(Server(base), Operations[op].request.path),
               json   |-> Operations[op].request.json,
               auth   |-> TRUE]
  BY DEF Send
<1>2. base \in [path : Seq(STRING), slash : BOOLEAN]
  BY ClientAssumption DEF ClientTypeOK
<1>3. Resolve(Server(base), Operations[op].request.path) = base.path \o Operations[op].request.path
  BY <1>2, ResolveUnderBase
<1>4. sent'.auth = TRUE
  BY <1>1
<1>5. sent' # NoRequest
  BY <1>4 DEF NoRequest
<1> QED
  BY <1>1, <1>3, <1>5

\* What a redirect leads to is another request, with the same method and body or
\* with GET and none.
LEMMA RedirectIs ==
  ASSUME ClientTypeOK, SentInv, Redirected
  PROVE  /\ sent \in Requests /\ sent' \in Requests
         /\ sent'.path = Location /\ sent' # NoRequest
         /\ sent'.method \in {sent.method, "GET"} /\ (sent'.json => sent.json)
<1>1. sent \in Requests
  BY DEF Redirected, SentInv, ClientTypeOK
<1>2. PICK kept \in BOOLEAN, auth \in BOOLEAN :
        sent' = [sent EXCEPT !.path   = Location,
                             !.method = IF kept THEN @ ELSE "GET",
                             !.json   = kept /\ @,
                             !.auth   = auth]
  BY DEF Redirected
<1>3. /\ sent'.path = Location /\ sent'.method = (IF kept THEN sent.method ELSE "GET")
      /\ sent'.json = (kept /\ sent.json) /\ sent'.auth = auth
  BY <1>1, <1>2 DEF Requests
<1>4. sent' \in Requests
  BY <1>1, <1>2 DEF Requests
<1>5. sent'.method # "none"
  BY <1>4 DEF Requests
<1>6. sent' # NoRequest
  BY <1>5 DEF NoRequest
<1> QED
  BY <1>1, <1>3, <1>4, <1>6

LEMMA SentStep == ClientTypeOK /\ SentInv /\ [ClientNext]_clientVars => SentInv'
<1> SUFFICES ASSUME ClientTypeOK, SentInv, [ClientNext]_clientVars
             PROVE  SentInv'
  OBVIOUS
<1>1. CASE Send
  <2>1. base' = base /\ op' = op
    BY <1>1 DEF Send
  <2> DEFINE request == Operations[op].request
             made == [method |-> request.method, path |-> base.path \o request.path,
                      json |-> request.json, auth |-> TRUE]
  <2>0. sent' = made /\ sent' # NoRequest
    BY <1>1, SentIs
  <2> HIDE DEF request
  <2>2. /\ sent'.path = base.path \o request.path /\ sent'.method = request.method
        /\ sent'.json = request.json
    BY <2>0, Zenon
  <2>3. op \in PollOps => sent'.method = "GET" /\ ~sent'.json
    BY <2>2, PolledAre DEF request
  <2>4. UnderBase' /\ PollsOnlyRead'
    BY <2>1, <2>2, <2>3 DEF UnderBase, PollsOnlyRead, request
  <2>5. sent' # NoRequest
    BY <2>0
  <2> QED
    BY <2>4, <2>5 DEF SentInv
<1>2. CASE Redirected
  <2>1. pc = "sending" /\ UNCHANGED <<base, op, pc>>
    BY <1>2 DEF Redirected
  <2>2. /\ sent'.path = Location /\ sent' # NoRequest
        /\ sent'.method \in {sent.method, "GET"} /\ (sent'.json => sent.json)
    BY <1>2, RedirectIs
  <2>3. op \in PollOps => sent.method = "GET" /\ ~sent.json
    BY <2>1 DEF SentInv, PollsOnlyRead
  <2> QED
    BY <2>1, <2>2, <2>3 DEF SentInv, UnderBase, PollsOnlyRead
<1>3. CASE UNCHANGED <<base, op, sent>> /\ (pc' = "sending" => pc = "sending")
  BY <1>3 DEF SentInv, UnderBase, PollsOnlyRead
<1>4. BuildFails \/ SendFails \/ ResponseArrives \/ ReadFails \/ BodyRead \/ PollChecks
        \/ ContextEnds \/ Over \/ UNCHANGED clientVars
      => UNCHANGED <<base, op, sent>> /\ (pc' = "sending" => pc = "sending")
  BY DEF BuildFails, SendFails, ResponseArrives, ReadFails, BodyRead, PollChecks, ContextEnds,
         Over, Returns, clientVars, callVars
<1> QED
  BY <1>1, <1>2, <1>3, <1>4 DEF ClientNext, Step

LEMMA PathIsOne ==
  ASSUME NEW b \in Bases, NEW o \in DOMAIN Operations
  PROVE  b.path \o Operations[o].request.path \in Paths
<1> DEFINE Under(x) == {x.path \o Operations[q].request.path : q \in DOMAIN Operations}
<1>1. b.path \o Operations[o].request.path \in Under(b)
  BY Zenon
<1>2. Paths = UNION {Under(x) : x \in Bases}
  BY Zenon DEF Paths
<1> HIDE DEF Under
<1> QED
  BY <1>1, <1>2, Zenon

LEMMA TypeStep == ClientTypeOK /\ SentInv /\ CallInv /\ [ClientNext]_clientVars => ClientTypeOK'
<1> SUFFICES ASSUME ClientTypeOK, SentInv, CallInv, [ClientNext]_clientVars
             PROVE  ClientTypeOK'
  OBVIOUS
<1> DEFINE Ended == /\ failure' \in {"none", "build", "transport", "decode", "status"}
                    /\ pc' \in {"building", "sending", "reading", "checking", "returned"}
                    /\ verdict' \in {"pending", "answered", "failed"}
                    /\ verdict' = "failed" <=> failure' # "none"
<1>0. ASSUME NEW e \in {"none", "build", "transport", "decode"}, pc # "returned", Returns(e)
      PROVE  Ended
  BY <1>0 DEF Returns, ClientTypeOK, CallInv
<1>1. CASE BuildFails \/ SendFails \/ ReadFails
  <2>1. Returns("build") \/ Returns("transport")
    BY <1>1 DEF BuildFails, SendFails, ReadFails
  <2>2. /\ UNCHANGED <<base, op, context, sent, response, field>> /\ body' \in {body, "closed"}
        /\ pc # "returned"
    BY <1>1 DEF BuildFails, SendFails, ReadFails
  <2>3. Ended
    BY <1>0, <2>1, <2>2
  <2> QED
    BY <2>2, <2>3 DEF ClientTypeOK
<1>2. CASE Send
  <2> DEFINE request == Operations[op].request
  <2>1. /\ pc' = "sending"
        /\ UNCHANGED <<base, op, context, response, body, field, failure, verdict>>
    BY <1>2 DEF Send
  <2>2. sent' = [method |-> request.method, path |-> base.path \o request.path,
                 json |-> request.json, auth |-> TRUE]
    BY <1>2, SentIs
  <2>3. base \in Bases /\ op \in DOMAIN Operations
    BY DEF ClientTypeOK
  <2>4. base.path \o request.path \in Paths
    BY <2>3, PathIsOne
  <2>5. request.method \in Methods /\ request.json \in BOOLEAN
    BY <2>3, OperationsAre DEF RequestOK
  <2> HIDE DEF request
  <2>6. sent' \in Requests /\ sent'.auth
    BY <2>2, <2>4, <2>5 DEF Requests, Methods
  <2> QED
    BY <2>1, <2>6 DEF ClientTypeOK
<1>3. CASE Redirected
  <2>1. UNCHANGED <<base, op, context, pc, response, body, field, failure, verdict>>
    BY <1>3 DEF Redirected
  <2>2. sent' \in Requests /\ sent'.path = Location
    BY <1>3, RedirectIs
  <2> QED
    BY <2>1, <2>2 DEF ClientTypeOK
<1>4. CASE ResponseArrives
  BY <1>4 DEF ResponseArrives, ClientTypeOK
<1>5. CASE BodyRead
  <2>1. UNCHANGED <<base, op, context, sent, response>> /\ body' = "closed" /\ pc # "returned"
    BY <1>5 DEF BodyRead
  <2>2. Returns("none") \/ Returns("decode")
    BY <1>5 DEF BodyRead
  <2>3. field' \in Fields
    BY <1>5 DEF BodyRead, FieldOf, Fields, ClientTypeOK
  <2>4. Ended
    BY <1>0, <2>1, <2>2
  <2> QED
    BY <2>1, <2>3, <2>4 DEF ClientTypeOK
<1>6. CASE PollChecks
  BY <1>6 DEF PollChecks, ClientTypeOK, CallInv
<1>7. CASE ContextEnds \/ Over \/ UNCHANGED clientVars
  BY <1>7 DEF ContextEnds, Over, clientVars, callVars, ClientTypeOK
<1> QED
  BY <1>1, <1>2, <1>3, <1>4, <1>5, <1>6, <1>7 DEF ClientNext, Step

LEMMA SentInvariant == ClientSpec => [](ClientTypeOK /\ SentInv)
<1>1. ClientInit => SentInv
  BY DEF ClientInit, SentInv, UnderBase, PollsOnlyRead
<1>2. ClientInit => ClientTypeOK
  BY DEF ClientInit, ClientTypeOK, Fields
<1> QED
  BY <1>1, <1>2, CallInvariant, SentStep, TypeStep, PTL DEF ClientSpec

\* Type correctness, for all operations and any base URLs and statuses; of a
\* request, that it is one of an operation and has the token, or is redirected.
THEOREM ClientTypeCorrect == ClientSpec => []ClientTypeOK
  BY SentInvariant, PTL

\* Every request that the client makes is under the configured URL, with or
\* without a slash at its end, whatever the operation (client_gen.go:4224-4228,
\* 4249-4251).
THEOREM RequestsUnderBase == ClientSpec => []UnderBase
<1>1. SentInv => UnderBase
  BY DEF SentInv
<1> QED
  BY <1>1, SentInvariant, PTL

\* No Poll ever changes anything in the account: each of the twelve operations
\* that there are in Polls is a GET without a body (README.md:16-17), and remains
\* one through redirects.
THEOREM PollsNeverWrite == ClientSpec => []PollsOnlyRead
<1>1. SentInv => PollsOnlyRead
  BY DEF SentInv
<1> QED
  BY <1>1, SentInvariant, PTL

-----------------------------------------------------------------------------
LEMMA CallSimulates == CallInv /\ [ClientNext]_clientVars => [Call!Next]_(Call!vars)
<1> SUFFICES ASSUME CallInv, [ClientNext]_clientVars
             PROVE  Call!Next \/ UNCHANGED Call!vars
  OBVIOUS
<1> USE DEF Call!Next, Call!CallEnds, Call!ContextEnds, Call!vars
<1>1. CASE BuildFails \/ SendFails \/ ReadFails \/ BodyRead
  <2>1. verdict = "pending" /\ UNCHANGED context
    BY <1>1 DEF CallInv, BuildFails, SendFails, ReadFails, BodyRead
  <2>2. \E error \in {"none", "build", "transport", "decode"} : Returns(error)
    BY <1>1 DEF BuildFails, SendFails, ReadFails, BodyRead
  <2>3. verdict' \in {"answered", "failed"} \/ UNCHANGED verdict
    BY <2>2 DEF Returns
  <2> QED
    BY <2>1, <2>3
<1>2. CASE PollChecks
  BY <1>2 DEF PollChecks, CallInv
<1>3. CASE ContextEnds
  BY <1>3 DEF ContextEnds, callVars
<1>4. CASE Send \/ Redirected \/ ResponseArrives \/ Over \/ UNCHANGED clientVars
  BY <1>4 DEF Send, Redirected, ResponseArrives, Over, clientVars, callVars
<1> QED
  BY <1>1, <1>2, <1>3, <1>4 DEF ClientNext, Step

\* A call, the Poll's own check included, is answered or fails, once: ApiClient
\* implements the safety part of ApiCall.
THEOREM ClientImplementsCall == ClientSpec => Call!Spec
<1>1. ClientInit => Call!Init
  BY DEF ClientInit, Call!Init
<1> QED
  BY <1>1, CallInvariant, CallSimulates, PTL DEF ClientSpec, Call!Spec
=============================================================================
