---------------------------- MODULE MCApiClient ----------------------------
(* Instances of ApiClient for TLC: all operations, four base URLs. *)
EXTENDS ApiClient, FiniteSets

\* https://host, https://host/, https://host/gateway and https://host/gateway/
MCBases == [path : {<<>>, <<"gateway">>}, slash : BOOLEAN]

\* A success, one that no operation documents, one without a body, a redirect
\* without a Location, a problem that is documented, two that may not be, and a
\* failure of the server.
MCStatuses == {200, 201, 202, 204, 302, 401, 404, 429, 500}

\* No two operations answer to the same method at the same path.
ASSUME OperationsApart ==
  /\ Cardinality(DOMAIN Operations) = 53
  /\ \A o1, o2 \in DOMAIN Operations :
       /\ Operations[o1].request.method = Operations[o2].request.method
       /\ Operations[o1].request.path = Operations[o2].request.path
       => o1 = o2

\* Each call of a Poll is of an operation that the client has, with parameters
\* that it takes.
ASSUME CallsExist ==
  \A p \in AllPolls : \A i \in DOMAIN p.calls :
    /\ p.calls[i].op \in DOMAIN Operations
    /\ p.calls[i].params \subseteq Operations[p.calls[i].op].request.optional
=============================================================================
