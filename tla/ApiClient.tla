----------------------------- MODULE ApiClient -----------------------------
(***************************************************************************)
(* One call of the Runpod API: collector.NewClient, the generated client   *)
(* of openapi/client_gen.go, and the check every Poll makes on what it     *)
(* gets.  ApiOperations has the operations; ListPods stands for all in the *)
(* lines this module is mapped to.                                         *)
(*                                                                         *)
(* The http.Client has no timeout of its own: until the context ends a     *)
(* request may stay unanswered and a response unfinished, for ever.  Of    *)
(* net/http (external) the module has that both fail once it has ended, and *)
(* that Do follows redirects.                                              *)
(***************************************************************************)
EXTENDS ApiOperations, DomainPolls, Naturals

CONSTANTS Bases,    \* values of api-url: the path, and whether it ends in "/"
          Statuses  \* bound: the statuses a response may have

ASSUME ClientAssumption ==
  /\ Bases \subseteq [path : Seq(STRING), slash : BOOLEAN]
  /\ Statuses \subseteq 200 .. 599

\* The operations that the Polls use.
PollOps == {o \in DOMAIN Operations : \E p \in AllPolls : o \in Asks(p)}

VARIABLES
  base,      \* the api-url
  op,        \* the operation
  context,   \* the caller's context: "live" or "done"
  pc,        \* where the call is
  sent,      \* the request, once it is sent
  response,  \* the response's head, once it has arrived
  body,      \* the response's body: "none", "open" or "closed"
  field,     \* the typed field that the response was decoded into
  failure,   \* the error that the call, or the Poll, returns
  verdict    \* what the Poll makes of it

callVars   == <<sent, response, body, field, failure, verdict>>
clientVars == <<base, op, context, pc, callVars>>

-----------------------------------------------------------------------------
\* The paths of the operations, under those that are configured.
Paths == UNION {{b.path \o Operations[o].request.path : o \in DOMAIN Operations} : b \in Bases}

\* Where a redirect leads to, whatever its response says.
Location == <<"{Location}">>

NoRequest  == [method |-> "none", path |-> <<>>, json |-> FALSE, auth |-> FALSE]
Requests   == [method : {"GET", "POST", "PUT", "PATCH", "DELETE"}, path : Paths \cup {Location},
               json : BOOLEAN, auth : BOOLEAN]
NoResponse == [status |-> 0, json |-> FALSE, content |-> "none", retry |-> "none"]

\* Of a body: a document of the schema, JSON that has none of its members, or
\* anything else.  A Retry-After is in seconds, or a date.
Contents  == {"document", "void", "other"}
Retries   == {"none", "seconds", "date"}
Responses == [status : Statuses, json : BOOLEAN, content : Contents, retry : Retries]

Fields == {"none", "json", "problem", "default"}

\* The values of the variables; the client's own request has the token of the
\* configuration (client.go:16-22), and a call fails just with an error.
ClientTypeOK ==
  /\ base \in Bases
  /\ op \in DOMAIN Operations
  /\ context \in {"live", "done"}
  /\ pc \in {"building", "sending", "reading", "checking", "returned"}
  /\ sent \in Requests \cup {NoRequest}
  /\ response \in Responses \cup {NoResponse}
  /\ body \in {"none", "open", "closed"}
  /\ field \in Fields
  /\ failure \in {"none", "build", "transport", "decode", "status"}
  /\ verdict \in {"pending", "answered", "failed"}
  /\ sent # NoRequest /\ sent.path # Location => sent.auth
  /\ verdict = "failed" <=> failure # "none"

ClientInit ==
  /\ base \in Bases
  /\ op \in DOMAIN Operations
  /\ context = "live"
  /\ pc = "building"
  /\ sent = NoRequest
  /\ response = NoResponse
  /\ body = "none"
  /\ field = "none"
  /\ failure = "none"
  /\ verdict = "pending"

-----------------------------------------------------------------------------
(* The request.                                                            *)

ServerAsGiven(b) == b  \* mutant of Server: no slash is added

\* NewClient ensures that the server URL ends in a slash.
Server(b) == [b EXCEPT !.slash = TRUE]

\* "./" and the operation's path, resolved against the server URL: what comes
\* after its last slash is replaced.
Resolve(server, path) ==
  (IF server.slash \/ server.path = <<>> THEN server.path
                                         ELSE SubSeq(server.path, 1, Len(server.path) - 1)) \o path

\* The call is over for the generated client.  A Poll goes on to check.
Returns(error) ==
  /\ failure' = error
  /\ IF error = "none" /\ op \in PollOps
       THEN pc' = "checking" /\ UNCHANGED verdict
       ELSE pc' = "returned" /\ verdict' = IF error = "none" THEN "answered" ELSE "failed"

\* json.Marshal rejects the body, a union that holds no JSON.
BuildFails ==
  /\ pc = "building"
  /\ Operations[op].request.json
  /\ Returns("build")
  /\ UNCHANGED <<base, op, context, sent, response, body, field>>

\* Mutant of Send: the client is made without its request editor.
SendBare ==
  /\ pc = "building"
  /\ LET request == Operations[op].request IN
       sent' = [method |-> request.method, path |-> Resolve(Server(base), request.path),
                json |-> request.json, auth |-> FALSE]
  /\ pc' = "sending"
  /\ UNCHANGED <<base, op, context, response, body, field, failure, verdict>>

\* The request gets the context and the Authorization header, and Do begins.
Send ==
  /\ pc = "building"
  /\ LET request == Operations[op].request IN
       sent' = [method |-> request.method, path |-> Resolve(Server(base), request.path),
                json |-> request.json, auth |-> TRUE]
  /\ pc' = "sending"
  /\ UNCHANGED <<base, op, context, response, body, field, failure, verdict>>

\* Do follows a redirect: of a 307 or 308 with the same method and body, of any
\* other with a GET; and with the token, if it is to the same host.
Redirected ==
  /\ pc = "sending"
  /\ \E kept, auth \in BOOLEAN :
       sent' = [sent EXCEPT !.path   = Location,
                            !.method = IF kept THEN @ ELSE "GET",
                            !.json   = kept /\ @,
                            !.auth   = auth]
  /\ UNCHANGED <<base, op, context, pc, response, body, field, failure, verdict>>

\* Mutant of SendFails: the request is not given the context.
SendFailsContextless ==
  /\ pc = "sending"
  /\ context = "live"
  /\ Returns("transport")
  /\ UNCHANGED <<base, op, context, sent, response, body, field>>

\* Do fails: no connection, one that breaks, too many redirects, or the end of the
\* context.
SendFails ==
  /\ pc = "sending"
  /\ Returns("transport")
  /\ UNCHANGED <<base, op, context, sent, response, body, field>>

-----------------------------------------------------------------------------
(* The response.                                                           *)

\* A response that leads nowhere else, a redirect without a Location among them.
ResponseArrives ==
  /\ pc = "sending"
  /\ response' \in Responses
  /\ body' = "open"
  /\ pc' = "reading"
  /\ UNCHANGED <<base, op, context, sent, field, failure, verdict>>

\* Mutant of ReadFails: Close is only deferred once the body has been read.
ReadFailsOpen ==
  /\ pc = "reading"
  /\ Returns("transport")
  /\ UNCHANGED <<base, op, context, sent, response, body, field>>

\* io.ReadAll fails: the connection breaks, or the context ends.
ReadFails ==
  /\ pc = "reading"
  /\ body' = "closed"
  /\ Returns("transport")
  /\ UNCHANGED <<base, op, context, sent, response, field>>

\* The first switch of Parse: the field that the response is decoded into.
FieldOf(r) ==
  LET known == Operations[op].response IN
  IF r.status \in known.bare \/ ~r.json THEN "none"
  ELSE IF r.status \in known.json THEN "json"
  ELSE IF r.status \in known.problem THEN "problem"
  ELSE "default"

\* Mutant of Decodes: the error of json.Unmarshal is dropped.
DecodesAnything(r) == ~(r.status = 429 /\ r.retry = "date")

\* Both switches: the field is decoded, then an integer Retry-After is bound.
Decodes(r) ==
  /\ FieldOf(r) # "none" => r.content # "other"
  /\ ~(r.status = 429 /\ r.retry = "date")

\* All of the body has been read, and is parsed.
BodyRead ==
  /\ pc = "reading"
  /\ body' = "closed"
  /\ IF Decodes(response)
       THEN field' = FieldOf(response) /\ Returns("none")
       ELSE UNCHANGED field /\ Returns("decode")
  /\ UNCHANGED <<base, op, context, sent, response>>

\* Mutant of PollChecks: any response without an error is taken.
PollChecksNothing ==
  /\ pc = "checking"
  /\ pc' = "returned"
  /\ verdict' = "answered"
  /\ UNCHANGED <<base, op, context, sent, response, body, field, failure>>

\* Poll: without a JSON200 the response is an error, with its status.
PollChecks ==
  /\ pc = "checking"
  /\ pc' = "returned"
  /\ IF field = "json"
       THEN verdict' = "answered" /\ UNCHANGED failure
       ELSE verdict' = "failed" /\ failure' = "status"
  /\ UNCHANGED <<base, op, context, sent, response, body, field>>

-----------------------------------------------------------------------------
\* The poll's deadline, or the end of the grace after shutdown.
ContextEnds ==
  /\ context = "live"
  /\ pc # "returned"
  /\ context' = "done"
  /\ UNCHANGED <<base, op, pc, callVars>>

Over == pc = "returned" /\ UNCHANGED clientVars

Step ==
  \/ BuildFails \/ Send \/ Redirected \/ SendFails
  \/ ResponseArrives \/ ReadFails \/ BodyRead \/ PollChecks

ClientNext == Step \/ ContextEnds \/ Over

ClientSpec == ClientInit /\ [][ClientNext]_clientVars

\* The goroutine runs; and net/http gives up once the context has ended.
ClientFairness ==
  /\ WF_clientVars(Send \/ BuildFails)
  /\ WF_clientVars(context = "done" /\ (SendFails \/ ReadFails))
  /\ WF_clientVars(PollChecks)

ClientFairSpec == ClientSpec /\ ClientFairness

-----------------------------------------------------------------------------
(* Properties.                                                             *)

\* A Poll only ever takes a response for its answer that was a 200, said it was
\* JSON, was read to its end and decoded: never a page of a proxy, a redirect that
\* leads nowhere, a problem, or a body that was cut off (pod.go:24-30).
AnswerIsGenuine ==
  verdict = "answered" /\ op \in PollOps =>
    /\ response.status = 200 /\ response.json
    /\ response.content # "other" /\ body = "closed"

\* However a call ends, its response's body, and with it the connection, is not
\* left open (client_gen.go:21822-21826).
NoBodyLeaked == pc \in {"checking", "returned"} => body # "open"

\* The client's requests are made under the configured URL, whose path may or may
\* not end in a slash (client_gen.go:4224-4228, "all the paths in the swagger spec
\* will be appended to the server"); what a redirect leads to need not be.
UnderBase ==
  sent # NoRequest /\ sent.path # Location =>
    sent.path = base.path \o Operations[op].request.path

\* The exporter needs no more than a read-only key: a Poll's requests are GETs
\* without a body, wherever they are redirected to (README.md:16-17).
PollsOnlyRead == sent # NoRequest /\ op \in PollOps => sent.method = "GET" /\ ~sent.json

\* A call, fair or not to its caller, is what Poll relies on: it ends once, and
\* does end when its context does.
Call == INSTANCE ApiCall
ImplementsApiCall == Call!FairSpec

\* What plans/0001-v1-exporter.md:202-204 says of errors, "a non-2xx response is
\* wrapped into an error that includes the status code": so does that of a Poll
\* whose response was read to its end.
StatusReported ==
  verdict = "failed" /\ op \in PollOps /\ response.status >= 300 =>
    failure \in {"status", "transport"}
=============================================================================
