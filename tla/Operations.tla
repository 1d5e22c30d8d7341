----------------------------- MODULE Operations -----------------------------
(***************************************************************************)
(* The operations of the AppRun dedicated API as the generated bindings    *)
(* carry them: how the client builds the request of each and reads the     *)
(* response (oas_client_gen.go, oas_response_decoders_gen.go), how the     *)
(* server finds the operation of a request (oas_router_gen.go), takes its  *)
(* parameters (oas_parameters_gen.go) and its body, and writes the answer  *)
(* of the handler (oas_handlers_gen.go).  The generated functions of two   *)
(* operations differ in what the tables below say and in nothing else that *)
(* changes what is sent or done; spans, counters and middleware are left   *)
(* out.                                                                    *)
(*                                                                         *)
(* A path is a sequence of words and of names of parameters.  Sent, it is  *)
(* a sequence of words and values; the router hands the values on by       *)
(* position.                                                               *)
(***************************************************************************)
EXTENDS Messages

\* The status of what the service's own NewError makes of an error.
CONSTANT ErrorCode

-----------------------------------------------------------------------------
(***************************************************************************)
(* What an operation has on each side.                                     *)
(***************************************************************************)
Send(method, path, query, body) ==
    [method |-> method, path |-> path, query |-> query, body |-> body]
Get(path, query) == Send("GET", path, query, NoMessage)
Post(path, body) == Send("POST", path, {}, body)
Put(path, body) == Send("PUT", path, {}, body)
Delete(path) == Send("DELETE", path, {}, NoMessage)

Answer(code, message) == [code |-> code, message |-> message]
NoContent == Answer(204, NoMessage)

Params(path, query) == [path |-> path, query |-> query]
PathNames(params) == {params.path[i] : i \in DOMAIN params.path}
Handler(params, body, answer) ==
    [params |-> params, body |-> body, answer |-> answer]

\* A query parameter whose value is not checked.
Free == Within(-Unbounded, Unbounded)
NoQuery == <<>>
NoParams == Params(<<>>, NoQuery)

\* Of the path parameters only the version number has a rule: the others are
\* UUIDs, which the client cannot write wrong.
PathRule(name) ==
    IF name = "version" THEN ApplicationVersionNumberRule ELSE Free

-----------------------------------------------------------------------------
(* Clusters. *)

SendCreateCluster == Post(<<"clusters">>, CreateCluster)
CreateClusterAnswer == Answer(200, CreateClusterResponse)
HandleCreateCluster ==
    Handler(NoParams, CreateCluster, Answer(200, CreateClusterResponse))

ListClustersParams ==
    Params(<<>>,
           [lastClusterID |-> Free, cursor |-> Free, maxItems |-> Within(5, 30)])
SendListClusters ==
    Get(<<"clusters">>, {"lastClusterID", "cursor", "maxItems"})
ListClustersAnswer == Answer(200, ListClusterResponse)
HandleListClusters ==
    Handler(ListClustersParams, NoMessage, Answer(200, ListClusterResponse))

GetClusterParams == Params(<<"clusterID">>, NoQuery)
SendGetCluster == Get(<<"clusters", "clusterID">>, {})
GetClusterAnswer == Answer(200, GetClusterResponse)
HandleGetCluster ==
    Handler(GetClusterParams, NoMessage, Answer(200, GetClusterResponse))

UpdateClusterParams == Params(<<"clusterID">>, NoQuery)
SendUpdateCluster == Put(<<"clusters", "clusterID">>, UpdateCluster)
UpdateClusterAnswer == NoContent
HandleUpdateCluster == Handler(UpdateClusterParams, UpdateCluster, NoContent)

DeleteClusterParams == Params(<<"clusterID">>, NoQuery)
SendDeleteCluster == Delete(<<"clusters", "clusterID">>)
DeleteClusterAnswer == NoContent
HandleDeleteCluster == Handler(DeleteClusterParams, NoMessage, NoContent)

-----------------------------------------------------------------------------
(* Applications. *)

SendCreateApplication == Post(<<"applications">>, CreateApplication)
CreateApplicationAnswer == Answer(200, CreateApplicationResponse)
HandleCreateApplication ==
    Handler(NoParams, CreateApplication,
            Answer(200, CreateApplicationResponse))

ListApplicationsParams ==
    Params(<<>>,
           [clusterID |-> Free, cursor |-> Free, maxItems |-> Within(1, 30)])
SendListApplications ==
    Get(<<"applications">>, {"clusterID", "cursor", "maxItems"})
ListApplicationsAnswer == Answer(200, ListApplicationResponse)
HandleListApplications ==
    Handler(ListApplicationsParams, NoMessage, Answer(200, ListApplicationResponse))

GetApplicationParams == Params(<<"applicationID">>, NoQuery)
SendGetApplication == Get(<<"applications", "applicationID">>, {})
GetApplicationAnswer == Answer(200, GetApplicationResponse)
HandleGetApplication ==
    Handler(GetApplicationParams, NoMessage, Answer(200, GetApplicationResponse))

UpdateApplicationParams == Params(<<"applicationID">>, NoQuery)
SendUpdateApplication ==
    Put(<<"applications", "applicationID">>, UpdateApplication)
UpdateApplicationAnswer == NoContent
HandleUpdateApplication ==
    Handler(UpdateApplicationParams, UpdateApplication, NoContent)

DeleteApplicationParams == Params(<<"applicationID">>, NoQuery)
SendDeleteApplication == Delete(<<"applications", "applicationID">>)
DeleteApplicationAnswer == NoContent
HandleDeleteApplication == Handler(DeleteApplicationParams, NoMessage, NoContent)

GetApplicationContainersParams == Params(<<"applicationID">>, NoQuery)
SendGetApplicationContainers ==
    Get(<<"applications", "applicationID", "containers">>, {})
GetApplicationContainersAnswer ==
    Answer(200, GetApplicationContainersResponse)
HandleGetApplicationContainers ==
    Handler(GetApplicationContainersParams, NoMessage,
            Answer(200, GetApplicationContainersResponse))

-----------------------------------------------------------------------------
(* Application versions. *)

CreateApplicationVersionParams == Params(<<"applicationID">>, NoQuery)
SendCreateApplicationVersion ==
    Post(<<"applications", "applicationID", "versions">>,
         CreateApplicationVersion)
CreateApplicationVersionAnswer ==
    Answer(200, CreateApplicationVersionResponse)
HandleCreateApplicationVersion ==
    Handler(CreateApplicationVersionParams, CreateApplicationVersion,
            Answer(200, CreateApplicationVersionResponse))

ListApplicationVersionsParams ==
    Params(<<"applicationID">>,
           [cursor |-> ApplicationVersionNumberRule, maxItems |-> Within(1, 30)])
SendListApplicationVersions ==
    Get(<<"applications", "applicationID", "versions">>,
        {"cursor", "maxItems"})
ListApplicationVersionsAnswer == Answer(200, ListApplicationVersionResponse)
HandleListApplicationVersions ==
    Handler(ListApplicationVersionsParams, NoMessage,
            Answer(200, ListApplicationVersionResponse))

GetApplicationVersionParams == Params(<<"applicationID", "version">>, NoQuery)
SendGetApplicationVersion ==
    Get(<<"applications", "applicationID", "versions", "version">>, {})
GetApplicationVersionAnswer == Answer(200, GetApplicationVersionResponse)
HandleGetApplicationVersion ==
    Handler(GetApplicationVersionParams, NoMessage,
            Answer(200, GetApplicationVersionResponse))

DeleteApplicationVersionParams ==
    Params(<<"applicationID", "version">>, NoQuery)
SendDeleteApplicationVersion ==
    Delete(<<"applications", "applicationID", "versions", "version">>)
DeleteApplicationVersionAnswer == NoContent
HandleDeleteApplicationVersion ==
    Handler(DeleteApplicationVersionParams, NoMessage, NoContent)

-----------------------------------------------------------------------------
(* Auto scaling groups. *)

CreateAutoScalingGroupParams == Params(<<"clusterID">>, NoQuery)
SendCreateAutoScalingGroup ==
    Post(<<"clusters", "clusterID", "asg">>, CreateAutoScalingGroup)
CreateAutoScalingGroupAnswer == Answer(200, CreateAutoScalingGroupResponse)
HandleCreateAutoScalingGroup ==
    Handler(CreateAutoScalingGroupParams, CreateAutoScalingGroup,
            Answer(200, CreateAutoScalingGroupResponse))

ListAutoScalingGroupsParams ==
    Params(<<"clusterID">>,
           [lastAutoScalingGroupID |-> Free, cursor |-> Free, maxItems |-> Within(1, 30)])
SendListAutoScalingGroups ==
    Get(<<"clusters", "clusterID", "asg">>,
        {"lastAutoScalingGroupID", "cursor", "maxItems"})
ListAutoScalingGroupsAnswer == Answer(200, ListAutoScalingGroupResponse)
HandleListAutoScalingGroups ==
    Handler(ListAutoScalingGroupsParams, NoMessage,
            Answer(200, ListAutoScalingGroupResponse))

GetAutoScalingGroupParams ==
    Params(<<"clusterID", "autoScalingGroupID">>, NoQuery)
SendGetAutoScalingGroup ==
    Get(<<"clusters", "clusterID", "asg", "autoScalingGroupID">>, {})
GetAutoScalingGroupAnswer == Answer(200, GetAutoScalingGroupResponse)
HandleGetAutoScalingGroup ==
    Handler(GetAutoScalingGroupParams, NoMessage,
            Answer(200, GetAutoScalingGroupResponse))

DeleteAutoScalingGroupParams ==
    Params(<<"clusterID", "autoScalingGroupID">>, NoQuery)
SendDeleteAutoScalingGroup ==
    Delete(<<"clusters", "clusterID", "asg", "autoScalingGroupID">>)
DeleteAutoScalingGroupAnswer == NoContent
HandleDeleteAutoScalingGroup ==
    Handler(DeleteAutoScalingGroupParams, NoMessage, NoContent)

-----------------------------------------------------------------------------
(* Worker nodes. *)

ListWorkerNodesParams ==
    Params(<<"clusterID", "autoScalingGroupID">>,
           [cursor |-> Free, maxItems |-> Within(2, 100)])
SendListWorkerNodes ==
    Get(
        <<"clusters", "clusterID", "asg", "autoScalingGroupID", "worker_nodes">>,
        {"cursor", "maxItems"})
ListWorkerNodesAnswer == Answer(200, ListWorkerNodesResponse)
HandleListWorkerNodes ==
    Handler(ListWorkerNodesParams, NoMessage, Answer(200, ListWorkerNodesResponse))

GetWorkerNodeParams ==
    Params(<<"clusterID", "autoScalingGroupID", "workerNodeID">>, NoQuery)
SendGetWorkerNode ==
    Get(
        <<"clusters", "clusterID", "asg", "autoScalingGroupID", "worker_nodes", "workerNodeID">>,
        {})
GetWorkerNodeAnswer == Answer(200, GetWorkerNodeResponse)
HandleGetWorkerNode ==
    Handler(GetWorkerNodeParams, NoMessage, Answer(200, GetWorkerNodeResponse))

UpdateWorkerNodeDrainingStateParams ==
    Params(<<"clusterID", "autoScalingGroupID", "workerNodeID">>, NoQuery)
SendUpdateWorkerNodeDrainingState ==
    Put(
        <<"clusters", "clusterID", "asg", "autoScalingGroupID", "worker_nodes", "workerNodeID", "draining">>,
        UpdateWorkerNodeDrainingRequest)
UpdateWorkerNodeDrainingStateAnswer == NoContent
HandleUpdateWorkerNodeDrainingState ==
    Handler(UpdateWorkerNodeDrainingStateParams,
            UpdateWorkerNodeDrainingRequest, NoContent)

-----------------------------------------------------------------------------
(* Load balancers and their nodes. *)

CreateLoadBalancerParams ==
    Params(<<"clusterID", "autoScalingGroupID">>, NoQuery)
SendCreateLoadBalancer ==
    Post(
         <<"clusters", "clusterID", "asg", "autoScalingGroupID", "load_balancers">>,
         CreateLoadBalancer)
CreateLoadBalancerAnswer == Answer(200, CreateLoadBalancerResponse)
HandleCreateLoadBalancer ==
    Handler(CreateLoadBalancerParams, CreateLoadBalancer,
            Answer(200, CreateLoadBalancerResponse))

ListLoadBalancersParams ==
    Params(<<"clusterID", "autoScalingGroupID">>,
           [cursor |-> Free, maxItems |-> Within(2, 30)])
SendListLoadBalancers ==
    Get(
        <<"clusters", "clusterID", "asg", "autoScalingGroupID", "load_balancers">>,
        {"cursor", "maxItems"})
ListLoadBalancersAnswer == Answer(200, ListLoadBalancersResponse)
HandleListLoadBalancers ==
    Handler(ListLoadBalancersParams, NoMessage,
            Answer(200, ListLoadBalancersResponse))

GetLoadBalancerParams ==
    Params(<<"clusterID", "autoScalingGroupID", "loadBalancerID">>, NoQuery)
SendGetLoadBalancer ==
    Get(
        <<"clusters", "clusterID", "asg", "autoScalingGroupID", "load_balancers", "loadBalancerID">>,
        {})
GetLoadBalancerAnswer == Answer(200, GetLoadBalancerResponse)
HandleGetLoadBalancer ==
    Handler(GetLoadBalancerParams, NoMessage, Answer(200, GetLoadBalancerResponse))

DeleteLoadBalancerParams ==
    Params(<<"clusterID", "autoScalingGroupID", "loadBalancerID">>, NoQuery)
SendDeleteLoadBalancer ==
    Delete(
           <<"clusters", "clusterID", "asg", "autoScalingGroupID", "load_balancers", "loadBalancerID">>)
DeleteLoadBalancerAnswer == NoContent
HandleDeleteLoadBalancer == Handler(DeleteLoadBalancerParams, NoMessage, NoContent)

ListLoadBalancerNodesParams ==
    Params(<<"clusterID", "autoScalingGroupID", "loadBalancerID">>,
           [cursor |-> Free, maxItems |-> Within(2, 30)])
SendListLoadBalancerNodes ==
    Get(
        <<"clusters", "clusterID", "asg", "autoScalingGroupID", "load_balancers", "loadBalancerID", "load_balancer_nodes">>,
        {"cursor", "maxItems"})
ListLoadBalancerNodesAnswer == Answer(200, ListLoadBalancerNodesResponse)
HandleListLoadBalancerNodes ==
    Handler(ListLoadBalancerNodesParams, NoMessage,
            Answer(200, ListLoadBalancerNodesResponse))

GetLoadBalancerNodeParams ==
    Params(
           <<"clusterID", "autoScalingGroupID", "loadBalancerID", "loadBalancerNodeID">>,
           NoQuery)
SendGetLoadBalancerNode ==
    Get(
        <<"clusters", "clusterID", "asg", "autoScalingGroupID", "load_balancers", "loadBalancerID", "load_balancer_nodes", "loadBalancerNodeID">>,
        {})
GetLoadBalancerNodeAnswer == Answer(200, GetLoadBalancerNodeResponse)
HandleGetLoadBalancerNode ==
    Handler(GetLoadBalancerNodeParams, NoMessage,
            Answer(200, GetLoadBalancerNodeResponse))

-----------------------------------------------------------------------------
(* Certificates. *)

CreateCertificateParams == Params(<<"clusterID">>, NoQuery)
SendCreateCertificate ==
    Post(<<"clusters", "clusterID", "certificates">>, CreateCertificate)
CreateCertificateAnswer == Answer(200, CreateCertificateResponse)
HandleCreateCertificate ==
    Handler(CreateCertificateParams, CreateCertificate,
            Answer(200, CreateCertificateResponse))

ListCertificateParams ==
    Params(<<"clusterID">>,
           [lastCertificateID |-> Free, cursor |-> Free, maxItems |-> Within(5, 30)])
SendListCertificate ==
    Get(<<"clusters", "clusterID", "certificates">>,
        {"lastCertificateID", "cursor", "maxItems"})
ListCertificateAnswer == Answer(200, ListCertificateResponse)
HandleListCertificate ==
    Handler(ListCertificateParams, NoMessage, Answer(200, ListCertificateResponse))

GetCertificateParams == Params(<<"clusterID", "certificateID">>, NoQuery)
SendGetCertificate ==
    Get(<<"clusters", "clusterID", "certificates", "certificateID">>, {})
GetCertificateAnswer == Answer(200, GetCertificateResponse)
HandleGetCertificate ==
    Handler(GetCertificateParams, NoMessage, Answer(200, GetCertificateResponse))

UpdateCertificateParams == Params(<<"clusterID", "certificateID">>, NoQuery)
SendUpdateCertificate ==
    Put(<<"clusters", "clusterID", "certificates", "certificateID">>,
        UpdateCertificate)
UpdateCertificateAnswer == NoContent
HandleUpdateCertificate ==
    Handler(UpdateCertificateParams, UpdateCertificate, NoContent)

DeleteCertificateParams == Params(<<"clusterID", "certificateID">>, NoQuery)
SendDeleteCertificate ==
    Delete(<<"clusters", "clusterID", "certificates", "certificateID">>)
DeleteCertificateAnswer == NoContent
HandleDeleteCertificate == Handler(DeleteCertificateParams, NoMessage, NoContent)

-----------------------------------------------------------------------------
(* Service classes. *)

SendListLbServiceClasses == Get(<<"service_classes", "lb">>, {})
ListLbServiceClassesAnswer == Answer(200, ListLbServiceClassResponse)
HandleListLbServiceClasses ==
    Handler(NoParams, NoMessage, Answer(200, ListLbServiceClassResponse))

SendListWorkerServiceClasses == Get(<<"service_classes", "worker">>, {})
ListWorkerServiceClassesAnswer == Answer(200, ListWorkerServiceClassResponse)
HandleListWorkerServiceClasses ==
    Handler(NoParams, NoMessage, Answer(200, ListWorkerServiceClassResponse))

-----------------------------------------------------------------------------
(* The tables, by operation. *)

Sends ==
    [CreateCluster |-> SendCreateCluster, ListClusters |-> SendListClusters,
     GetCluster |-> SendGetCluster, UpdateCluster |-> SendUpdateCluster,
     DeleteCluster |-> SendDeleteCluster,
     CreateApplication |-> SendCreateApplication,
     ListApplications |-> SendListApplications,
     GetApplication |-> SendGetApplication,
     UpdateApplication |-> SendUpdateApplication,
     DeleteApplication |-> SendDeleteApplication,
     GetApplicationContainers |-> SendGetApplicationContainers,
     CreateApplicationVersion |-> SendCreateApplicationVersion,
     ListApplicationVersions |-> SendListApplicationVersions,
     GetApplicationVersion |-> SendGetApplicationVersion,
     DeleteApplicationVersion |-> SendDeleteApplicationVersion,
     CreateAutoScalingGroup |-> SendCreateAutoScalingGroup,
     ListAutoScalingGroups |-> SendListAutoScalingGroups,
     GetAutoScalingGroup |-> SendGetAutoScalingGroup,
     DeleteAutoScalingGroup |-> SendDeleteAutoScalingGroup,
     ListWorkerNodes |-> SendListWorkerNodes,
     GetWorkerNode |-> SendGetWorkerNode,
     UpdateWorkerNodeDrainingState |-> SendUpdateWorkerNodeDrainingState,
     CreateLoadBalancer |-> SendCreateLoadBalancer,
     ListLoadBalancers |-> SendListLoadBalancers,
     GetLoadBalancer |-> SendGetLoadBalancer,
     DeleteLoadBalancer |-> SendDeleteLoadBalancer,
     ListLoadBalancerNodes |-> SendListLoadBalancerNodes,
     GetLoadBalancerNode |-> SendGetLoadBalancerNode,
     CreateCertificate |-> SendCreateCertificate,
     ListCertificate |-> SendListCertificate,
     GetCertificate |-> SendGetCertificate,
     UpdateCertificate |-> SendUpdateCertificate,
     DeleteCertificate |-> SendDeleteCertificate,
     ListLbServiceClasses |-> SendListLbServiceClasses,
     ListWorkerServiceClasses |-> SendListWorkerServiceClasses]

Answers ==
    [CreateCluster |-> CreateClusterAnswer,
     ListClusters |-> ListClustersAnswer, GetCluster |-> GetClusterAnswer,
     UpdateCluster |-> UpdateClusterAnswer,
     DeleteCluster |-> DeleteClusterAnswer,
     CreateApplication |-> CreateApplicationAnswer,
     ListApplications |-> ListApplicationsAnswer,
     GetApplication |-> GetApplicationAnswer,
     UpdateApplication |-> UpdateApplicationAnswer,
     DeleteApplication |-> DeleteApplicationAnswer,
     GetApplicationContainers |-> GetApplicationContainersAnswer,
     CreateApplicationVersion |-> CreateApplicationVersionAnswer,
     ListApplicationVersions |-> ListApplicationVersionsAnswer,
     GetApplicationVersion |-> GetApplicationVersionAnswer,
     DeleteApplicationVersion |-> DeleteApplicationVersionAnswer,
     CreateAutoScalingGroup |-> CreateAutoScalingGroupAnswer,
     ListAutoScalingGroups |-> ListAutoScalingGroupsAnswer,
     GetAutoScalingGroup |-> GetAutoScalingGroupAnswer,
     DeleteAutoScalingGroup |-> DeleteAutoScalingGroupAnswer,
     ListWorkerNodes |-> ListWorkerNodesAnswer,
     GetWorkerNode |-> GetWorkerNodeAnswer,
     UpdateWorkerNodeDrainingState |-> UpdateWorkerNodeDrainingStateAnswer,
     CreateLoadBalancer |-> CreateLoadBalancerAnswer,
     ListLoadBalancers |-> ListLoadBalancersAnswer,
     GetLoadBalancer |-> GetLoadBalancerAnswer,
     DeleteLoadBalancer |-> DeleteLoadBalancerAnswer,
     ListLoadBalancerNodes |-> ListLoadBalancerNodesAnswer,
     GetLoadBalancerNode |-> GetLoadBalancerNodeAnswer,
     CreateCertificate |-> CreateCertificateAnswer,
     ListCertificate |-> ListCertificateAnswer,
     GetCertificate |-> GetCertificateAnswer,
     UpdateCertificate |-> UpdateCertificateAnswer,
     DeleteCertificate |-> DeleteCertificateAnswer,
     ListLbServiceClasses |-> ListLbServiceClassesAnswer,
     ListWorkerServiceClasses |-> ListWorkerServiceClassesAnswer]

Handlers ==
    [CreateCluster |-> HandleCreateCluster,
     ListClusters |-> HandleListClusters, GetCluster |-> HandleGetCluster,
     UpdateCluster |-> HandleUpdateCluster,
     DeleteCluster |-> HandleDeleteCluster,
     CreateApplication |-> HandleCreateApplication,
     ListApplications |-> HandleListApplications,
     GetApplication |-> HandleGetApplication,
     UpdateApplication |-> HandleUpdateApplication,
     DeleteApplication |-> HandleDeleteApplication,
     GetApplicationContainers |-> HandleGetApplicationContainers,
     CreateApplicationVersion |-> HandleCreateApplicationVersion,
     ListApplicationVersions |-> HandleListApplicationVersions,
     GetApplicationVersion |-> HandleGetApplicationVersion,
     DeleteApplicationVersion |-> HandleDeleteApplicationVersion,
     CreateAutoScalingGroup |-> HandleCreateAutoScalingGroup,
     ListAutoScalingGroups |-> HandleListAutoScalingGroups,
     GetAutoScalingGroup |-> HandleGetAutoScalingGroup,
     DeleteAutoScalingGroup |-> HandleDeleteAutoScalingGroup,
     ListWorkerNodes |-> HandleListWorkerNodes,
     GetWorkerNode |-> HandleGetWorkerNode,
     UpdateWorkerNodeDrainingState |-> HandleUpdateWorkerNodeDrainingState,
     CreateLoadBalancer |-> HandleCreateLoadBalancer,
     ListLoadBalancers |-> HandleListLoadBalancers,
     GetLoadBalancer |-> HandleGetLoadBalancer,
     DeleteLoadBalancer |-> HandleDeleteLoadBalancer,
     ListLoadBalancerNodes |-> HandleListLoadBalancerNodes,
     GetLoadBalancerNode |-> HandleGetLoadBalancerNode,
     CreateCertificate |-> HandleCreateCertificate,
     ListCertificate |-> HandleListCertificate,
     GetCertificate |-> HandleGetCertificate,
     UpdateCertificate |-> HandleUpdateCertificate,
     DeleteCertificate |-> HandleDeleteCertificate,
     ListLbServiceClasses |-> HandleListLbServiceClasses,
     ListWorkerServiceClasses |-> HandleListWorkerServiceClasses]

-----------------------------------------------------------------------------
(***************************************************************************)
(* The router: a tree of path segments.  A node has the operations of its  *)
(* methods and goes on by words or by a parameter, if it does.             *)
(***************************************************************************)
NoOps == <<>>
Leaf(ops) == [ops |-> ops, words |-> <<>>, param |-> <<>>]
Branch(ops, words) == [ops |-> ops, words |-> words, param |-> <<>>]
ThenParam(ops, node) == [ops |-> ops, words |-> <<>>, param |-> <<node>>]
DeadEnd == Leaf(NoOps)

VersionRoutes == ThenParam(
    [GET |-> "ListApplicationVersions", POST |-> "CreateApplicationVersion"],
    Leaf([DELETE |-> "DeleteApplicationVersion",
          GET |-> "GetApplicationVersion"]))

ApplicationRoutes == ThenParam(
    [GET |-> "ListApplications", POST |-> "CreateApplication"],
    Branch([DELETE |-> "DeleteApplication", GET |-> "GetApplication",
            PUT |-> "UpdateApplication"],
           [containers |-> Leaf([GET |-> "GetApplicationContainers"]),
            versions |-> VersionRoutes]))

LoadBalancerNodeRoutes == ThenParam(
    [GET |-> "ListLoadBalancerNodes"], Leaf([GET |-> "GetLoadBalancerNode"]))

LoadBalancerRoutes == ThenParam(
    [GET |-> "ListLoadBalancers", POST |-> "CreateLoadBalancer"],
    Branch([DELETE |-> "DeleteLoadBalancer", GET |-> "GetLoadBalancer"],
           [load_balancer_nodes |-> LoadBalancerNodeRoutes]))

WorkerNodeRoutes == ThenParam(
    [GET |-> "ListWorkerNodes"],
    Branch([GET |-> "GetWorkerNode"],
           [draining |-> Leaf([PUT |-> "UpdateWorkerNodeDrainingState"])]))

AutoScalingGroupRoutes == ThenParam(
    [GET |-> "ListAutoScalingGroups", POST |-> "CreateAutoScalingGroup"],
    Branch([DELETE |-> "DeleteAutoScalingGroup",
            GET |-> "GetAutoScalingGroup"],
           [load_balancers |-> LoadBalancerRoutes,
            worker_nodes |-> WorkerNodeRoutes]))

CertificateRoutes == ThenParam(
    [GET |-> "ListCertificate", POST |-> "CreateCertificate"],
    Leaf([DELETE |-> "DeleteCertificate", GET |-> "GetCertificate",
          PUT |-> "UpdateCertificate"]))

ClusterRoutes == ThenParam(
    [GET |-> "ListClusters", POST |-> "CreateCluster"],
    Branch([DELETE |-> "DeleteCluster", GET |-> "GetCluster",
            PUT |-> "UpdateCluster"],
           [asg |-> AutoScalingGroupRoutes,
            certificates |-> CertificateRoutes]))

ServiceClassRoutes == Branch(NoOps,
    [lb |-> Leaf([GET |-> "ListLbServiceClasses"]),
     worker |-> Leaf([GET |-> "ListWorkerServiceClasses"])])

Routes == Branch(NoOps,
    [applications |-> ApplicationRoutes, clusters |-> ClusterRoutes,
     service_classes |-> ServiceClassRoutes])

-----------------------------------------------------------------------------
(***************************************************************************)
(* The client.  The parameters of a path are set; those of a query are     *)
(* sent if they are.  The client does not validate what it sends.          *)
(***************************************************************************)
Segment(part, args) ==
    IF part \in DOMAIN args THEN [value |-> args[part]] ELSE [word |-> part]

\* A body is an object, or is not there.
Blank == [json |-> "none"]
BodyOf(message, m) ==
    IF message = NoMessage THEN Blank ELSE Token(Encode(message, m))
Request(op, call) ==
    LET send == Sends[op]
    IN  [method |-> send.method,
         path |-> [i \in DOMAIN send.path |-> Segment(send.path[i], call.args)],
         query |-> [q \in {p \in send.query : call.query[p] # None} |->
                        call.query[q]],
         body |-> BodyOf(send.body, call.body),
         trusted |-> call.trusted]

\* What a body is read as, and whether it can be.
Readout(message, body) ==
    IF message = NoMessage THEN None ELSE Decode(message, body.is)
Legible(message, body) == body.json = "value" /\ Decodes(message, body.is)

\* Mutated form of Understood: what was read is not validated.
UnderstoodUnchecked(message, body) ==
    message = NoMessage \/ Legible(message, body)

\* Only the status the operation expects is read as its answer; anything else
\* must be an Error, and what the client cannot read is one to its caller.
Understood(message, body) ==
    \/ message = NoMessage
    \/ Legible(message, body) /\ Valid(message, Decode(message, body.is))

Undecodable == [kind |-> "undecodable"]
Lost == [kind |-> "lost"]
Result(op, response) ==
    LET answer == Answers[op]
    IN  IF response.code = answer.code THEN
            IF ~Understood(answer.message, response.body) THEN Undecodable
            ELSE [kind |-> "answer",
                  message |-> Readout(answer.message, response.body)]
        ELSE IF Legible(Error, response.body)
        THEN [kind |-> "status", code |-> response.code]
        ELSE Undecodable

-----------------------------------------------------------------------------
(***************************************************************************)
(* The server.  A refusal of the router has no JSON; one of the default    *)
(* ErrorHandler has a body that is not an Error; the service's NewError    *)
(* and its own errors are Errors.                                          *)
(***************************************************************************)
ErrorResponse(code) ==
    [code |-> code, body |-> BodyOf(Error, [status |-> code, title |-> Odd])]
\* Mutated form of HandlerResponse: every refusal has the service's schema.
HandlerResponseAsError(code) ==
    [code |-> code, body |-> BodyOf(Error, [status |-> code, title |-> Odd])]

ErrorMessage == Message(Value({"error_message"}), NoRules)
HandlerResponse(code) ==
    [code |-> code, body |-> BodyOf(ErrorMessage, [error_message |-> Odd])]
RouterResponse(code) == [code |-> code, body |-> Blank]

\* From one node of the router to the next; a parameter takes any segment.
Follow(at, segment) ==
    IF at.node.param # <<>>
    THEN [node |-> at.node.param[1], args |-> Append(at.args, segment)]
    ELSE IF \E w \in DOMAIN at.node.words : segment = [word |-> w]
    THEN [node |-> at.node.words[segment.word], args |-> at.args]
    ELSE [node |-> DeadEnd, args |-> at.args]

\* Where the router is after so many segments.
Walk(path) ==
    LET at[i \in 0..Len(path)] ==
            IF i = 0 THEN [node |-> Routes, args |-> <<>>]
            ELSE Follow(at[i - 1], path[i])
    IN  at
Found(path) == Walk(path)[Len(path)]

PathFits(params, args) ==
    \A i \in DOMAIN params.path :
        /\ "value" \in DOMAIN args[i]
        /\ Meets(PathRule(params.path[i]), args[i].value)

\* A parameter that is absent is not looked at.  The client of this repository leaves
\* out only the cursor; that maxItems may be absent here admits other clients too.
QueryFits(params, query) ==
    \A q \in DOMAIN params.query \cap DOMAIN query :
        Meets(params.query[q], query[q])

\* Mutated form of BodyFits: a body that was read is not validated.
BodyFitsShape(message, body) == message = NoMessage \/ Legible(message, body)

BodyFits(message, body) ==
    \/ message = NoMessage
    \/ Legible(message, body) /\ Valid(message, Decode(message, body.is))

\* Where the server refuses a request, and with what, if it does.
\* Credentials come before parameters, parameters before the body.
Admitted == <<>>
Refusal(request) ==
    LET at == Found(request.path)
        ops == at.node.ops
        handle == Handlers[ops[request.method]]
    IN  IF ops = NoOps THEN RouterResponse(404)
        ELSE IF request.method \notin DOMAIN ops THEN RouterResponse(405)
        ELSE IF ~request.trusted THEN ErrorResponse(ErrorCode)
        ELSE IF \/ ~PathFits(handle.params, at.args)
                \/ ~QueryFits(handle.params, request.query)
                \/ ~BodyFits(handle.body, request.body)
        THEN HandlerResponse(400)
        ELSE Admitted

\* What the handler is called with when the request is not refused.
Heard(request) ==
    LET at == Found(request.path)
        op == at.node.ops[request.method]
        handle == Handlers[op]
        Position(name) ==
            CHOOSE i \in DOMAIN handle.params.path : handle.params.path[i] = name
    IN  [op |-> op,
         args |-> [n \in PathNames(handle.params) |->
                        at.args[Position(n)].value],
         query |-> [q \in DOMAIN handle.params.query |->
                        IF q \in DOMAIN request.query THEN request.query[q]
                        ELSE None],
         body |-> Readout(handle.body, request.body)]

\* What becomes of what the service's handler returns: its answer, an Error
\* with a status of its own, another error, or "not implemented".
Response(op, outcome) ==
    LET answer == Handlers[op].answer
    IN  CASE outcome.kind = "answer" ->
                [code |-> answer.code,
                 body |-> BodyOf(answer.message, outcome.message)]
          [] outcome.kind = "status" -> ErrorResponse(outcome.code)
          [] outcome.kind = "failure" -> ErrorResponse(ErrorCode)
          [] outcome.kind = "unimplemented" -> HandlerResponse(501)

-----------------------------------------------------------------------------
(***************************************************************************)
(* What is said: a call as the client's types allow it, what a handler may *)
(* return, and when the service's rules accept the one.                    *)
(***************************************************************************)
ASSUME DepthAssumption ==
    \A op \in DOMAIN Sends :
        NestsFour(Sends[op].body) /\ NestsFour(Answers[op].message)

\* Not yet called, heard, answered.
NotYet == <<>>

Numbers32 == -Unbounded..Unbounded

IsCall(op, c) ==
    /\ c.args = [n \in PathNames(Handlers[op].params) |-> c.args[n]]
    /\ \A n \in DOMAIN c.args : c.args[n] \in Numbers32
    /\ c.query = [q \in Sends[op].query |-> c.query[q]]
    /\ \A q \in DOMAIN c.query :
        c.query[q] \in {None, Odd} \/ c.query[q] \in Numbers32
    /\ Sends[op].body # NoMessage => IsMessage(Sends[op].body, c.body)
    /\ c.trusted \in BOOLEAN

\* An error has a status of its own, which no answer has.
IsFailing(code) == \A op \in DOMAIN Sends : code # Answers[op].code

IsOutcome(op, o) ==
    /\ "kind" \in DOMAIN o
    /\ \/ /\ o.kind = "answer"
          /\ Answers[op].message # NoMessage =>
                IsMessage(Answers[op].message, o.message)
       \/ o.kind = "status" /\ IsFailing(o.code)
       \/ o.kind \in {"failure", "unimplemented"}

ASSUME ErrorCodeAssumption == IsFailing(ErrorCode)

SameBody(message, m) == IF message = NoMessage THEN None ELSE Same(message, m)

Acceptable(op, c) ==
    /\ c.trusted
    /\ "version" \in DOMAIN c.args => c.args.version >= 1
    /\ \A q \in DOMAIN c.query :
        c.query[q] = None \/ Meets(Handlers[op].params.query[q], c.query[q])
    /\ Sends[op].body # NoMessage =>
        Valid(Sends[op].body, Same(Sends[op].body, c.body))

=============================================================================
