-------------------------------- MODULE Wire --------------------------------
(***************************************************************************)
(* Several clients of the generated bindings call one mock server.  A call *)
(* travels, is refused or served, and its response travels back; calls of  *)
(* different clients are under way at once.  A client may give up on a     *)
(* call of Lossy (the connection breaks, its context ends) at any moment:  *)
(* the call may then never arrive, or be served later, while the client    *)
(* goes on.  Nothing is ever sent again.  Serving a call and reading its   *)
(* response are one step: what is read is the client's own.                *)
(***************************************************************************)
EXTENDS MockServer, Operations

CONSTANTS
    Clients,
    Called,         \* the operations the clients call
    CallsOf(_, _),  \* with what, by the number of calls made before
    Lossy,          \* the operations whose calls may be given up
    MaxCalls        \* how many calls are made in all

\* The messages the mock is modelled for, by the operation that brings them.
Known(op) ==
    CASE op = "CreateCluster" -> ClusterRequests
      [] op = "UpdateCluster" -> UpdateRequests
      [] op = "CreateApplication" -> ApplicationRequests
      [] op = "CreateApplicationVersion" -> Bodies
      [] op = "UpdateApplication" -> [activeVersion : Numbers \cup {Null}]
      [] OTHER -> {None}

\* Calls are what the client's types allow; what the server accepts of them is
\* about what the mock is modelled for.
ASSUME CallsAssumption ==
    \A op \in Called, made \in 0..(MaxCalls - 1) : \A c \in CallsOf(op, made) :
        /\ op \in DOMAIN Sends /\ IsCall(op, c)
        /\ Acceptable(op, c) =>
            /\ \A n \in DOMAIN c.args :
                c.args[n] \in IF n = "version" THEN Numbers ELSE IDs
            /\ op = "ListApplications" => c.query.clusterID \in IDs \cup {None}
            /\ SameBody(Sends[op].body, c.body) \in Known(op)

ASSUME MaxCallsAssumption == MaxCalls \in Nat

\* What a handler has in a list is not nil: make was called for it.
Statuses ==
    [version : Nat \ {0}, image : {b.image : b \in Bodies},
     activeNodeCount : {0}, created : {1}]
ASSUME ListsAssumption ==
    /\ None \notin Seq(Applications) /\ None \notin Seq(Statuses)
    /\ \A b \in Bodies : b.exposedPorts # None /\ Version(1, b).env # None

VARIABLE calls
wireVars == <<vars, calls>>

Busy(c) == \E i \in DOMAIN calls : calls[i].client = c /\ calls[i].result = NotYet

\* The calls whose answers were all in when another was sent.
Finished == {i \in DOMAIN calls : calls[i].result # NotYet}

Call(c) ==
    /\ Len(calls) < MaxCalls /\ ~Busy(c)
    /\ \E op \in Called : \E call \in CallsOf(op, Len(calls)) :
        calls' = Append(calls,
            [client |-> c, op |-> op, call |-> call, arrived |-> FALSE,
             before |-> Finished, result |-> NotYet])
    /\ UNCHANGED vars

Sent(i) == Request(calls[i].op, calls[i].call)

\* The response is on its way back: the caller has its result, or the
\* connection breaks first, or the caller is not there any more.  Reading a
\* response touches nothing the calls share.
Respond(i, response) ==
    \E r \in IF calls[i].result # NotYet THEN {Lost}
             ELSE IF calls[i].op \in Lossy
             THEN {Result(calls[i].op, response), Lost}
             ELSE {Result(calls[i].op, response)} :
        calls' = [calls EXCEPT ![i].arrived = TRUE, ![i].result = r]

Refuse(i) ==
    /\ ~calls[i].arrived /\ Refusal(Sent(i)) # Admitted
    /\ Respond(i, Refusal(Sent(i)))
    /\ UNCHANGED vars

\* The Handler methods of the mock, by the operation that was routed to them.
Implemented ==
    {"CreateCluster", "ListClusters", "GetCluster", "UpdateCluster",
     "ListAutoScalingGroups", "ListLoadBalancers", "CreateApplication",
     "ListApplications", "CreateApplicationVersion", "ListApplicationVersions",
     "GetApplicationVersion", "UpdateApplication"}
Serve(h) ==
    \/ h.op = "CreateCluster" /\ ServeCreateCluster(h.body)
    \/ h.op = "ListClusters" /\ ServeListClusters
    \/ h.op = "GetCluster" /\ ServeGetCluster(h.args.clusterID)
    \/ h.op = "UpdateCluster" /\ ServeUpdateCluster(h.args.clusterID, h.body)
    \/ h.op = "ListAutoScalingGroups" /\ ServeListAutoScalingGroups
    \/ h.op = "ListLoadBalancers" /\ ServeListLoadBalancers
    \/ h.op = "CreateApplication" /\ ServeCreateApplication(h.body)
    \/ h.op = "ListApplications" /\ ServeListApplications(h.query.clusterID)
    \/ /\ h.op = "CreateApplicationVersion"
       /\ ServeCreateApplicationVersion(h.args.applicationID, h.body)
    \/ /\ h.op = "ListApplicationVersions"
       /\ ServeListApplicationVersions(h.args.applicationID)
    \/ /\ h.op = "GetApplicationVersion"
       /\ ServeGetApplicationVersion(h.args.applicationID, h.args.version)
    \/ /\ h.op = "UpdateApplication"
       /\ ServeUpdateApplication(h.args.applicationID, h.body.activeVersion)
    \/ h.op \notin Implemented /\ Unimplemented

Handle(i) ==
    /\ ~calls[i].arrived /\ Refusal(Sent(i)) = Admitted
    /\ Serve(Heard(Sent(i)))
    /\ Respond(i, Response(Heard(Sent(i)).op, returned'))

GiveUp(i) ==
    /\ calls[i].result = NotYet /\ calls[i].op \in Lossy
    /\ calls' = [calls EXCEPT ![i].result = Lost]
    /\ UNCHANGED vars

WireInit == Init /\ calls = <<>>

WireNext ==
    \/ \E c \in Clients : Call(c)
    \/ \E i \in DOMAIN calls :
        Refuse(i) \/ Handle(i) \/ GiveUp(i)

WireSpec == WireInit /\ [][WireNext]_wireVars

-----------------------------------------------------------------------------
(***************************************************************************)
(* What the clients see of the server.                                     *)
(***************************************************************************)
Answered(op) ==
    {i \in DOMAIN calls : /\ calls[i].op = op
                          /\ calls[i].result # NotYet
                          /\ calls[i].result.kind = "answer"}
Posts == Answered("CreateApplicationVersion")
Posted(i) ==
    <<calls[i].call.args.applicationID,
      calls[i].result.message.applicationVersion.version>>

\* Every answered post of a version has a number that no other post was given,
\* and no application has more versions than posts were sent for it: a call
\* given up is served once at most, and a call that was refused not at all.
EachNumbered ==
    /\ \A i, j \in Posts : Posted(i) = Posted(j) => i = j
    /\ \A i \in Posts : Posted(i) \in DOMAIN applicationVersions
    /\ \A a \in DOMAIN applications :
        Cardinality({k \in DOMAIN applicationVersions : k[1] = a}) <=
        Cardinality({i \in DOMAIN calls :
                        /\ calls[i].op = "CreateApplicationVersion"
                        /\ calls[i].call.args.applicationID = a
                        /\ Refusal(Sent(i)) = Admitted})

Detail(j) == calls[j].result.message.applicationVersion

\* A port with all that was posted of it: no hosts at all stay apart from an
\* empty list of them, and no health check from any.
PortRead(p) ==
    [targetPort |-> p.targetPort, useLetsEncrypt |-> p.useLetsEncrypt,
     loadBalancerPort |-> p.loadBalancerPort, host |-> p.host,
     healthCheck |->
        IF p.healthCheck = Null THEN Null
        ELSE [path |-> p.healthCheck.path,
              intervalSeconds |-> p.healthCheck.intervalSeconds,
              timeoutSeconds |-> p.healthCheck.timeoutSeconds]]

\* A version reads as it was posted, through both encodings, down to the hosts
\* and health checks of its ports: only a password and an unset value of the
\* environment come back as null, and a nil list of ports or variables as empty.
ReadsBack ==
    \A i \in Posts, j \in Answered("GetApplicationVersion") :
        Posted(i) = <<calls[j].call.args.applicationID,
                      calls[j].call.args.version>>
        => LET sent == calls[i].call.body
               kept == (DOMAIN sent \cap DOMAIN Detail(j))
                         \ {"registryPassword", "env", "exposedPorts"}
           IN  /\ \A f \in kept : Detail(j)[f] = sent[f]
               /\ Detail(j).registryPassword = Null
               /\ Detail(j).exposedPorts =
                    IF sent.exposedPorts = None THEN <<>>
                    ELSE [n \in DOMAIN sent.exposedPorts |->
                            PortRead(sent.exposedPorts[n])]
               /\ Detail(j).env =
                    IF sent.env = None THEN <<>>
                    ELSE [n \in DOMAIN sent.env |-> EnvRead(sent.env[n])]

Each(list, field) == {list[n][field] : n \in DOMAIN list}

\* What a caller was told is created is in every listing asked for after that,
\* whoever asks: the mock answers from the same maps it writes.
SeesEarlier ==
    /\ \A j \in Answered("ListApplications") :
        \A i \in Answered("CreateApplication") \cap calls[j].before :
            calls[j].call.query.clusterID \in
                    {None, calls[i].call.body.clusterID}
            => calls[i].result.message.application.applicationID \in
                Each(calls[j].result.message.applications, "applicationID")
    /\ \A j \in Answered("ListApplicationVersions") :
        \A i \in Posts \cap calls[j].before :
            calls[j].call.args.applicationID = Posted(i)[1]
            => Posted(i)[2] \in
                Each(calls[j].result.message.versions, "version")

\* The bindings hand the mock nothing but requests of its types: seen without
\* the calls, the system is the mock server on its own.
ServesAsMock == Spec

=============================================================================
