--------------------------- MODULE ExchangeProofs ---------------------------
(***************************************************************************)
(* That the bindings keep their promises (Exchange) for every call and     *)
(* every outcome the types allow: what the runs of Exchange try a message  *)
(* and a bound at a time.  The lemmas on encoders, router and results are  *)
(* in CodecProofs.                                                         *)
(***************************************************************************)
EXTENDS Exchange, CodecProofs

\* What is known of a call that was made.
Known ==
    /\ call.op \in Op /\ IsCall(call.op, call)
    /\ request = Request(call.op, call)

\* How far it has come: nothing came back of it yet, or it was refused, or its
\* handler returned.
Open ==
    /\ outcome = NotYet /\ response = NotYet
    /\ \/ heard = NotYet
       \/ heard = Heard(request) /\ Refusal(request) = Admitted
Refused ==
    /\ heard = NotYet /\ outcome = NotYet
    /\ Refusal(request) # Admitted /\ response = Refusal(request)
Returned ==
    /\ heard = Heard(request) /\ Refusal(request) = Admitted
    /\ outcome # NotYet /\ IsOutcome(call.op, outcome)
    /\ response = Response(call.op, outcome)

\* The inductive invariant.
Course ==
    /\ stage \in {"idle", "sent", "heard", "answered", "done"}
    /\ stage = "idle" => heard = NotYet /\ outcome = NotYet /\ response = NotYet
    /\ stage # "idle" => Known /\ (Open \/ Refused \/ Returned)
    /\ stage = "sent" => Open /\ heard = NotYet
    /\ stage = "heard" => Open /\ heard # NotYet
    /\ stage = "answered" => ~Open
    /\ stage = "done" =>
        result = Lost \/ (~Open /\ result = Result(call.op, response))

\* What is heard is no unset variable, and is the operation's.
LEMMA HeardIs ==
  ASSUME Known
  PROVE  Heard(request) # NotYet /\ Heard(request).op = call.op
<1>1. Heard(request) =
        [op |-> call.op, args |-> call.args, query |-> call.query,
         body |-> SameBody(Sends[call.op].body, call.body)]
  BY Hearing DEF Known, Op
<1>2. "op" \in DOMAIN Heard(request)
  BY <1>1
<1>3. DOMAIN NotYet = {}
  BY DEF NotYet
<1> QED
  BY <1>1, <1>2, <1>3

LEMMA RefusalIs ==
  ASSUME Known, Refusal(request) # Admitted
  PROVE  /\ Refusal(request) # NotYet /\ ~Acceptable(call.op, call)
         /\ Refusal(request) =
                IF call.trusted THEN HandlerResponse(400) ELSE ErrorResponse(ErrorCode)
<1>1. Refusal(request) =
        IF ~call.trusted THEN ErrorResponse(ErrorCode)
        ELSE IF Acceptable(call.op, call) THEN Admitted
        ELSE HandlerResponse(400)
  BY Admission DEF Known, Op
<1>2. ~Acceptable(call.op, call)
  BY AdmittedIfAcceptable DEF Known, Op
<1>3. NotYet = Admitted
  BY DEF NotYet, Admitted
<1> QED
  BY <1>1, <1>2, <1>3

LEMMA ResponseIs ==
  ASSUME NEW op, NEW o, IsOutcome(op, o)
  PROVE  Response(op, o) # NotYet /\ o # NotYet
<1>1. "code" \in DOMAIN Response(op, o) /\ "kind" \in DOMAIN o
  BY DEF Response, IsOutcome, ErrorResponse, HandlerResponse
<1>2. DOMAIN NotYet = {}
  BY DEF NotYet
<1> QED
  BY <1>1, <1>2

LEMMA CourseInit == Init => Course
  BY DEF Init, Course

LEMMA CourseStep == Course /\ [Next]_vars => Course'
<1> SUFFICES ASSUME Course, [Next]_vars PROVE Course'
  OBVIOUS
<1>1. CASE Start
  <2>1. PICK op \in Op : \E c \in CallsOf(op) :
            /\ call' = [op |-> op, args |-> c.args, query |-> c.query,
                        body |-> c.body, trusted |-> c.trusted]
            /\ request' = Request(op, c)
    BY <1>1 DEF Start
  <2>2. PICK c \in CallsOf(op) :
            /\ call' = [op |-> op, args |-> c.args, query |-> c.query,
                        body |-> c.body, trusted |-> c.trusted]
            /\ request' = Request(op, c)
    BY <2>1
  <2>3. IsCall(op, c)
    BY CallsAssumption DEF Op
  <2>4. /\ call'.op = op /\ call'.args = c.args /\ call'.query = c.query
        /\ call'.body = c.body /\ call'.trusted = c.trusted
    BY <2>2
  <2>5. IsCall(op, call')
    BY <2>3, <2>4 DEF IsCall
  <2>6. Request(op, c) = Request(op, call')
    BY <2>4 DEF Request
  <2>7. Known'
    BY <2>2, <2>4, <2>5, <2>6 DEF Known
  <2>8. Open' /\ heard' = NotYet /\ stage' = "sent"
    BY <1>1 DEF Start, Course, Open
  <2> QED
    BY <2>7, <2>8 DEF Course
<1>2. CASE Refuse
  <2>1. Known /\ Open /\ heard = NotYet /\ Refusal(request) # Admitted
    BY <1>2 DEF Course, Refuse
  <2>2. Known' /\ Refused'
    BY <1>2, <2>1 DEF Refuse, Known, Refused, Open
  <2>3. ~Open'
    BY <1>2, <2>1, RefusalIs DEF Refuse, Open
  <2> QED
    BY <1>2, <2>2, <2>3 DEF Course, Refuse
<1>3. CASE Hear
  <2>1. Known /\ Open
    BY <1>3 DEF Course, Hear
  <2>2. Known' /\ Open' /\ heard' # NotYet
    BY <1>3, <2>1, HeardIs DEF Hear, Known, Open
  <2> QED
    BY <1>3, <2>2 DEF Course, Hear
<1>4. CASE Return
  <2>1. Known /\ heard = Heard(request) /\ Refusal(request) = Admitted
    BY <1>4 DEF Course, Return, Open
  <2>2. heard.op = call.op
    BY <2>1, HeardIs
  <2>3. PICK o \in OutcomesOf(heard.op) :
            outcome' = o /\ response' = Response(heard.op, o)
    BY <1>4 DEF Return
  <2>4. IsOutcome(call.op, o)
    BY <2>1, <2>2, <2>3, OutcomesAssumption DEF Known, Op
  <2>5. outcome' # NotYet /\ response' # NotYet
    BY <2>2, <2>3, <2>4, ResponseIs
  <2>6. Known' /\ Returned' /\ ~Open'
    BY <1>4, <2>1, <2>2, <2>3, <2>4, <2>5 DEF Return, Known, Returned, Open
  <2> QED
    BY <1>4, <2>6 DEF Course, Return
<1>5. CASE Receive
  <2>1. Known' /\ (Refused' \/ Returned') /\ ~Open'
    BY <1>5 DEF Course, Receive, Known, Open, Refused, Returned
  <2>2. result' = Result(call'.op, response') /\ stage' = "done"
    BY <1>5 DEF Receive
  <2> QED
    BY <2>1, <2>2 DEF Course
<1>6. CASE Break
  <2>1. Known' /\ (Open' \/ Refused' \/ Returned')
    BY <1>6 DEF Course, Break, Known, Open, Refused, Returned
  <2> QED
    BY <1>6, <2>1 DEF Course, Break
<1>7. CASE Leave
  BY <1>7 DEF Course, Leave
<1>8. CASE UNCHANGED vars
  BY <1>8 DEF Course, Known, Open, Refused, Returned, vars
<1> QED
  BY <1>1, <1>2, <1>3, <1>4, <1>5, <1>6, <1>7, <1>8 DEF Next

\* Wherever an exchange stands, the request is the caller's, and all there is after it
\* is what the server or the handler made of it: the invariant the others follow from.
THEOREM CourseKept == Spec => []Course
<1>1. Course /\ [Next]_vars => Course'
  BY CourseStep
<1> QED
  BY <1>1, CourseInit, PTL DEF Spec

-----------------------------------------------------------------------------
(***************************************************************************)
(* A handler hears what the caller said, and nothing that is not           *)
(* acceptable: for every call of every operation.                          *)
(***************************************************************************)
LEMMA HeardStands == Course => HeardAsSent
<1> SUFFICES ASSUME Course, heard # NotYet
             PROVE  /\ Acceptable(call.op, call)
                    /\ heard = [op |-> call.op, args |-> call.args, query |-> call.query,
                                body |-> SameBody(Sends[call.op].body, call.body)]
  BY DEF HeardAsSent
<1>1. Known /\ heard = Heard(request) /\ Refusal(request) = Admitted
  BY DEF Course, Open, Refused, Returned
<1>2. Acceptable(call.op, call)
  BY <1>1, AdmittedIfAcceptable DEF Known, Op
<1>3. heard = [op |-> call.op, args |-> call.args, query |-> call.query,
               body |-> SameBody(Sends[call.op].body, call.body)]
  BY <1>1, Hearing DEF Known, Op
<1> QED
  BY <1>2, <1>3

\* A handler is called for the operation the caller named, with what the caller said,
\* and only for calls that are acceptable (HeardAsSent).
THEOREM AllHeardAsSent == Spec => []HeardAsSent
  BY HeardStands, CourseKept, PTL

(***************************************************************************)
(* A call that is answered without having been heard was not acceptable.   *)
(***************************************************************************)
LEMMA RefusalStands == Course => RefusedForCause
<1> SUFFICES ASSUME Course, response # NotYet, heard = NotYet
             PROVE  ~Acceptable(call.op, call)
  BY DEF RefusedForCause
<1>1. Known /\ ~Open /\ (Refused \/ Returned)
  BY DEF Course, Open
<1>2. Heard(request) # NotYet
  BY <1>1, HeardIs
<1>3. Refusal(request) # Admitted
  BY <1>1, <1>2 DEF Refused, Returned
<1> QED
  BY <1>1, <1>3, RefusalIs

\* No acceptable call is refused on its way through the server (RefusedForCause).
THEOREM AllRefusedForCause == Spec => []RefusedForCause
  BY RefusalStands, CourseKept, PTL

(***************************************************************************)
(* An answer that meets its own rules reaches the caller as it was given;  *)
(* one that does not is an error to the caller.                            *)
(***************************************************************************)
LEMMA AnswerStands == Course => AnswerArrives
<1> SUFFICES ASSUME Course, stage = "done", result # Lost, outcome # NotYet,
                    outcome.kind = "answer"
             PROVE  result = Arriving(call.op, outcome)
  BY DEF AnswerArrives, Arriving
<1>1. Known /\ Returned /\ result = Result(call.op, response)
  BY DEF Course, Open, Refused
<1>2. call.op \in DOMAIN Sends /\ IsOutcome(call.op, outcome)
  BY <1>1 DEF Known, Op, Returned
<1>3. Result(call.op, Response(call.op, outcome)) = Arriving(call.op, outcome)
  BY <1>2, AnswerResult
<1> QED
  BY <1>1, <1>3 DEF Returned

\* What a handler answers is what the caller gets, unless it breaks the rules of its
\* own type (AnswerArrives).
THEOREM AllAnswersArrive == Spec => []AnswerArrives
  BY AnswerStands, CourseKept, PTL

(***************************************************************************)
(* The caller gets a status if and only if the service gave one.           *)
(***************************************************************************)
LEMMA StatusStands == Course => StatusFromService
<1> SUFFICES ASSUME Course, stage = "done", result # Lost
             PROVE  result.kind = "status" <=>
                        \/ ~call.trusted
                        \/ outcome # NotYet /\ outcome.kind \in {"status", "failure"}
  BY DEF StatusFromService
<1>1. /\ Known /\ (Refused \/ Returned) /\ result = Result(call.op, response)
      /\ call.op \in DOMAIN Sends
  BY DEF Course, Known, Op
<1>2. CASE Refused
  <2>1. response = IF call.trusted THEN HandlerResponse(400) ELSE ErrorResponse(ErrorCode)
    BY <1>1, <1>2, RefusalIs DEF Refused
  <2>2. result = IF call.trusted THEN Undecodable
                 ELSE [kind |-> "status", code |-> ErrorCode]
    BY <1>1, <2>1, StatusResult, FailingCodes, ErrorCodeAssumption
  <2> QED
    BY <1>1, <1>2, <2>2 DEF Refused, Undecodable, Known, IsCall
<1>3. CASE Returned
  <2>1. Acceptable(call.op, call)
    BY <1>1, <1>3, AdmittedIfAcceptable DEF Known, Returned
  <2>2. call.trusted
    BY <2>1 DEF Acceptable
  <2>3. /\ IsOutcome(call.op, outcome) /\ outcome # NotYet
        /\ result = Result(call.op, Response(call.op, outcome))
    BY <1>1, <1>3 DEF Returned
  <2>4. CASE outcome.kind = "answer"
    <3>1. result = Arriving(call.op, outcome)
      BY <1>1, <2>3, <2>4, AnswerResult
    <3>2. result.kind # "status"
      BY <3>1 DEF Arriving, Undecodable
    <3> QED
      BY <2>2, <2>4, <3>2
  <2>5. CASE outcome.kind # "answer"
    <3>1. result = IF outcome.kind = "status" THEN [kind |-> "status", code |-> outcome.code]
                   ELSE IF outcome.kind = "failure"
                   THEN [kind |-> "status", code |-> ErrorCode]
                   ELSE Undecodable
      BY <1>1, <2>3, <2>5, ErrorResult
    <3> QED
      BY <2>2, <2>3, <3>1 DEF Undecodable
  <2> QED
    BY <2>4, <2>5
<1> QED
  BY <1>1, <1>2, <1>3

\* Only a status the service gave reaches the caller as a status (StatusFromService).
THEOREM AllStatusFromService == Spec => []StatusFromService
  BY StatusStands, CourseKept, PTL

-----------------------------------------------------------------------------
(***************************************************************************)
(* What is accepted can be read back.                                      *)
(***************************************************************************)

\* A message that meets the rules of one table meets those of another as far
\* as the two go together.
LEMMA StillValid ==
  ASSUME NEW C, NEW T, NEW m, Valid(C, m), DOMAIN m = DOMAIN C.fields,
         \A f \in DOMAIN C.fields \cap DOMAIN T.fields :
            /\ IsList(T.fields[f]) <=> IsList(C.fields[f])
            /\ f \in DOMAIN T.rules => f \in DOMAIN C.rules /\ T.rules[f] = C.rules[f]
            /\ InEach(Valid3, C.fields[f], m[f]) => InEach(Valid3, T.fields[f], m[f])
  PROVE  Valid(Shared(T, m), m)
<1> DEFINE S == Shared(T, m)
<1>1. /\ DOMAIN S.fields = DOMAIN T.fields \cap DOMAIN m
      /\ \A f \in DOMAIN S.fields : S.fields[f] = T.fields[f]
      /\ DOMAIN S.rules = DOMAIN S.fields \cap DOMAIN T.rules
      /\ \A f \in DOMAIN S.rules : S.rules[f] = T.rules[f]
  BY DEF Shared, Message
<1>2. ASSUME NEW f \in DOMAIN C.fields, m[f] \notin {None, Null}
      PROVE  /\ f \in DOMAIN C.rules =>
                    IF IsList(C.fields[f]) THEN MeetsInList(C.rules[f], m[f])
                                           ELSE Meets(C.rules[f], m[f])
             /\ InEach(Valid3, C.fields[f], m[f])
  BY <1>2 DEF Valid, Validates
<1> HIDE DEF S
<1>3. ASSUME NEW f \in DOMAIN S.fields, m[f] \notin {None, Null}
      PROVE  /\ f \in DOMAIN S.rules =>
                    IF IsList(S.fields[f]) THEN MeetsInList(S.rules[f], m[f])
                                           ELSE Meets(S.rules[f], m[f])
             /\ InEach(Valid3, S.fields[f], m[f])
  <2>1. f \in DOMAIN C.fields \cap DOMAIN T.fields /\ S.fields[f] = T.fields[f]
    BY <1>1, <1>3
  <2>2. InEach(Valid3, S.fields[f], m[f])
    BY <1>2, <1>3, <2>1
  <2>3. ASSUME f \in DOMAIN S.rules
        PROVE  IF IsList(S.fields[f]) THEN MeetsInList(S.rules[f], m[f])
                                      ELSE Meets(S.rules[f], m[f])
    <3>1. f \in DOMAIN C.rules /\ S.rules[f] = C.rules[f]
      BY <1>1, <2>1, <2>3
    <3>2. IF IsList(C.fields[f]) THEN MeetsInList(C.rules[f], m[f])
                                 ELSE Meets(C.rules[f], m[f])
      BY <1>2, <1>3, <2>1, <3>1
    <3> QED
      BY <2>1, <3>1, <3>2
  <2> QED
    BY <2>2, <2>3
<1>4. Valid(S, m)
  BY <1>3 DEF Valid, Validates
<1> QED
  BY <1>4 DEF S

\* The tables that go together, a pair at a time.
LEMMA ClusterStays ==
  ASSUME NEW m, Valid(CreateCluster, m), DOMAIN m = DOMAIN CreateCluster.fields
  PROVE  Valid(Shared(ReadClusterDetail, m), m)
<1> DEFINE C == CreateCluster
           T == ReadClusterDetail
<1>1. /\ DOMAIN C.fields = {"name", "servicePrincipalID", "letsEncryptEmail", "ports"}
      /\ \A f \in {"name", "servicePrincipalID"} :
            C.fields[f] = [kind |-> "value", of |-> NoMessage]
      /\ C.fields["ports"] = [kind |-> "list", of |-> CreateLoadBalancerPort]
      /\ C.rules["name"] = Matching(1, 20) /\ "name" \in DOMAIN C.rules
  BY DEF CreateCluster, CreateClusterRules, Message, Value, Optional, ListOf, Field, Of, ++
<1>2. /\ DOMAIN T.fields = {"name", "clusterID", "servicePrincipalID",
                            "hasLetsEncryptEmail", "created", "ports"}
      /\ \A f \in {"name", "servicePrincipalID"} :
            T.fields[f] = [kind |-> "value", of |-> NoMessage]
      /\ T.fields["ports"] = [kind |-> "list", of |-> ReadLoadBalancerPort]
      /\ T.rules["name"] = Matching(1, 20) /\ DOMAIN T.rules = {"name"}
  BY DEF ReadClusterDetail, ReadClusterDetailRules, Message, Value, ListOf, Field, Of, ++
<1>3. ASSUME NEW v, Valid3(CreateLoadBalancerPort, v)
      PROVE  Valid3(ReadLoadBalancerPort, v)
  <2>1. /\ CreateLoadBalancerPort.fields = ReadLoadBalancerPort.fields
        /\ CreateLoadBalancerPort.rules = ReadLoadBalancerPort.rules
    BY DEF CreateLoadBalancerPort, CreateLoadBalancerPortRules, ReadLoadBalancerPort,
           ReadLoadBalancerPortRules, CreateLoadBalancerPortProtocolRule,
           ReadLoadBalancerPortProtocolRule, Message
  <2> QED
    BY <1>3, <2>1 DEF Valid3, Validates
<1>4. CreateLoadBalancerPort # NoMessage
  <2>1. DOMAIN CreateLoadBalancerPort.fields = {"port", "protocol"}
    BY DEF CreateLoadBalancerPort, Message, Value, Of
  <2>2. DOMAIN NoMessage.fields = {}
    BY DEF NoMessage, Message
  <2> QED
    BY <2>1, <2>2
<1> HIDE DEF C, T
<1>5. InEach(Valid3, C.fields["ports"], m["ports"]) =>
        InEach(Valid3, T.fields["ports"], m["ports"])
  BY <1>1, <1>2, <1>3, <1>4 DEF InEach, IsList
<1>6. \A f \in DOMAIN C.fields \cap DOMAIN T.fields :
            /\ IsList(T.fields[f]) <=> IsList(C.fields[f])
            /\ f \in DOMAIN T.rules => f \in DOMAIN C.rules /\ T.rules[f] = C.rules[f]
            /\ InEach(Valid3, C.fields[f], m[f]) => InEach(Valid3, T.fields[f], m[f])
  BY <1>1, <1>2, <1>5 DEF IsList
<1>7. Valid(C, m) /\ DOMAIN m = DOMAIN C.fields
  BY DEF C
<1>8. Valid(Shared(T, m), m)
  BY <1>6, <1>7, StillValid
<1> QED
  BY <1>8 DEF T

-----------------------------------------------------------------------------
(***************************************************************************)
(* The messages of ReadBack, one at a time: what a create request and the  *)
(* message it is read back in have in common, the reader's rules ask no    *)
(* more of than the creator's.                                             *)
(***************************************************************************)

LEMMA ApplicationStays ==
  ASSUME NEW m, Valid(CreateApplication, m), DOMAIN m = DOMAIN CreateApplication.fields
  PROVE  Valid(Shared(ReadApplicationDetail, m), m)
<1> DEFINE C == CreateApplication
           T == ReadApplicationDetail
<1>1. DOMAIN C.fields \cap DOMAIN T.fields =
           {"name", "clusterID"}
  BY DEF CreateApplication, ReadApplicationDetail,
         Message, Value, Optional, Nullable, List, OptList, ListOf, Field, Of, ++
<1>2. /\ \A f \in {"name", "clusterID"} :
            C.fields[f] = [kind |-> "value", of |-> NoMessage]
  BY DEF CreateApplication,
         Message, Value, Optional, Nullable, List, OptList, ListOf, Field, Of, ++
<1>3. /\ \A f \in {"name", "clusterID"} :
            T.fields[f] = [kind |-> "value", of |-> NoMessage]
  BY DEF ReadApplicationDetail,
         Message, Value, Optional, Nullable, List, OptList, ListOf, Field, Of, ++
<1>4. \A f \in {"name", "clusterID"} :
        f \in DOMAIN T.rules => f \in DOMAIN C.rules /\ T.rules[f] = C.rules[f]
  BY DEF CreateApplication, CreateApplicationRules,
         ReadApplicationDetail, ReadApplicationDetailRules, Message
<1> HIDE DEF C, T
<1>5. ASSUME NEW f \in DOMAIN C.fields \cap DOMAIN T.fields
      PROVE  /\ T.fields[f] = C.fields[f]
             /\ f \in DOMAIN T.rules => f \in DOMAIN C.rules /\ T.rules[f] = C.rules[f]
  BY <1>1, <1>2, <1>3, <1>4, <1>5
<1>6. Valid(C, m) /\ DOMAIN m = DOMAIN C.fields
  BY DEF C
<1>7. Valid(Shared(T, m), m)
  BY <1>5, <1>6, StillValid
<1> QED
  BY <1>7 DEF T

LEMMA GroupStays ==
  ASSUME NEW m, Valid(CreateAutoScalingGroup, m), DOMAIN m = DOMAIN CreateAutoScalingGroup.fields
  PROVE  Valid(Shared(ReadAutoScalingGroupDetail, m), m)
<1> DEFINE C == CreateAutoScalingGroup
           T == ReadAutoScalingGroupDetail
<1>1. DOMAIN C.fields \cap DOMAIN T.fields =
           {"name", "zone", "workerServiceClassPath", 
            "minNodes", "maxNodes", "nameServers", 
            "interfaces"}
  BY DEF CreateAutoScalingGroup, ReadAutoScalingGroupDetail,
         Message, Value, Optional, Nullable, List, OptList, ListOf, Field, Of, ++
<1>2. /\ \A f \in {"name", "zone", "workerServiceClassPath", "minNodes", "maxNodes"} :
            C.fields[f] = [kind |-> "value", of |-> NoMessage]
      /\ C.fields["nameServers"] = [kind |-> "optlist", of |-> NoMessage]
      /\ C.fields["interfaces"] = [kind |-> "list", of |-> AutoScalingGroupNodeInterface]
  BY DEF CreateAutoScalingGroup,
         Message, Value, Optional, Nullable, List, OptList, ListOf, Field, Of, ++
<1>3. /\ \A f \in {"name", "zone", "workerServiceClassPath", "minNodes", "maxNodes"} :
            T.fields[f] = [kind |-> "value", of |-> NoMessage]
      /\ T.fields["nameServers"] = [kind |-> "optlist", of |-> NoMessage]
      /\ T.fields["interfaces"] = [kind |-> "list", of |-> AutoScalingGroupNodeInterface]
  BY DEF ReadAutoScalingGroupDetail,
         Message, Value, Optional, Nullable, List, OptList, ListOf, Field, Of, ++
<1>4. \A f \in {"name", "zone", "workerServiceClassPath", 
            "minNodes", "maxNodes", "nameServers", 
            "interfaces"} :
        f \in DOMAIN T.rules => f \in DOMAIN C.rules /\ T.rules[f] = C.rules[f]
  BY DEF CreateAutoScalingGroup, CreateAutoScalingGroupRules,
         ReadAutoScalingGroupDetail, ReadAutoScalingGroupDetailRules, Message
<1> HIDE DEF C, T
<1>5. ASSUME NEW f \in DOMAIN C.fields \cap DOMAIN T.fields
      PROVE  /\ T.fields[f] = C.fields[f]
             /\ f \in DOMAIN T.rules => f \in DOMAIN C.rules /\ T.rules[f] = C.rules[f]
  BY <1>1, <1>2, <1>3, <1>4, <1>5
<1>6. Valid(C, m) /\ DOMAIN m = DOMAIN C.fields
  BY DEF C
<1>7. Valid(Shared(T, m), m)
  BY <1>5, <1>6, StillValid
<1> QED
  BY <1>7 DEF T

LEMMA BalancerListed ==
  ASSUME NEW m, Valid(CreateLoadBalancer, m), DOMAIN m = DOMAIN CreateLoadBalancer.fields
  PROVE  Valid(Shared(ReadLoadBalancerSummary, m), m)
<1> DEFINE C == CreateLoadBalancer
           T == ReadLoadBalancerSummary
<1>1. DOMAIN C.fields \cap DOMAIN T.fields =
           {"name", "serviceClassPath", "nameServers"}
  BY DEF CreateLoadBalancer, ReadLoadBalancerSummary,
         Message, Value, Optional, Nullable, List, OptList, ListOf, Field, Of, ++
<1>2. /\ \A f \in {"name", "serviceClassPath"} :
            C.fields[f] = [kind |-> "value", of |-> NoMessage]
      /\ C.fields["nameServers"] = [kind |-> "optlist", of |-> NoMessage]
  BY DEF CreateLoadBalancer,
         Message, Value, Optional, Nullable, List, OptList, ListOf, Field, Of, ++
<1>3. /\ \A f \in {"name", "serviceClassPath"} :
            T.fields[f] = [kind |-> "value", of |-> NoMessage]
      /\ T.fields["nameServers"] = [kind |-> "optlist", of |-> NoMessage]
  BY DEF ReadLoadBalancerSummary,
         Message, Value, Optional, Nullable, List, OptList, ListOf, Field, Of, ++
<1>4. \A f \in {"name", "serviceClassPath", "nameServers"} :
        f \in DOMAIN T.rules => f \in DOMAIN C.rules /\ T.rules[f] = C.rules[f]
  BY DEF CreateLoadBalancer, CreateLoadBalancerRules,
         ReadLoadBalancerSummary, ReadLoadBalancerSummaryRules, Message
<1> HIDE DEF C, T
<1>5. ASSUME NEW f \in DOMAIN C.fields \cap DOMAIN T.fields
      PROVE  /\ T.fields[f] = C.fields[f]
             /\ f \in DOMAIN T.rules => f \in DOMAIN C.rules /\ T.rules[f] = C.rules[f]
  BY <1>1, <1>2, <1>3, <1>4, <1>5
<1>6. Valid(C, m) /\ DOMAIN m = DOMAIN C.fields
  BY DEF C
<1>7. Valid(Shared(T, m), m)
  BY <1>5, <1>6, StillValid
<1> QED
  BY <1>7 DEF T

LEMMA BalancerStays ==
  ASSUME NEW m, Valid(CreateLoadBalancer, m), DOMAIN m = DOMAIN CreateLoadBalancer.fields
  PROVE  Valid(Shared(ReadLoadBalancerDetail, m), m)
<1> DEFINE C == CreateLoadBalancer
           T == ReadLoadBalancerDetail
<1>1. DOMAIN C.fields \cap DOMAIN T.fields =
           {"name", "serviceClassPath", "nameServers", 
            "interfaces"}
  BY DEF CreateLoadBalancer, ReadLoadBalancerDetail,
         Message, Value, Optional, Nullable, List, OptList, ListOf, Field, Of, ++
<1>2. /\ \A f \in {"name", "serviceClassPath"} :
            C.fields[f] = [kind |-> "value", of |-> NoMessage]
      /\ C.fields["nameServers"] = [kind |-> "optlist", of |-> NoMessage]
      /\ C.fields["interfaces"] = [kind |-> "list", of |-> LoadBalancerInterface]
  BY DEF CreateLoadBalancer,
         Message, Value, Optional, Nullable, List, OptList, ListOf, Field, Of, ++
<1>3. /\ \A f \in {"name", "serviceClassPath"} :
            T.fields[f] = [kind |-> "value", of |-> NoMessage]
      /\ T.fields["nameServers"] = [kind |-> "optlist", of |-> NoMessage]
      /\ T.fields["interfaces"] = [kind |-> "list", of |-> LoadBalancerInterface]
  BY DEF ReadLoadBalancerDetail,
         Message, Value, Optional, Nullable, List, OptList, ListOf, Field, Of, ++
<1>4. \A f \in {"name", "serviceClassPath", "nameServers", 
            "interfaces"} :
        f \in DOMAIN T.rules => f \in DOMAIN C.rules /\ T.rules[f] = C.rules[f]
  BY DEF CreateLoadBalancer, CreateLoadBalancerRules,
         ReadLoadBalancerDetail, ReadLoadBalancerDetailRules, Message
<1> HIDE DEF C, T
<1>5. ASSUME NEW f \in DOMAIN C.fields \cap DOMAIN T.fields
      PROVE  /\ T.fields[f] = C.fields[f]
             /\ f \in DOMAIN T.rules => f \in DOMAIN C.rules /\ T.rules[f] = C.rules[f]
  BY <1>1, <1>2, <1>3, <1>4, <1>5
<1>6. Valid(C, m) /\ DOMAIN m = DOMAIN C.fields
  BY DEF C
<1>7. Valid(Shared(T, m), m)
  BY <1>5, <1>6, StillValid
<1> QED
  BY <1>7 DEF T

LEMMA CertificateStays ==
  ASSUME NEW m, Valid(CreateCertificate, m), DOMAIN m = DOMAIN CreateCertificate.fields
  PROVE  Valid(Shared(ReadCertificate, m), m)
<1> DEFINE C == CreateCertificate
           T == ReadCertificate
<1>1. DOMAIN C.fields \cap DOMAIN T.fields =
           {"name"}
  BY DEF CreateCertificate, ReadCertificate,
         Message, Value, Optional, Nullable, List, OptList, ListOf, Field, Of, ++
<1>2. /\ C.fields["name"] = [kind |-> "value", of |-> NoMessage]
  BY DEF CreateCertificate,
         Message, Value, Optional, Nullable, List, OptList, ListOf, Field, Of, ++
<1>3. /\ T.fields["name"] = [kind |-> "value", of |-> NoMessage]
  BY DEF ReadCertificate,
         Message, Value, Optional, Nullable, List, OptList, ListOf, Field, Of, ++
<1>4. \A f \in {"name"} :
        f \in DOMAIN T.rules => f \in DOMAIN C.rules /\ T.rules[f] = C.rules[f]
  BY DEF CreateCertificate, CreateCertificateRules,
         ReadCertificate, ReadCertificateRules, Message
<1> HIDE DEF C, T
<1>5. ASSUME NEW f \in DOMAIN C.fields \cap DOMAIN T.fields
      PROVE  /\ T.fields[f] = C.fields[f]
             /\ f \in DOMAIN T.rules => f \in DOMAIN C.rules /\ T.rules[f] = C.rules[f]
  BY <1>1, <1>2, <1>3, <1>4, <1>5
<1>6. Valid(C, m) /\ DOMAIN m = DOMAIN C.fields
  BY DEF C
<1>7. Valid(Shared(T, m), m)
  BY <1>5, <1>6, StillValid
<1> QED
  BY <1>7 DEF T

\* The value of a variable is optional on its way in and may be null on its
\* way out: it is held to the same rule.
LEMMA VariableStays ==
  ASSUME NEW v, Valid3(CreateEnvironmentVariable, v)
  PROVE  Valid3(ReadEnvironmentVariable, v)
<1> DEFINE C == CreateEnvironmentVariable
           T == ReadEnvironmentVariable
<1>1. /\ DOMAIN C.fields = {"key", "secret", "value"}
      /\ \A f \in {"key", "secret", "value"} :
            C.fields[f].of = NoMessage /\ ~IsList(C.fields[f])
  BY DEF CreateEnvironmentVariable, Message, Value, Optional, Of, ++, IsList
<1>2. /\ DOMAIN T.fields = {"key", "secret", "value"}
      /\ \A f \in {"key", "secret", "value"} :
            T.fields[f].of = NoMessage /\ ~IsList(T.fields[f])
  BY DEF ReadEnvironmentVariable, Message, Value, Nullable, Of, ++, IsList
<1>3. C.rules = T.rules
  BY DEF CreateEnvironmentVariable, CreateEnvironmentVariableRules,
         ReadEnvironmentVariable, ReadEnvironmentVariableRules, Message
<1>4. Valid3(C, v)
  OBVIOUS
<1> HIDE DEF C, T
<1>5. Valid3(T, v)
  BY <1>1, <1>2, <1>3, <1>4 DEF Valid3, Validates, InEach
<1> QED
  BY <1>5 DEF T

\* The fields of a version, as it is created and as it is read.
VersionFields(Vs, Os, Ns, variable) ==
    Value(Vs) ++ Optional(Os) ++ OptList({"cmd"}) ++ Nullable(Ns)
      ++ ListOf("exposedPorts", ExposedPort) ++ ListOf("env", variable)

LEMMA Joins ==
  ASSUME NEW f, NEW g
  PROVE  /\ DOMAIN (f ++ g) = DOMAIN f \cup DOMAIN g
         /\ \A x \in DOMAIN f : (f ++ g)[x] = f[x]
         /\ \A x \in DOMAIN g : x \notin DOMAIN f => (f ++ g)[x] = g[x]
  BY DEF ++

Disjoint(Vs, Os, Ns) ==
    /\ \A f \in Vs : f \notin Os /\ f \notin Ns
    /\ \A f \in Os : f \notin Ns
    /\ \A f \in {"cmd", "exposedPorts", "env"} : f \notin Vs /\ f \notin Os /\ f \notin Ns

HasFields(fields, Vs, Os, Ns, variable) ==
    /\ DOMAIN fields = Vs \cup Os \cup Ns \cup {"cmd", "exposedPorts", "env"}
    /\ \A f \in Vs : fields[f] = [kind |-> "value", of |-> NoMessage]
    /\ \A f \in Os : fields[f] = [kind |-> "optional", of |-> NoMessage]
    /\ \A f \in Ns : fields[f] = [kind |-> "nullable", of |-> NoMessage]
    /\ fields["cmd"] = [kind |-> "optlist", of |-> NoMessage]
    /\ fields["exposedPorts"] = [kind |-> "list", of |-> ExposedPort]
    /\ fields["env"] = [kind |-> "list", of |-> variable]

LEMMA VersionFieldsAre ==
  ASSUME NEW Vs, NEW Os, NEW Ns, NEW variable, Disjoint(Vs, Os, Ns)
  PROVE  HasFields(VersionFields(Vs, Os, Ns, variable), Vs, Os, Ns, variable)
<1> DEFINE a == Value(Vs)
           b == Optional(Os)
           c == OptList({"cmd"})
           d == Nullable(Ns)
           e == ListOf("exposedPorts", ExposedPort)
           g == ListOf("env", variable)
           ab == a ++ b
           ac == ab ++ c
           ad == ac ++ d
           ae == ad ++ e
           fields == ae ++ g
<1>1. DOMAIN a = Vs /\ \A f \in Vs : a[f] = [kind |-> "value", of |-> NoMessage]
  BY DEF Value, Of
<1>2. DOMAIN b = Os /\ \A f \in Os : b[f] = [kind |-> "optional", of |-> NoMessage]
  BY DEF Optional, Of
<1>3. DOMAIN c = {"cmd"} /\ c["cmd"] = [kind |-> "optlist", of |-> NoMessage]
  BY DEF OptList, Of
<1>4. DOMAIN d = Ns /\ \A f \in Ns : d[f] = [kind |-> "nullable", of |-> NoMessage]
  BY DEF Nullable, Of
<1>5. DOMAIN e = {"exposedPorts"} /\ e["exposedPorts"] = [kind |-> "list", of |-> ExposedPort]
  BY DEF ListOf, Field
<1>6. DOMAIN g = {"env"} /\ g["env"] = [kind |-> "list", of |-> variable]
  BY DEF ListOf, Field
<1> HIDE DEF a, b, c, d, e, g
<1>7. /\ DOMAIN ab = Vs \cup Os /\ \A f \in Vs : ab[f] = a[f]
      /\ \A f \in Os : ab[f] = b[f]
  <2>1. /\ DOMAIN ab = DOMAIN a \cup DOMAIN b
        /\ \A x \in DOMAIN a : ab[x] = a[x]
        /\ \A x \in DOMAIN b : x \notin DOMAIN a => ab[x] = b[x]
    BY Joins, Zenon
  <2> HIDE DEF ab
  <2> QED
    BY <1>1, <1>2, <2>1 DEF Disjoint
<1> HIDE DEF ab
<1>8. /\ DOMAIN ac = Vs \cup Os \cup {"cmd"} /\ \A f \in Vs \cup Os : ac[f] = ab[f]
      /\ ac["cmd"] = c["cmd"]
  <2>1. /\ DOMAIN ac = DOMAIN ab \cup DOMAIN c
        /\ \A x \in DOMAIN ab : ac[x] = ab[x]
        /\ \A x \in DOMAIN c : x \notin DOMAIN ab => ac[x] = c[x]
    BY Joins, Zenon
  <2> HIDE DEF ac
  <2> QED
    BY <1>3, <1>7, <2>1 DEF Disjoint
<1> HIDE DEF ac
<1>9. /\ DOMAIN ad = Vs \cup Os \cup {"cmd"} \cup Ns
      /\ \A f \in Vs \cup Os \cup {"cmd"} : ad[f] = ac[f]
      /\ \A f \in Ns : ad[f] = d[f]
  <2>1. /\ DOMAIN ad = DOMAIN ac \cup DOMAIN d
        /\ \A x \in DOMAIN ac : ad[x] = ac[x]
        /\ \A x \in DOMAIN d : x \notin DOMAIN ac => ad[x] = d[x]
    BY Joins, Zenon
  <2> HIDE DEF ad
  <2> QED
    BY <1>4, <1>8, <2>1 DEF Disjoint
<1> HIDE DEF ad
<1>10. /\ DOMAIN ae = Vs \cup Os \cup {"cmd"} \cup Ns \cup {"exposedPorts"}
       /\ \A f \in Vs \cup Os \cup {"cmd"} \cup Ns : ae[f] = ad[f]
       /\ ae["exposedPorts"] = e["exposedPorts"]
  <2>1. /\ DOMAIN ae = DOMAIN ad \cup DOMAIN e
        /\ \A x \in DOMAIN ad : ae[x] = ad[x]
        /\ \A x \in DOMAIN e : x \notin DOMAIN ad => ae[x] = e[x]
    BY Joins, Zenon
  <2> HIDE DEF ae
  <2> QED
    BY <1>5, <1>9, <2>1 DEF Disjoint
<1> HIDE DEF ae
<1>11. /\ DOMAIN fields = Vs \cup Os \cup {"cmd"} \cup Ns \cup {"exposedPorts", "env"}
       /\ \A f \in Vs \cup Os \cup {"cmd"} \cup Ns \cup {"exposedPorts"} : fields[f] = ae[f]
       /\ fields["env"] = g["env"]
  <2>1. /\ DOMAIN fields = DOMAIN ae \cup DOMAIN g
        /\ \A x \in DOMAIN ae : fields[x] = ae[x]
        /\ \A x \in DOMAIN g : x \notin DOMAIN ae => fields[x] = g[x]
    BY Joins, Zenon
  <2> HIDE DEF fields
  <2> QED
    BY <1>6, <1>10, <2>1 DEF Disjoint
<1>13. fields = VersionFields(Vs, Os, Ns, variable)
  BY DEF VersionFields, fields, ae, ad, ac, ab, a, b, c, d, e, g
<1> HIDE DEF fields
<1> QED
  BY <1>1, <1>2, <1>3, <1>4, <1>5, <1>6, <1>7, <1>8, <1>9, <1>10, <1>11, <1>13 DEF Disjoint, HasFields

\* The fields of a version that is created.
VersionValues == {"cpu", "memory", "scalingMode", "image"}
VersionScales ==
    {"fixedScale", "minScale", "maxScale", "scaleInThreshold", "scaleOutThreshold"}
VersionAccounts == {"registryUsername", "registryPassword"}

LEMMA CreatedFields ==
  LET C == CreateApplicationVersion
  IN  /\ C.fields["env"] = [kind |-> "list", of |-> CreateEnvironmentVariable]
      /\ DOMAIN C.fields = VersionValues \cup VersionScales \cup VersionAccounts
            \cup {"cmd", "exposedPorts", "env", "registryPasswordAction"}
      /\ \A f \in VersionValues : C.fields[f] = [kind |-> "value", of |-> NoMessage]
      /\ \A f \in VersionScales : C.fields[f] = [kind |-> "optional", of |-> NoMessage]
      /\ \A f \in VersionAccounts : C.fields[f] = [kind |-> "nullable", of |-> NoMessage]
      /\ C.fields["cmd"] = [kind |-> "optlist", of |-> NoMessage]
      /\ C.fields["exposedPorts"] = [kind |-> "list", of |-> ExposedPort]
<1> DEFINE C == CreateApplicationVersion
           Vs == VersionValues \cup {"registryPasswordAction"}
<1>1. C.fields = VersionFields(Vs, VersionScales, VersionAccounts, CreateEnvironmentVariable)
  <2>1. Vs = {"cpu", "memory", "scalingMode", "image", "registryPasswordAction"}
    BY DEF VersionValues
  <2>2. CreateApplicationVersion.fields =
            VersionFields({"cpu", "memory", "scalingMode", "image", "registryPasswordAction"},
                          VersionScales, VersionAccounts, CreateEnvironmentVariable)
    BY DEF CreateApplicationVersion, Message, VersionFields, VersionScales, VersionAccounts
  <2> HIDE DEF Vs
  <2> QED
    BY <2>1, <2>2
<1>2. Disjoint(Vs, VersionScales, VersionAccounts)
  BY DEF Disjoint, VersionValues, VersionScales, VersionAccounts
<1> HIDE DEF Vs, C
<1>3. HasFields(VersionFields(Vs, VersionScales, VersionAccounts, CreateEnvironmentVariable),
                Vs, VersionScales, VersionAccounts, CreateEnvironmentVariable)
  BY <1>2, VersionFieldsAre
<1>4. /\ HasFields(C.fields, Vs, VersionScales, VersionAccounts, CreateEnvironmentVariable)
      /\ VersionValues \subseteq Vs
      /\ Vs = VersionValues \cup {"registryPasswordAction"}
  BY <1>1, <1>3 DEF Vs
<1> QED
  BY <1>4 DEF HasFields, C

LEMMA VersionStays ==
  ASSUME NEW m, Valid(CreateApplicationVersion, m),
         DOMAIN m = DOMAIN CreateApplicationVersion.fields
  PROVE  Valid(Shared(ReadApplicationVersionDetail, m), m)
<1> DEFINE C == CreateApplicationVersion
           T == ReadApplicationVersionDetail
           Values == {"cpu", "memory", "scalingMode", "image"}
           Scales == {"fixedScale", "minScale", "maxScale", "scaleInThreshold",
                      "scaleOutThreshold"}
           Accounts == {"registryUsername", "registryPassword"}
           Both == Values \cup Scales \cup Accounts \cup {"cmd", "exposedPorts", "env"}
<1>2. /\ C.fields["env"] = [kind |-> "list", of |-> CreateEnvironmentVariable]
      /\ DOMAIN C.fields = Both \cup {"registryPasswordAction"}
      /\ \A f \in Values : C.fields[f] = [kind |-> "value", of |-> NoMessage]
      /\ \A f \in Scales : C.fields[f] = [kind |-> "optional", of |-> NoMessage]
      /\ \A f \in Accounts : C.fields[f] = [kind |-> "nullable", of |-> NoMessage]
      /\ C.fields["cmd"] = [kind |-> "optlist", of |-> NoMessage]
      /\ C.fields["exposedPorts"] = [kind |-> "list", of |-> ExposedPort]
  BY CreatedFields DEF VersionValues, VersionScales, VersionAccounts
<1>3. /\ T.fields["env"] = [kind |-> "list", of |-> ReadEnvironmentVariable]
      /\ "registryPasswordAction" \notin DOMAIN T.fields
      /\ \A f \in Values : T.fields[f] = [kind |-> "value", of |-> NoMessage]
      /\ \A f \in Scales : T.fields[f] = [kind |-> "optional", of |-> NoMessage]
      /\ \A f \in Accounts : T.fields[f] = [kind |-> "nullable", of |-> NoMessage]
      /\ T.fields["cmd"] = [kind |-> "optlist", of |-> NoMessage]
      /\ T.fields["exposedPorts"] = [kind |-> "list", of |-> ExposedPort]
  <2> DEFINE Vs == {"version", "cpu", "memory", "scalingMode", "image",
                    "activeNodeCount", "created"}
  <2>1. T.fields = VersionFields(Vs, Scales, Accounts, ReadEnvironmentVariable)
    BY DEF ReadApplicationVersionDetail, Message, VersionFields
  <2>2. Disjoint(Vs, Scales, Accounts)
    BY DEF Disjoint
  <2>3. /\ Values \subseteq Vs
        /\ "registryPasswordAction" \notin
                Vs \cup Scales \cup Accounts \cup {"cmd", "exposedPorts", "env"}
    OBVIOUS
  <2> HIDE DEF Vs, Values, Scales, Accounts, T
  <2>4. HasFields(VersionFields(Vs, Scales, Accounts, ReadEnvironmentVariable), Vs, Scales, Accounts, ReadEnvironmentVariable)
    BY <2>2, VersionFieldsAre
  <2> QED
    BY <2>1, <2>3, <2>4 DEF HasFields
<1>1. DOMAIN C.fields \cap DOMAIN T.fields \subseteq Both
  BY <1>2, <1>3
<1>4. \A f \in Both :
        f \in DOMAIN T.rules => f \in DOMAIN C.rules /\ T.rules[f] = C.rules[f]
  BY DEF CreateApplicationVersion, CreateApplicationVersionRules,
         ReadApplicationVersionDetail, ReadApplicationVersionDetailRules, Message
<1>5. CreateEnvironmentVariable # NoMessage
  <2>1. DOMAIN CreateEnvironmentVariable.fields = {"key", "secret", "value"}
    BY DEF CreateEnvironmentVariable, Message, Value, Optional, Of, ++
  <2>2. DOMAIN NoMessage.fields = {}
    BY DEF NoMessage, Message
  <2> QED
    BY <2>1, <2>2
<1>6. Valid(C, m) /\ DOMAIN m = DOMAIN C.fields
  OBVIOUS
<1> HIDE DEF C, T
<1>7. InEach(Valid3, C.fields["env"], m["env"]) => InEach(Valid3, T.fields["env"], m["env"])
  BY <1>2, <1>3, <1>5, VariableStays DEF InEach, IsList
<1>8. ASSUME NEW f \in Both, f # "env" PROVE T.fields[f] = C.fields[f]
  BY <1>2, <1>3, <1>8
<1>9. IsList(T.fields["env"]) /\ IsList(C.fields["env"])
  BY <1>2, <1>3 DEF IsList
<1> HIDE DEF Both
<1>10. \A f \in DOMAIN C.fields \cap DOMAIN T.fields :
            /\ IsList(T.fields[f]) <=> IsList(C.fields[f])
            /\ f \in DOMAIN T.rules => f \in DOMAIN C.rules /\ T.rules[f] = C.rules[f]
            /\ InEach(Valid3, C.fields[f], m[f]) => InEach(Valid3, T.fields[f], m[f])
  BY <1>1, <1>4, <1>7, <1>8, <1>9
<1>11. Valid(Shared(T, m), m)
  BY <1>6, <1>10, StillValid
<1> QED
  BY <1>11 DEF T

LEMMA DeploymentStays ==
  ASSUME NEW m, Valid(CreateApplicationVersion, m), DOMAIN m = DOMAIN CreateApplicationVersion.fields
  PROVE  Valid(Shared(ApplicationVersionDeploymentStatus, m), m)
<1> DEFINE C == CreateApplicationVersion
           T == ApplicationVersionDeploymentStatus
<1>1. DOMAIN C.fields \cap DOMAIN T.fields =
           {"image"}
  <2>1. DOMAIN T.fields = {"version", "image", "activeNodeCount", "created"}
    BY Zenon DEF ApplicationVersionDeploymentStatus, Message, Value, Of
  <2>2. DOMAIN C.fields = VersionValues \cup VersionScales \cup VersionAccounts
            \cup {"cmd", "exposedPorts", "env", "registryPasswordAction"}
    BY CreatedFields
  <2> HIDE DEF C, T
  <2> QED
    BY <2>1, <2>2 DEF VersionValues, VersionScales, VersionAccounts
<1>2. /\ C.fields["image"] = [kind |-> "value", of |-> NoMessage]
  BY CreatedFields DEF VersionValues
<1>3. /\ T.fields["image"] = [kind |-> "value", of |-> NoMessage]
  BY DEF ApplicationVersionDeploymentStatus,
         Message, Value, Optional, Nullable, List, OptList, ListOf, Field, Of, ++
<1>4. \A f \in {"image"} :
        f \in DOMAIN T.rules => f \in DOMAIN C.rules /\ T.rules[f] = C.rules[f]
  BY DEF CreateApplicationVersion, CreateApplicationVersionRules,
         ApplicationVersionDeploymentStatus, ApplicationVersionDeploymentStatusRules, Message
<1> HIDE DEF C, T
<1>5. ASSUME NEW f \in DOMAIN C.fields \cap DOMAIN T.fields
      PROVE  /\ T.fields[f] = C.fields[f]
             /\ f \in DOMAIN T.rules => f \in DOMAIN C.rules /\ T.rules[f] = C.rules[f]
  BY <1>1, <1>2, <1>3, <1>4, <1>5
<1>6. Valid(C, m) /\ DOMAIN m = DOMAIN C.fields
  BY DEF C
<1>7. Valid(Shared(T, m), m)
  BY <1>5, <1>6, StillValid
<1> QED
  BY <1>7, Zenon DEF T

(***************************************************************************)
(* What the server accepts of a create request, the client accepts when it *)
(* is read back.                                                           *)
(***************************************************************************)
LEMMA ReadsStand == Course => AcceptedReads
<1> SUFFICES ASSUME Course, heard # NotYet, heard.op \in DOMAIN ReadBack,
                    NEW T \in ReadBack[heard.op]
             PROVE  Valid(Shared(T, heard.body), heard.body)
  BY DEF AcceptedReads
<1> DEFINE op == heard.op
           C == Sends[op].body
           m == heard.body
<1>1. /\ op = call.op /\ m = SameBody(C, call.body)
      /\ C # NoMessage => Valid(C, Same(C, call.body))
  BY HeardStands DEF HeardAsSent, Acceptable
<1>2. /\ DOMAIN ReadBack = {"CreateCluster", "CreateApplication", "CreateApplicationVersion",
                            "CreateAutoScalingGroup", "CreateLoadBalancer", "CreateCertificate"}
      /\ ReadBack["CreateCluster"] = {ReadClusterDetail}
      /\ ReadBack["CreateApplication"] = {ReadApplicationDetail}
      /\ ReadBack["CreateApplicationVersion"] =
            {ReadApplicationVersionDetail, ApplicationVersionDeploymentStatus}
      /\ ReadBack["CreateAutoScalingGroup"] = {ReadAutoScalingGroupDetail}
      /\ ReadBack["CreateLoadBalancer"] = {ReadLoadBalancerSummary, ReadLoadBalancerDetail}
      /\ ReadBack["CreateCertificate"] = {ReadCertificate}
  BY DEF ReadBack
<1>3. /\ Sends["CreateCluster"].body = CreateCluster
      /\ Sends["CreateApplication"].body = CreateApplication
      /\ Sends["CreateApplicationVersion"].body = CreateApplicationVersion
      /\ Sends["CreateAutoScalingGroup"].body = CreateAutoScalingGroup
      /\ Sends["CreateLoadBalancer"].body = CreateLoadBalancer
      /\ Sends["CreateCertificate"].body = CreateCertificate
  BY DEF Sends, SendCreateCluster, SendCreateApplication, SendCreateApplicationVersion,
         SendCreateAutoScalingGroup, SendCreateLoadBalancer, SendCreateCertificate, Post, Send
<1>4. DOMAIN NoMessage.fields = {}
  BY DEF NoMessage, Message
<1>8. /\ "name" \in DOMAIN CreateCluster.fields /\ "name" \in DOMAIN CreateApplication.fields
      /\ "cpu" \in DOMAIN CreateApplicationVersion.fields
      /\ "name" \in DOMAIN CreateAutoScalingGroup.fields
      /\ "name" \in DOMAIN CreateLoadBalancer.fields
      /\ "name" \in DOMAIN CreateCertificate.fields
  <2>1. "name" \in DOMAIN CreateCluster.fields
    BY DEF CreateCluster,
           Message, Value, Optional, Nullable, OptList, ListOf, Field, Of, ++
  <2>2. "name" \in DOMAIN CreateApplication.fields
    BY DEF CreateApplication,
           Message, Value, Optional, Nullable, OptList, ListOf, Field, Of, ++
  <2>3. "name" \in DOMAIN CreateAutoScalingGroup.fields
    BY DEF CreateAutoScalingGroup,
           Message, Value, Optional, Nullable, OptList, ListOf, Field, Of, ++
  <2>4. "name" \in DOMAIN CreateLoadBalancer.fields
    BY DEF CreateLoadBalancer,
           Message, Value, Optional, Nullable, OptList, ListOf, Field, Of, ++
  <2>5. "name" \in DOMAIN CreateCertificate.fields
    BY DEF CreateCertificate,
           Message, Value, Optional, Nullable, OptList, ListOf, Field, Of, ++
  <2>6. "cpu" \in DOMAIN CreateApplicationVersion.fields
    BY DEF CreateApplicationVersion,
           Message, Value, Optional, Nullable, OptList, ListOf, Field, Of, ++
  <2> QED
    BY <2>1, <2>2, <2>3, <2>4, <2>5, <2>6
<1> HIDE DEF op, C, m
<1>5. C # NoMessage
  BY <1>2, <1>3, <1>4, <1>8 DEF op, C
<1>6. Valid(C, m) /\ DOMAIN m = DOMAIN C.fields
  BY <1>1, <1>5 DEF SameBody, Same, Arrives
<1>7. Valid(Shared(T, m), m)
  <2>1. T \in ReadBack[op] /\ op \in DOMAIN ReadBack /\ C = Sends[op].body
    BY DEF op, C
  <2> QED
    BY <1>2, <1>3, <1>6, <2>1, ClusterStays, ApplicationStays, VersionStays, DeploymentStays,
       GroupStays, BalancerListed, BalancerStays, CertificateStays
<1> QED
  BY <1>7 DEF m

\* No object can be made that its own reader refuses (AcceptedReads).
THEOREM AllAcceptedReads == Spec => []AcceptedReads
  BY ReadsStand, CourseKept, PTL

=============================================================================
