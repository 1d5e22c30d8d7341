------------------------------ MODULE Exchange ------------------------------
(***************************************************************************)
(* One call after another through the generated bindings: the client sends *)
(* it, the server routes it, admits or refuses it, its handler returns     *)
(* something, and the client makes a result of the response.  The          *)
(* connection may break on either way.  What the handler returns is the    *)
(* service's business and may be anything of the operation's type.         *)
(***************************************************************************)
EXTENDS Operations

CONSTANTS
    CallsOf(_),     \* the calls of an operation that are tried
    OutcomesOf(_)   \* what its handler may return

\* Calls and outcomes are what the client's and the handler's types allow.
ASSUME CallsAssumption ==
    \A op \in DOMAIN Sends : \A c \in CallsOf(op) : IsCall(op, c)
ASSUME OutcomesAssumption ==
    \A op \in DOMAIN Sends : \A o \in OutcomesOf(op) : IsOutcome(op, o)

VARIABLES
    stage,      \* how far the call has come
    call,       \* what the caller asked for
    request,    \* what the client sent
    heard,      \* what the handler was called with
    outcome,    \* what it returned
    response,   \* what the server sent back
    result      \* what the caller got

vars == <<stage, call, request, heard, outcome, response, result>>

Op == DOMAIN Sends

Init ==
    /\ stage = "idle"
    /\ call = NotYet /\ request = NotYet /\ heard = NotYet
    /\ outcome = NotYet /\ response = NotYet /\ result = NotYet

Start ==
    /\ stage = "idle"
    /\ \E op \in Op : \E c \in CallsOf(op) :
        /\ call' = [op |-> op, args |-> c.args, query |-> c.query,
                    body |-> c.body, trusted |-> c.trusted]
        /\ request' = Request(op, c)
    /\ stage' = "sent"
    /\ UNCHANGED <<heard, outcome, response, result>>

\* The server answers without calling the handler.
Refuse ==
    /\ stage = "sent"
    /\ Refusal(request) # Admitted
    /\ response' = Refusal(request)
    /\ stage' = "answered"
    /\ UNCHANGED <<call, request, heard, outcome, result>>

Hear ==
    /\ stage = "sent"
    /\ Refusal(request) = Admitted
    /\ heard' = Heard(request)
    /\ stage' = "heard"
    /\ UNCHANGED <<call, request, outcome, response, result>>

Return ==
    /\ stage = "heard"
    /\ \E o \in OutcomesOf(heard.op) :
        /\ outcome' = o
        /\ response' = Response(heard.op, o)
    /\ stage' = "answered"
    /\ UNCHANGED <<call, request, heard, result>>

Receive ==
    /\ stage = "answered"
    /\ result' = Result(call.op, response)
    /\ stage' = "done"
    /\ UNCHANGED <<call, request, heard, outcome, response>>

\* Do fails: the request did not arrive, or the response did not.
Break ==
    /\ stage \in {"sent", "heard", "answered"}
    /\ result' = Lost
    /\ stage' = "done"
    /\ UNCHANGED <<call, request, heard, outcome, response>>

Leave ==
    /\ stage = "done"
    /\ stage' = "idle"
    /\ call' = NotYet /\ request' = NotYet /\ heard' = NotYet
    /\ outcome' = NotYet /\ response' = NotYet /\ result' = NotYet

Next == Start \/ Refuse \/ Hear \/ Return \/ Receive \/ Break \/ Leave

Spec == Init /\ [][Next]_vars

-----------------------------------------------------------------------------
(***************************************************************************)
(* What the bindings promise.                                              *)
(***************************************************************************)

\* A handler is called for the operation the caller named, with its
\* parameters and its message, and for no call that is not acceptable: the
\* encoders, the router and the decoders agree on every operation.
HeardAsSent ==
    heard # NotYet =>
        /\ Acceptable(call.op, call)
        /\ heard = [op |-> call.op, args |-> call.args, query |-> call.query,
                    body |-> SameBody(Sends[call.op].body, call.body)]

\* A call that gets a response without having been heard was not acceptable:
\* nothing the client can say well is lost on the way through the server.
RefusedForCause == response # NotYet /\ heard = NotYet => ~Acceptable(call.op, call)

\* What the handler answers is what the caller gets, unless the answer breaks
\* the rules of its own type: then the caller gets an error, though whatever
\* the handler did has been done.
AnswerArrives ==
    stage = "done" /\ result # Lost /\ outcome # NotYet /\ outcome.kind = "answer"
        => LET T == Answers[call.op].message
           IN  result = IF T = NoMessage \/ Valid(T, Same(T, outcome.message))
                        THEN [kind |-> "answer",
                              message |-> SameBody(T, outcome.message)]
                        ELSE Undecodable

\* A status reaches the caller if and only if the service itself gave it: what
\* the router, the decoders or "not implemented" refuse is unreadable to the
\* client (wrapAPIError of sync.go then has no title to show).
StatusFromService ==
    stage = "done" /\ result # Lost =>
        (result.kind = "status" <=>
            \/ ~call.trusted
            \/ outcome # NotYet /\ outcome.kind \in {"status", "failure"})

\* What a create request stores is served again by these messages.  The summaries
\* of a listing are not among them: ReadClusterSummary asks for a name of three
\* characters or more, CreateCluster for one.
ReadBack ==
    [CreateCluster |-> {ReadClusterDetail},
     CreateApplication |-> {ReadApplicationDetail},
     CreateApplicationVersion |->
        {ReadApplicationVersionDetail, ApplicationVersionDeploymentStatus},
     CreateAutoScalingGroup |-> {ReadAutoScalingGroupDetail},
     CreateLoadBalancer |-> {ReadLoadBalancerSummary, ReadLoadBalancerDetail},
     CreateCertificate |-> {ReadCertificate}]

Shared(T, m) ==
    LET both == DOMAIN T.fields \cap DOMAIN m
    IN  Message([f \in both |-> T.fields[f]],
                [f \in both \cap DOMAIN T.rules |-> T.rules[f]])

\* What the server accepts of a create request, the client accepts when it is
\* read back: no object can be made that its own reader refuses.
AcceptedReads ==
    heard # NotYet /\ heard.op \in DOMAIN ReadBack =>
        \A T \in ReadBack[heard.op] : Valid(Shared(T, heard.body), heard.body)

-----------------------------------------------------------------------------
(***************************************************************************)
(* The provisioner's waits for a deletion (waitForASGDeletion,             *)
(* waitForLBDeletion) make a verdict of the result of one poll.  A         *)
(* SecurityError is what they look for, and no result of the client is     *)
(* one: only the server makes it, for NewError, and answers with the Error *)
(* that makes of it.                                                       *)
(***************************************************************************)
Poll == {"GetLoadBalancer", "GetAutoScalingGroup"}

Verdict(r) ==
    CASE r.kind = "answer" -> "waiting"
      [] r.kind = "security" -> "failed"
      [] OTHER -> "deleted"

\* "Security error means we can't access it" (autoscaling.go:349, loadbalancer.go:429):
\* a poll that is refused for its credentials ends the wait with an error.
DeniedEndsWait ==
    stage = "done" /\ call.op \in Poll /\ ~call.trusted /\ result # Lost =>
        Verdict(result) = "failed"

=============================================================================
