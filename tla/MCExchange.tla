----------------------------- MODULE MCExchange -----------------------------
(***************************************************************************)
(* Calls and answers to try: for every message a plain one, and the plain  *)
(* one with a single field at, just inside or just outside a bound of its  *)
(* rule, unset, null, nil or odd, at every depth.                          *)
(***************************************************************************)
EXTENDS Exchange, FiniteSets, TLC

Lowest(rule) == IF rule.lo > -Unbounded THEN rule.lo ELSE rule.hi

Around(rule) ==
    {Lowest(rule)}
        \cup (IF rule.lo > -Unbounded THEN {rule.lo - 1} ELSE {})
        \cup (IF rule.hi < Unbounded THEN {rule.hi, rule.hi + 1} ELSE {})
        \cup (IF rule.strict THEN {Odd} ELSE {})

RuleOf(T, f) == IF f \in DOMAIN T.rules THEN T.rules[f] ELSE Free
Elements(rule) == IF rule.each = None THEN Free ELSE rule.each

PlainScalar(rule) == IF rule = Free THEN 1 ELSE Lowest(rule)

RECURSIVE Plain(_)
PlainElement(T, f) ==
    IF T.fields[f].of # NoMessage THEN Plain(T.fields[f].of)
    ELSE PlainScalar(Elements(RuleOf(T, f)))
PlainList(T, f, n) == [i \in 1..n |-> PlainElement(T, f)]
Fewest(T, f) == IF RuleOf(T, f).lo > 0 THEN RuleOf(T, f).lo ELSE 0
Plain(T) ==
    [f \in DOMAIN T.fields |->
        IF IsList(T.fields[f]) THEN PlainList(T, f, Fewest(T, f))
        ELSE IF T.fields[f].of # NoMessage THEN Plain(T.fields[f].of)
        ELSE PlainScalar(RuleOf(T, f))]

\* How many elements to try: none, one, and around the rule's bounds.
Counts(T, f) ==
    {n \in {0, 1, RuleOf(T, f).lo - 1, RuleOf(T, f).lo}
             \cup (IF RuleOf(T, f).hi < Unbounded
                   THEN {RuleOf(T, f).hi, RuleOf(T, f).hi + 1} ELSE {}) :
        n >= 0}

RECURSIVE Variants(_)
VariantElements(T, f) ==
    IF T.fields[f].of # NoMessage THEN Variants(T.fields[f].of)
    ELSE Around(Elements(RuleOf(T, f)))
FieldVariants(T, f) ==
    LET field == T.fields[f]
    IN  (IF field.kind \in {"optional", "list", "optlist"} THEN {None} ELSE {})
        \cup (IF field.kind = "nullable" THEN {Null} ELSE {})
        \cup (IF IsList(field)
              THEN {PlainList(T, f, n) : n \in Counts(T, f)}
                    \cup {[PlainList(T, f, IF Fewest(T, f) > 1
                                           THEN Fewest(T, f) ELSE 1)
                            EXCEPT ![1] = v] : v \in VariantElements(T, f)}
              ELSE IF field.of # NoMessage THEN Variants(field.of)
              ELSE IF RuleOf(T, f) = Free THEN {1}
              ELSE Around(RuleOf(T, f)))
Variants(T) ==
    UNION {{[Plain(T) EXCEPT ![f] = v] : v \in FieldVariants(T, f)} :
            f \in DOMAIN T.fields}

-----------------------------------------------------------------------------
\* Identifiers are told apart by the parameter they are meant for.
MCArgs ==
    [clusterID |-> 1, autoScalingGroupID |-> 2, loadBalancerID |-> 3,
     loadBalancerNodeID |-> 4, workerNodeID |-> 5, applicationID |-> 6,
     certificateID |-> 7]

ArgsOf(op) ==
    LET names == {Sends[op].path[i] : i \in DOMAIN Sends[op].path}
        ids == [n \in names \cap DOMAIN MCArgs |-> MCArgs[n]]
    IN  IF "version" \in names
        THEN {ids @@ ("version" :> v) : v \in {0, 1, 8}} ELSE {ids}

PlainQuery(op) ==
    [q \in Sends[op].query |-> IF q = "maxItems" THEN 30 ELSE None]
QueriesOf(op) ==
    {PlainQuery(op)} \cup
        UNION {{[PlainQuery(op) EXCEPT ![q] = v] :
                    v \in {9} \cup Around(Handlers[op].params.query[q])} :
                q \in Sends[op].query}

BodiesOf(op) ==
    IF Sends[op].body = NoMessage THEN {None} ELSE Variants(Sends[op].body)

MCCallsOf(op) ==
    {[args |-> a, query |-> q, body |-> b, trusted |-> t] :
        a \in ArgsOf(op), q \in QueriesOf(op), b \in BodiesOf(op),
        t \in BOOLEAN}

\* Everything an answer can hold, for a call that is otherwise plain, and the
\* errors of a handler.
MCOutcomesOf(op) ==
    LET T == Handlers[op].answer.message
    IN  {[kind |-> "answer", message |-> m] :
            m \in IF T = NoMessage THEN {None} ELSE Variants(T)}
        \cup {[kind |-> "status", code |-> c] : c \in {404, 409}}
        \cup {[kind |-> "failure"], [kind |-> "unimplemented"]}

=============================================================================
