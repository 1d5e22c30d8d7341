------------------------------- MODULE Codec -------------------------------
(***************************************************************************)
(* How the generated bindings carry a message: what Encode writes of it,   *)
(* what Decode makes of an object it reads, and what Validate asks.  Each  *)
(* message has generated methods of its own (oas_json_gen.go,              *)
(* oas_validators_gen.go) that differ only in the fields they name, so a   *)
(* message is a table and the methods are operators on tables.             *)
(*                                                                         *)
(* A message in memory is a function on its fields: None is an unset       *)
(* optional or a nil list, Null a nullable that holds null.  An object on  *)
(* the wire has a field only if it was written, as a token: null, or a     *)
(* value.  A scalar is a measure: the value of a number, the length of a   *)
(* text, or Odd for a text its pattern or list of words refuses.           *)
(*                                                                         *)
(* The methods of a message call those of the messages in it.  None nests  *)
(* more than four deep (Operations assumes it of the tables), so the       *)
(* operators come in four sizes: Encode1 is for a message with none in it, *)
(* Encode2 for one with messages of that size, and Encode for any.         *)
(***************************************************************************)
EXTENDS Absent, Integers, Sequences

CONSTANT Odd

ASSUME OddAssumption == Odd \notin Int

Unbounded == 2147483647

Message(fields, rules) == [fields |-> fields, rules |-> rules]

\* The table of no message: a field of scalars has none in it.
NoRules == <<>>
NoMessage == Message(<<>>, NoRules)

(***************************************************************************)
(* Kinds of field, by the Go type and by what encodeFields and Decode do:  *)
(* plain values, Opt types, Nil types, slices written whatever they hold   *)
(* and slices left out when nil.                                           *)
(***************************************************************************)
Of(kind, names) == [f \in names |-> [kind |-> kind, of |-> NoMessage]]
Value(names) == Of("value", names)
Optional(names) == Of("optional", names)
Nullable(names) == Of("nullable", names)
List(names) == Of("list", names)
OptList(names) == Of("optlist", names)

\* A field that holds another message, or a list of them.
Field(name, kind, message) == [f \in {name} |-> [kind |-> kind, of |-> message]]
One(name, message) == Field(name, "value", message)
NullableOf(name, message) == Field(name, "nullable", message)
ListOf(name, message) == Field(name, "list", message)
OptListOf(name, message) == Field(name, "optlist", message)

\* The fields of a message that has fields of several kinds.
f ++ g ==
    [x \in DOMAIN f \cup DOMAIN g |-> IF x \in DOMAIN f THEN f[x] ELSE g[x]]

IsList(field) == field.kind \in {"list", "optlist"}

\* A field with nothing in it.
Empty(field, v) ==
    \/ v = None /\ field.kind \in {"optional", "list", "optlist"}
    \/ v = Null /\ field.kind = "nullable"

\* What Make makes of the message a field holds, or of each of them, and what
\* Holds has to hold of it.  Scalars stay as they are.
Inside(Make(_, _), field, v) ==
    IF field.of = NoMessage THEN v
    ELSE IF IsList(field) THEN [i \in DOMAIN v |-> Make(field.of, v[i])]
    ELSE Make(field.of, v)

InEach(Holds(_, _), field, v) ==
    field.of # NoMessage =>
        IF IsList(field) THEN \A i \in DOMAIN v : Holds(field.of, v[i])
        ELSE Holds(field.of, v)

\* How deep messages nest.
Nests(Deeper(_), T) == \A f \in DOMAIN T.fields : Deeper(T.fields[f].of)
NestsTwo(T) == Nests(LAMBDA S : Nests(LAMBDA R : R = NoMessage, S), T)
NestsFour(T) == Nests(LAMBDA S : Nests(NestsTwo, S), T)

-----------------------------------------------------------------------------
(***************************************************************************)
(* Rules of Validate.  A rule bounds a number, a length or a count; it may *)
(* refuse what a pattern or a list of words refuses; the rule of a list    *)
(* may have one for its scalars.                                           *)
(***************************************************************************)
Within(lo, hi) == [lo |-> lo, hi |-> hi, strict |-> FALSE, each |-> None]
Matching(lo, hi) == [Within(lo, hi) EXCEPT !.strict = TRUE]
Listed == Matching(0, Unbounded)
Finite == Matching(-Unbounded, Unbounded)
ItemsOf(lo, hi, rule) == [Within(lo, hi) EXCEPT !.each = rule]

Meets(rule, v) ==
    IF v = Odd THEN ~rule.strict ELSE rule.lo <= v /\ v <= rule.hi

MeetsInList(rule, list) ==
    /\ Meets(rule, Len(list))
    /\ rule.each # None => \A i \in DOMAIN list : Meets(rule.each, list[i])

\* A slice that came from JSON is never nil: the "nil is invalid" checks of
\* the code refuse no message it can have read.
Validates(Holds(_, _), T, m) ==
    \A f \in DOMAIN T.fields :
        \/ m[f] \in {None, Null}
        \/ /\ f \in DOMAIN T.rules =>
                IF IsList(T.fields[f]) THEN MeetsInList(T.rules[f], m[f])
                                       ELSE Meets(T.rules[f], m[f])
           /\ InEach(Holds, T.fields[f], m[f])

Valid1(T, m) == Validates(LAMBDA S, n : TRUE, T, m)
Valid2(T, m) == Validates(Valid1, T, m)
Valid3(T, m) == Validates(Valid2, T, m)
Valid(T, m) == Validates(Valid3, T, m)

-----------------------------------------------------------------------------
\* Mutated form of Omitted: an empty optional list is left out like a nil one.
OmittedEmpty(field, v) ==
    \/ field.kind = "optional" /\ v = None
    \/ field.kind = "optlist" /\ v \in {None, <<>>}

\* Mutated form of Omitted: so is null.
OmittedNull(field, v) ==
    \/ v = None /\ field.kind \in {"optional", "optlist"}
    \/ v = Null /\ field.kind = "nullable"

\* An unset optional and a nil optional list are left out of the object.
Omitted(field, v) == v = None /\ field.kind \in {"optional", "optlist"}

NullToken == [json |-> "null"]
Token(v) == [json |-> "value", is |-> v]

\* encodeFields: a nil list is written as an empty one, null as null.
Encodes(Make(_, _), T, m) ==
    [f \in {g \in DOMAIN T.fields : ~Omitted(T.fields[g], m[g])} |->
        IF ~Empty(T.fields[f], m[f])
        THEN Token(Inside(Make, T.fields[f], m[f]))
        ELSE IF T.fields[f].kind = "nullable" THEN NullToken ELSE Token(<<>>)]

Encode1(T, m) == Encodes(LAMBDA S, n : n, T, m)
Encode2(T, m) == Encodes(Encode1, T, m)
Encode3(T, m) == Encodes(Encode2, T, m)
Encode(T, m) == Encodes(Encode3, T, m)

\* Decode fails on a missing required field and on a null that is not allowed;
\* a field it does not know is skipped.
Required(T) ==
    {f \in DOMAIN T.fields : T.fields[f].kind \in {"value", "nullable", "list"}}

Readable(Holds(_, _), T, o) ==
    /\ Required(T) \subseteq DOMAIN o
    /\ \A f \in DOMAIN o \cap DOMAIN T.fields :
        IF o[f] = NullToken THEN T.fields[f].kind = "nullable"
        ELSE InEach(Holds, T.fields[f], o[f].is)

Decodes1(T, o) == Readable(LAMBDA S, p : TRUE, T, o)
Decodes2(T, o) == Readable(Decodes1, T, o)
Decodes3(T, o) == Readable(Decodes2, T, o)
Decodes(T, o) == Readable(Decodes3, T, o)

DecodesTo(Make(_, _), T, o) ==
    [f \in DOMAIN T.fields |->
        IF f \notin DOMAIN o THEN None
        ELSE IF o[f] = NullToken THEN Null
        ELSE Inside(Make, T.fields[f], o[f].is)]

Decode1(T, o) == DecodesTo(LAMBDA S, p : p, T, o)
Decode2(T, o) == DecodesTo(Decode1, T, o)
Decode3(T, o) == DecodesTo(Decode2, T, o)
Decode(T, o) == DecodesTo(Decode3, T, o)

-----------------------------------------------------------------------------
(***************************************************************************)
(* What carrying a message ought to do.                                    *)
(***************************************************************************)

\* A message as Go can hold it: it has its fields, and a list is a sequence.
IsA(Holds(_, _), T, m) ==
    /\ DOMAIN m = DOMAIN T.fields
    /\ \A f \in DOMAIN T.fields :
        \/ Empty(T.fields[f], m[f])
        \/ /\ IsList(T.fields[f]) =>
                Len(m[f]) \in Nat /\ DOMAIN m[f] = 1..Len(m[f])
           /\ InEach(Holds, T.fields[f], m[f])

IsA1(T, m) == IsA(LAMBDA S, n : TRUE, T, m)
IsA2(T, m) == IsA(IsA1, T, m)
IsA3(T, m) == IsA(IsA2, T, m)
IsMessage(T, m) == IsA(IsA3, T, m)

\* A message as the other side holds it: the same but for nil lists, which
\* arrive as empty ones unless the field may be left out.
Arrives(Make(_, _), T, m) ==
    [f \in DOMAIN T.fields |->
        IF ~Empty(T.fields[f], m[f]) THEN Inside(Make, T.fields[f], m[f])
        ELSE IF T.fields[f].kind = "list" THEN <<>> ELSE m[f]]

Same1(T, m) == Arrives(LAMBDA S, n : n, T, m)
Same2(T, m) == Arrives(Same1, T, m)
Same3(T, m) == Arrives(Same2, T, m)
Same(T, m) == Arrives(Same3, T, m)

=============================================================================
