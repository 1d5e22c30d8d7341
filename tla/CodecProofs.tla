----------------------------- MODULE CodecProofs -----------------------------
(***************************************************************************)
(* What the codec and the tables of operations do, for every message and   *)
(* every call: a message that is written can be read, and is read as the   *)
(* one that was written; a request reaches the operation it was made for,  *)
(* with its arguments; and a call is refused if and only if it was not     *)
(* acceptable.                                                             *)
(***************************************************************************)
EXTENDS Operations, SequenceTheorems, WellFoundedInduction, TLAPS

-----------------------------------------------------------------------------
(***************************************************************************)
(* Written and read.  The four sizes have the same proof, each from the    *)
(* one before it.                                                          *)
(***************************************************************************)

\* Field f of m in the object o that m is written as, v being what is inside.
WrittenAs(T, m, f, o, v) ==
  /\ f \in Required(T) => f \in DOMAIN o
  /\ ~Empty(T.fields[f], m[f]) =>
      f \in DOMAIN o /\ o[f] # NullToken /\ o[f].is = v
  /\ Empty(T.fields[f], m[f]) =>
      \/ /\ f \notin DOMAIN o
         /\ m[f] = None /\ T.fields[f].kind \in {"optional", "optlist"}
      \/ /\ f \in DOMAIN o /\ o[f] = NullToken
         /\ m[f] = Null /\ T.fields[f].kind = "nullable"
      \/ /\ f \in DOMAIN o /\ o[f] # NullToken /\ o[f].is = <<>>
         /\ T.fields[f].kind = "list"

LEMMA Written ==
  ASSUME NEW T, NEW m, NEW f \in DOMAIN T.fields, NEW o, NEW v,
         DOMAIN o = {g \in DOMAIN T.fields : ~Omitted(T.fields[g], m[g])},
         f \in DOMAIN o => o[f] = IF ~Empty(T.fields[f], m[f]) THEN Token(v)
                                 ELSE IF T.fields[f].kind = "nullable" THEN NullToken
                                 ELSE Token(<<>>)
  PROVE  WrittenAs(T, m, f, o, v)
<1> DEFINE field == T.fields[f]
<1>0. \A u : Token(u) # NullToken /\ Token(u).is = u
  BY DEF Token, NullToken
<1>1. f \in DOMAIN o <=> ~Omitted(field, m[f])
  OBVIOUS
<1>2. ASSUME f \in Required(T) PROVE f \in DOMAIN o
  BY <1>1, <1>2 DEF Required, Omitted
<1>3. ASSUME ~Empty(field, m[f])
      PROVE  f \in DOMAIN o /\ o[f] # NullToken /\ o[f].is = v
  <2>1. f \in DOMAIN o
    BY <1>1, <1>3 DEF Omitted, Empty
  <2> QED
    BY <1>0, <1>3, <2>1
<1>4. ASSUME Empty(field, m[f])
      PROVE  \/ /\ f \notin DOMAIN o
                /\ m[f] = None /\ field.kind \in {"optional", "optlist"}
             \/ /\ f \in DOMAIN o /\ o[f] = NullToken
                /\ m[f] = Null /\ field.kind = "nullable"
             \/ /\ f \in DOMAIN o /\ o[f] # NullToken /\ o[f].is = <<>>
                /\ field.kind = "list"
  <2>1. CASE Omitted(field, m[f])
    BY <1>1, <2>1 DEF Omitted
  <2>2. CASE ~Omitted(field, m[f]) /\ field.kind = "nullable"
    BY <1>0, <1>1, <1>4, <2>2 DEF Empty
  <2>3. CASE ~Omitted(field, m[f]) /\ field.kind # "nullable"
    BY <1>0, <1>1, <1>4, <2>3 DEF Empty, Omitted
  <2> QED
    BY <2>1, <2>2, <2>3
<1> QED
  BY <1>2, <1>3, <1>4 DEF WrittenAs

\* A message with none in it.
LEMMA RoundTrip1 ==
  ASSUME NEW T, NEW m, IsA1(T, m)
  PROVE  /\ Decodes1(T, Encode1(T, m))
         /\ Decode1(T, Encode1(T, m)) = Same1(T, m)
<1> DEFINE o == Encode1(T, m)
           In(f) == Inside(LAMBDA S, n : n, T.fields[f], m[f])
<1>1. ASSUME NEW f \in DOMAIN T.fields
      PROVE  WrittenAs(T, m, f, o, In(f))
  <2>1. DOMAIN o = {g \in DOMAIN T.fields : ~Omitted(T.fields[g], m[g])}
    BY DEF Encode1, Encodes
  <2>2. f \in DOMAIN o => o[f] = IF ~Empty(T.fields[f], m[f]) THEN Token(In(f))
                                ELSE IF T.fields[f].kind = "nullable" THEN NullToken
                                ELSE Token(<<>>)
    BY DEF Encode1, Encodes
  <2> HIDE DEF In, o
  <2> QED
    BY <2>1, <2>2, Written
<1>2. DOMAIN o \subseteq DOMAIN T.fields
  BY DEF Encode1, Encodes
<1>3. ASSUME NEW f \in DOMAIN T.fields, ~Empty(T.fields[f], m[f])
      PROVE  /\ InEach(LAMBDA S, p : TRUE, T.fields[f], In(f))
             /\ Inside(LAMBDA S, p : p, T.fields[f], In(f)) =
                  Inside(LAMBDA S, n : n, T.fields[f], m[f])
  BY DEF InEach, Inside
<1> HIDE DEF In, o
<1>4. ASSUME NEW f \in DOMAIN o, o[f] # NullToken
      PROVE  InEach(LAMBDA S, p : TRUE, T.fields[f], o[f].is)
  <2>1. CASE Empty(T.fields[f], m[f])
    <3>1. o[f].is = <<>> /\ IsList(T.fields[f])
      BY <1>1, <1>2, <1>4, <2>1 DEF IsList, WrittenAs
    <3> QED
      BY <3>1 DEF InEach
  <2> QED
    BY <1>1, <1>2, <1>3, <1>4, <2>1 DEF WrittenAs
<1>5. Decodes1(T, o)
  <2>1. Required(T) \subseteq DOMAIN o
    BY <1>1 DEF Required, WrittenAs
  <2>2. \A f \in DOMAIN o : o[f] = NullToken => T.fields[f].kind = "nullable"
    BY <1>1, <1>2 DEF WrittenAs
  <2> QED
    BY <1>4, <2>1, <2>2 DEF Decodes1, Readable
<1>6. ASSUME NEW f \in DOMAIN T.fields PROVE Decode1(T, o)[f] = Same1(T, m)[f]
  <2>1. Decode1(T, o)[f] = IF f \notin DOMAIN o THEN None
                        ELSE IF o[f] = NullToken THEN Null
                        ELSE Inside(LAMBDA S, p : p, T.fields[f], o[f].is)
    BY DEF Decode1, DecodesTo
  <2>2. Same1(T, m)[f] = IF ~Empty(T.fields[f], m[f])
                       THEN Inside(LAMBDA S, n : n, T.fields[f], m[f])
                       ELSE IF T.fields[f].kind = "list" THEN <<>> ELSE m[f]
    BY DEF Same1, Arrives
  <2>3. CASE ~Empty(T.fields[f], m[f])
    BY <1>1, <1>3, <2>1, <2>2, <2>3 DEF WrittenAs
  <2>4. CASE Empty(T.fields[f], m[f])
    <3>1. CASE f \in DOMAIN o /\ o[f] # NullToken
      <4>1. o[f].is = <<>> /\ T.fields[f].kind = "list"
        BY <1>1, <2>4, <3>1 DEF WrittenAs
      <4>2. Inside(LAMBDA S, p : p, T.fields[f], <<>>) = <<>>
        BY <4>1 DEF Inside, IsList
      <4> QED
        BY <2>1, <2>2, <2>4, <3>1, <4>1, <4>2
    <3>2. CASE f \notin DOMAIN o \/ o[f] = NullToken
      BY <1>1, <2>1, <2>2, <2>4, <3>2 DEF WrittenAs
    <3> QED
      BY <3>1, <3>2
  <2> QED
    BY <2>3, <2>4
<1>7. Decode1(T, o) = Same1(T, m)
  BY <1>6 DEF Decode1, DecodesTo, Same1, Arrives
<1> QED
  BY <1>5, <1>7 DEF o

\* A message of such messages.
LEMMA RoundTrip2 ==
  ASSUME NEW T, NEW m, IsA2(T, m)
  PROVE  /\ Decodes2(T, Encode2(T, m))
         /\ Decode2(T, Encode2(T, m)) = Same2(T, m)
<1> DEFINE o == Encode2(T, m)
           In(f) == Inside(Encode1, T.fields[f], m[f])
<1>1. ASSUME NEW f \in DOMAIN T.fields
      PROVE  WrittenAs(T, m, f, o, In(f))
  <2>1. DOMAIN o = {g \in DOMAIN T.fields : ~Omitted(T.fields[g], m[g])}
    BY DEF Encode2, Encodes
  <2>2. f \in DOMAIN o => o[f] = IF ~Empty(T.fields[f], m[f]) THEN Token(In(f))
                                ELSE IF T.fields[f].kind = "nullable" THEN NullToken
                                ELSE Token(<<>>)
    BY DEF Encode2, Encodes
  <2> HIDE DEF In, o
  <2> QED
    BY <2>1, <2>2, Written
<1>2. DOMAIN o \subseteq DOMAIN T.fields
  BY DEF Encode2, Encodes
<1>3. ASSUME NEW f \in DOMAIN T.fields, ~Empty(T.fields[f], m[f])
      PROVE  /\ InEach(Decodes1, T.fields[f], In(f))
             /\ Inside(Decode1, T.fields[f], In(f)) =
                  Inside(Same1, T.fields[f], m[f])
  <2> DEFINE S == T.fields[f].of
  <2>1. InEach(IsA1, T.fields[f], m[f])
    BY <1>3 DEF IsA2, IsA
  <2>2. CASE S = NoMessage
    BY <2>2 DEF InEach, Inside
  <2>3. CASE S # NoMessage /\ IsList(T.fields[f])
    <3>1. \A i \in DOMAIN m[f] :
            /\ Decodes1(S, Encode1(S, m[f][i]))
            /\ Decode1(S, Encode1(S, m[f][i])) = Same1(S, m[f][i])
      BY <2>1, <2>3, RoundTrip1 DEF InEach
    <3>2. In(f) = [i \in DOMAIN m[f] |-> Encode1(S, m[f][i])]
      BY <2>3 DEF Inside
    <3> HIDE DEF In
    <3>3. InEach(Decodes1, T.fields[f], In(f))
      BY <2>3, <3>1, <3>2 DEF InEach
    <3>4. Inside(Decode1, T.fields[f], In(f)) =
            [i \in DOMAIN m[f] |-> Same1(S, m[f][i])]
      BY <2>3, <3>1, <3>2 DEF Inside
    <3>5. Inside(Same1, T.fields[f], m[f]) =
            [i \in DOMAIN m[f] |-> Same1(S, m[f][i])]
      BY <2>3 DEF Inside
    <3> QED
      BY <3>3, <3>4, <3>5
  <2>4. CASE S # NoMessage /\ ~IsList(T.fields[f])
    <3>1. /\ Decodes1(S, Encode1(S, m[f]))
          /\ Decode1(S, Encode1(S, m[f])) = Same1(S, m[f])
      BY <2>1, <2>4, RoundTrip1 DEF InEach
    <3>2. In(f) = Encode1(S, m[f])
      BY <2>4 DEF Inside
    <3> HIDE DEF In
    <3> QED
      BY <2>4, <3>1, <3>2 DEF InEach, Inside
  <2> QED
    BY <2>2, <2>3, <2>4
<1> HIDE DEF In, o
<1>4. ASSUME NEW f \in DOMAIN o, o[f] # NullToken
      PROVE  InEach(Decodes1, T.fields[f], o[f].is)
  <2>1. CASE Empty(T.fields[f], m[f])
    <3>1. o[f].is = <<>> /\ IsList(T.fields[f])
      BY <1>1, <1>2, <1>4, <2>1 DEF IsList, WrittenAs
    <3> QED
      BY <3>1 DEF InEach
  <2> QED
    BY <1>1, <1>2, <1>3, <1>4, <2>1 DEF WrittenAs
<1>5. Decodes2(T, o)
  <2>1. Required(T) \subseteq DOMAIN o
    BY <1>1 DEF Required, WrittenAs
  <2>2. \A f \in DOMAIN o : o[f] = NullToken => T.fields[f].kind = "nullable"
    BY <1>1, <1>2 DEF WrittenAs
  <2> QED
    BY <1>4, <2>1, <2>2 DEF Decodes2, Readable
<1>6. ASSUME NEW f \in DOMAIN T.fields PROVE Decode2(T, o)[f] = Same2(T, m)[f]
  <2>1. Decode2(T, o)[f] = IF f \notin DOMAIN o THEN None
                        ELSE IF o[f] = NullToken THEN Null
                        ELSE Inside(Decode1, T.fields[f], o[f].is)
    BY DEF Decode2, DecodesTo
  <2>2. Same2(T, m)[f] = IF ~Empty(T.fields[f], m[f])
                       THEN Inside(Same1, T.fields[f], m[f])
                       ELSE IF T.fields[f].kind = "list" THEN <<>> ELSE m[f]
    BY DEF Same2, Arrives
  <2>3. CASE ~Empty(T.fields[f], m[f])
    BY <1>1, <1>3, <2>1, <2>2, <2>3 DEF WrittenAs
  <2>4. CASE Empty(T.fields[f], m[f])
    <3>1. CASE f \in DOMAIN o /\ o[f] # NullToken
      <4>1. o[f].is = <<>> /\ T.fields[f].kind = "list"
        BY <1>1, <2>4, <3>1 DEF WrittenAs
      <4>2. Inside(Decode1, T.fields[f], <<>>) = <<>>
        BY <4>1 DEF Inside, IsList
      <4> QED
        BY <2>1, <2>2, <2>4, <3>1, <4>1, <4>2
    <3>2. CASE f \notin DOMAIN o \/ o[f] = NullToken
      BY <1>1, <2>1, <2>2, <2>4, <3>2 DEF WrittenAs
    <3> QED
      BY <3>1, <3>2
  <2> QED
    BY <2>3, <2>4
<1>7. Decode2(T, o) = Same2(T, m)
  BY <1>6 DEF Decode2, DecodesTo, Same2, Arrives
<1> QED
  BY <1>5, <1>7 DEF o

\* And so on, up to any.
LEMMA RoundTrip3 ==
  ASSUME NEW T, NEW m, IsA3(T, m)
  PROVE  /\ Decodes3(T, Encode3(T, m))
         /\ Decode3(T, Encode3(T, m)) = Same3(T, m)
<1> DEFINE o == Encode3(T, m)
           In(f) == Inside(Encode2, T.fields[f], m[f])
<1>1. ASSUME NEW f \in DOMAIN T.fields
      PROVE  WrittenAs(T, m, f, o, In(f))
  <2>1. DOMAIN o = {g \in DOMAIN T.fields : ~Omitted(T.fields[g], m[g])}
    BY DEF Encode3, Encodes
  <2>2. f \in DOMAIN o => o[f] = IF ~Empty(T.fields[f], m[f]) THEN Token(In(f))
                                ELSE IF T.fields[f].kind = "nullable" THEN NullToken
                                ELSE Token(<<>>)
    BY DEF Encode3, Encodes
  <2> HIDE DEF In, o
  <2> QED
    BY <2>1, <2>2, Written
<1>2. DOMAIN o \subseteq DOMAIN T.fields
  BY DEF Encode3, Encodes
<1>3. ASSUME NEW f \in DOMAIN T.fields, ~Empty(T.fields[f], m[f])
      PROVE  /\ InEach(Decodes2, T.fields[f], In(f))
             /\ Inside(Decode2, T.fields[f], In(f)) =
                  Inside(Same2, T.fields[f], m[f])
  <2> DEFINE S == T.fields[f].of
  <2>1. InEach(IsA2, T.fields[f], m[f])
    BY <1>3 DEF IsA3, IsA
  <2>2. CASE S = NoMessage
    BY <2>2 DEF InEach, Inside
  <2>3. CASE S # NoMessage /\ IsList(T.fields[f])
    <3>1. \A i \in DOMAIN m[f] :
            /\ Decodes2(S, Encode2(S, m[f][i]))
            /\ Decode2(S, Encode2(S, m[f][i])) = Same2(S, m[f][i])
      BY <2>1, <2>3, RoundTrip2 DEF InEach
    <3>2. In(f) = [i \in DOMAIN m[f] |-> Encode2(S, m[f][i])]
      BY <2>3 DEF Inside
    <3> HIDE DEF In
    <3>3. InEach(Decodes2, T.fields[f], In(f))
      BY <2>3, <3>1, <3>2 DEF InEach
    <3>4. Inside(Decode2, T.fields[f], In(f)) =
            [i \in DOMAIN m[f] |-> Same2(S, m[f][i])]
      BY <2>3, <3>1, <3>2 DEF Inside
    <3>5. Inside(Same2, T.fields[f], m[f]) =
            [i \in DOMAIN m[f] |-> Same2(S, m[f][i])]
      BY <2>3 DEF Inside
    <3> QED
      BY <3>3, <3>4, <3>5
  <2>4. CASE S # NoMessage /\ ~IsList(T.fields[f])
    <3>1. /\ Decodes2(S, Encode2(S, m[f]))
          /\ Decode2(S, Encode2(S, m[f])) = Same2(S, m[f])
      BY <2>1, <2>4, RoundTrip2 DEF InEach
    <3>2. In(f) = Encode2(S, m[f])
      BY <2>4 DEF Inside
    <3> HIDE DEF In
    <3> QED
      BY <2>4, <3>1, <3>2 DEF InEach, Inside
  <2> QED
    BY <2>2, <2>3, <2>4
<1> HIDE DEF In, o
<1>4. ASSUME NEW f \in DOMAIN o, o[f] # NullToken
      PROVE  InEach(Decodes2, T.fields[f], o[f].is)
  <2>1. CASE Empty(T.fields[f], m[f])
    <3>1. o[f].is = <<>> /\ IsList(T.fields[f])
      BY <1>1, <1>2, <1>4, <2>1 DEF IsList, WrittenAs
    <3> QED
      BY <3>1 DEF InEach
  <2> QED
    BY <1>1, <1>2, <1>3, <1>4, <2>1 DEF WrittenAs
<1>5. Decodes3(T, o)
  <2>1. Required(T) \subseteq DOMAIN o
    BY <1>1 DEF Required, WrittenAs
  <2>2. \A f \in DOMAIN o : o[f] = NullToken => T.fields[f].kind = "nullable"
    BY <1>1, <1>2 DEF WrittenAs
  <2> QED
    BY <1>4, <2>1, <2>2 DEF Decodes3, Readable
<1>6. ASSUME NEW f \in DOMAIN T.fields PROVE Decode3(T, o)[f] = Same3(T, m)[f]
  <2>1. Decode3(T, o)[f] = IF f \notin DOMAIN o THEN None
                        ELSE IF o[f] = NullToken THEN Null
                        ELSE Inside(Decode2, T.fields[f], o[f].is)
    BY DEF Decode3, DecodesTo
  <2>2. Same3(T, m)[f] = IF ~Empty(T.fields[f], m[f])
                       THEN Inside(Same2, T.fields[f], m[f])
                       ELSE IF T.fields[f].kind = "list" THEN <<>> ELSE m[f]
    BY DEF Same3, Arrives
  <2>3. CASE ~Empty(T.fields[f], m[f])
    BY <1>1, <1>3, <2>1, <2>2, <2>3 DEF WrittenAs
  <2>4. CASE Empty(T.fields[f], m[f])
    <3>1. CASE f \in DOMAIN o /\ o[f] # NullToken
      <4>1. o[f].is = <<>> /\ T.fields[f].kind = "list"
        BY <1>1, <2>4, <3>1 DEF WrittenAs
      <4>2. Inside(Decode2, T.fields[f], <<>>) = <<>>
        BY <4>1 DEF Inside, IsList
      <4> QED
        BY <2>1, <2>2, <2>4, <3>1, <4>1, <4>2
    <3>2. CASE f \notin DOMAIN o \/ o[f] = NullToken
      BY <1>1, <2>1, <2>2, <2>4, <3>2 DEF WrittenAs
    <3> QED
      BY <3>1, <3>2
  <2> QED
    BY <2>3, <2>4
<1>7. Decode3(T, o) = Same3(T, m)
  BY <1>6 DEF Decode3, DecodesTo, Same3, Arrives
<1> QED
  BY <1>5, <1>7 DEF o

\* What a message was encoded as can be decoded, and decodes to the message as the
\* other side holds it: the same, but for nil lists, which arrive as empty ones.
THEOREM RoundTrip ==
  ASSUME NEW T, NEW m, IsMessage(T, m)
  PROVE  /\ Decodes(T, Encode(T, m))
         /\ Decode(T, Encode(T, m)) = Same(T, m)
<1> DEFINE o == Encode(T, m)
           In(f) == Inside(Encode3, T.fields[f], m[f])
<1>1. ASSUME NEW f \in DOMAIN T.fields
      PROVE  WrittenAs(T, m, f, o, In(f))
  <2>1. DOMAIN o = {g \in DOMAIN T.fields : ~Omitted(T.fields[g], m[g])}
    BY DEF Encode, Encodes
  <2>2. f \in DOMAIN o => o[f] = IF ~Empty(T.fields[f], m[f]) THEN Token(In(f))
                                ELSE IF T.fields[f].kind = "nullable" THEN NullToken
                                ELSE Token(<<>>)
    BY DEF Encode, Encodes
  <2> HIDE DEF In, o
  <2> QED
    BY <2>1, <2>2, Written
<1>2. DOMAIN o \subseteq DOMAIN T.fields
  BY DEF Encode, Encodes
<1>3. ASSUME NEW f \in DOMAIN T.fields, ~Empty(T.fields[f], m[f])
      PROVE  /\ InEach(Decodes3, T.fields[f], In(f))
             /\ Inside(Decode3, T.fields[f], In(f)) =
                  Inside(Same3, T.fields[f], m[f])
  <2> DEFINE S == T.fields[f].of
  <2>1. InEach(IsA3, T.fields[f], m[f])
    BY <1>3 DEF IsMessage, IsA
  <2>2. CASE S = NoMessage
    BY <2>2 DEF InEach, Inside
  <2>3. CASE S # NoMessage /\ IsList(T.fields[f])
    <3>1. \A i \in DOMAIN m[f] :
            /\ Decodes3(S, Encode3(S, m[f][i]))
            /\ Decode3(S, Encode3(S, m[f][i])) = Same3(S, m[f][i])
      BY <2>1, <2>3, RoundTrip3 DEF InEach
    <3>2. In(f) = [i \in DOMAIN m[f] |-> Encode3(S, m[f][i])]
      BY <2>3 DEF Inside
    <3> HIDE DEF In
    <3>3. InEach(Decodes3, T.fields[f], In(f))
      BY <2>3, <3>1, <3>2 DEF InEach
    <3>4. Inside(Decode3, T.fields[f], In(f)) =
            [i \in DOMAIN m[f] |-> Same3(S, m[f][i])]
      BY <2>3, <3>1, <3>2 DEF Inside
    <3>5. Inside(Same3, T.fields[f], m[f]) =
            [i \in DOMAIN m[f] |-> Same3(S, m[f][i])]
      BY <2>3 DEF Inside
    <3> QED
      BY <3>3, <3>4, <3>5
  <2>4. CASE S # NoMessage /\ ~IsList(T.fields[f])
    <3>1. /\ Decodes3(S, Encode3(S, m[f]))
          /\ Decode3(S, Encode3(S, m[f])) = Same3(S, m[f])
      BY <2>1, <2>4, RoundTrip3 DEF InEach
    <3>2. In(f) = Encode3(S, m[f])
      BY <2>4 DEF Inside
    <3> HIDE DEF In
    <3> QED
      BY <2>4, <3>1, <3>2 DEF InEach, Inside
  <2> QED
    BY <2>2, <2>3, <2>4
<1> HIDE DEF In, o
<1>4. ASSUME NEW f \in DOMAIN o, o[f] # NullToken
      PROVE  InEach(Decodes3, T.fields[f], o[f].is)
  <2>1. CASE Empty(T.fields[f], m[f])
    <3>1. o[f].is = <<>> /\ IsList(T.fields[f])
      BY <1>1, <1>2, <1>4, <2>1 DEF IsList, WrittenAs
    <3> QED
      BY <3>1 DEF InEach
  <2> QED
    BY <1>1, <1>2, <1>3, <1>4, <2>1 DEF WrittenAs
<1>5. Decodes(T, o)
  <2>1. Required(T) \subseteq DOMAIN o
    BY <1>1 DEF Required, WrittenAs
  <2>2. \A f \in DOMAIN o : o[f] = NullToken => T.fields[f].kind = "nullable"
    BY <1>1, <1>2 DEF WrittenAs
  <2> QED
    BY <1>4, <2>1, <2>2 DEF Decodes, Readable
<1>6. ASSUME NEW f \in DOMAIN T.fields PROVE Decode(T, o)[f] = Same(T, m)[f]
  <2>1. Decode(T, o)[f] = IF f \notin DOMAIN o THEN None
                        ELSE IF o[f] = NullToken THEN Null
                        ELSE Inside(Decode3, T.fields[f], o[f].is)
    BY DEF Decode, DecodesTo
  <2>2. Same(T, m)[f] = IF ~Empty(T.fields[f], m[f])
                       THEN Inside(Same3, T.fields[f], m[f])
                       ELSE IF T.fields[f].kind = "list" THEN <<>> ELSE m[f]
    BY DEF Same, Arrives
  <2>3. CASE ~Empty(T.fields[f], m[f])
    BY <1>1, <1>3, <2>1, <2>2, <2>3 DEF WrittenAs
  <2>4. CASE Empty(T.fields[f], m[f])
    <3>1. CASE f \in DOMAIN o /\ o[f] # NullToken
      <4>1. o[f].is = <<>> /\ T.fields[f].kind = "list"
        BY <1>1, <2>4, <3>1 DEF WrittenAs
      <4>2. Inside(Decode3, T.fields[f], <<>>) = <<>>
        BY <4>1 DEF Inside, IsList
      <4> QED
        BY <2>1, <2>2, <2>4, <3>1, <4>1, <4>2
    <3>2. CASE f \notin DOMAIN o \/ o[f] = NullToken
      BY <1>1, <2>1, <2>2, <2>4, <3>2 DEF WrittenAs
    <3> QED
      BY <3>1, <3>2
  <2> QED
    BY <2>3, <2>4
<1>7. Decode(T, o) = Same(T, m)
  BY <1>6 DEF Decode, DecodesTo, Same, Arrives
<1> QED
  BY <1>5, <1>7 DEF o

-----------------------------------------------------------------------------
(***************************************************************************)
(* The router.                                                             *)
(***************************************************************************)

\* Walk is the function its equation describes: if there were none for some
\* number of segments there would be a least such number, and none there.
LEMMA WalkExists ==
  ASSUME NEW path, Len(path) \in Nat
  PROVE  Walk(path) = [i \in 0..Len(path) |->
            IF i = 0 THEN [node |-> Routes, args |-> <<>>]
            ELSE Follow(Walk(path)[i - 1], path[i])]
<1> DEFINE Start == [node |-> Routes, args |-> <<>>]
           IsWalk(g, n) == g = [i \in 0..n |-> IF i = 0 THEN Start
                                              ELSE Follow(g[i - 1], path[i])]
           Short == {n \in Nat : ~\E g : IsWalk(g, n)}
<1>1. Short = {}
  <2> SUFFICES ASSUME Short # {} PROVE FALSE
    OBVIOUS
  <2> DEFINE Less == OpToRel(<, Nat)
  <2>1. IsWellFoundedOn(Less, Nat)
    BY NatLessThanWellFounded
  <2>2. PICK n \in Short : \A k \in Short : <<k, n>> \notin Less
    <3>1. Short \subseteq Nat
      OBVIOUS
    <3> HIDE DEF Less, Short
    <3> QED
      BY <2>1, <3>1, WFMin
  <2>3. n # 0
    <3>1. IsWalk([i \in 0..0 |-> Start], 0)
      OBVIOUS
    <3> QED
      BY <2>2, <3>1
  <2>4. n - 1 \in Nat /\ n - 1 \notin Short
    <3>1. \A k \in Short : ~(k < n)
      BY <2>2 DEF OpToRel
    <3>2. n \in Nat
      OBVIOUS
    <3>3. n - 1 \in Nat /\ n - 1 < n
      BY <2>3, <3>2
    <3> HIDE DEF Short
    <3> QED
      BY <3>1, <3>3
  <2>5. PICK g : IsWalk(g, n - 1)
    BY <2>4
  <2> DEFINE h == [i \in 0..n |-> IF i = n THEN Follow(g[n - 1], path[n]) ELSE g[i]]
  <2>6. ASSUME NEW i \in 0..n
        PROVE  h[i] = IF i = 0 THEN Start ELSE Follow(h[i - 1], path[i])
    <3>1. CASE i = 0
      BY <2>3, <2>4, <2>5, <3>1
    <3>2. CASE i = n
      BY <2>3, <2>4, <3>2
    <3>3. CASE i # 0 /\ i # n
      BY <2>4, <2>5, <3>3
    <3> QED
      BY <3>1, <3>2, <3>3
  <2>7. IsWalk(h, n)
    BY <2>6
  <2> QED
    BY <2>2, <2>7
<1>2. \E g : IsWalk(g, Len(path))
  BY <1>1
<1>3. Walk(path) = CHOOSE g : IsWalk(g, Len(path))
  BY DEF Walk
<1> QED
  BY <1>2, <1>3

\* A word is followed to the node it leads to, a parameter takes the segment.
LEMMA FollowsWord ==
  ASSUME NEW path, Len(path) \in Nat, NEW i \in 1..Len(path),
         NEW node, NEW args, NEW w \in DOMAIN node.words,
         Walk(path)[i - 1] = [node |-> node, args |-> args],
         node.param = <<>>, path[i] = [word |-> w]
  PROVE  Walk(path)[i] = [node |-> node.words[w], args |-> args]
<1> DEFINE at == Walk(path)[i - 1]
<1>1. Walk(path)[i] = Follow(at, path[i])
  BY WalkExists
<1>2. at.node = node /\ at.args = args
  OBVIOUS
<1>3. path[i].word = w
  OBVIOUS
<1>4. \E v \in DOMAIN at.node.words : path[i] = [word |-> v]
  BY <1>2
<1> HIDE DEF at
<1> QED
  BY <1>1, <1>2, <1>3, <1>4 DEF Follow

LEMMA FollowsParam ==
  ASSUME NEW path, Len(path) \in Nat, NEW i \in 1..Len(path),
         NEW node, NEW args, NEW next,
         Walk(path)[i - 1] = [node |-> node, args |-> args],
         node.param = <<next>>
  PROVE  Walk(path)[i] = [node |-> next, args |-> Append(args, path[i])]
<1> DEFINE at == Walk(path)[i - 1]
<1>1. Walk(path)[i] = Follow(at, path[i])
  BY WalkExists
<1>2. at.node = node /\ at.args = args
  OBVIOUS
<1>3. node.param # <<>> /\ node.param[1] = next
  OBVIOUS
<1> HIDE DEF at
<1> QED
  BY <1>1, <1>2, <1>3 DEF Follow

\* The path of a request has a segment for each part of the operation's.
LEMMA PathSent ==
  ASSUME NEW S, NEW parts \in Seq(S), NEW args
  PROVE  LET path == [i \in DOMAIN parts |-> Segment(parts[i], args)]
         IN  /\ Len(path) = Len(parts) /\ Len(parts) \in Nat
             /\ \A i \in 1..Len(parts) : path[i] = Segment(parts[i], args)
<1> DEFINE path == [i \in DOMAIN parts |-> Segment(parts[i], args)]
<1>1. DOMAIN parts = 1..Len(parts) /\ Len(parts) \in Nat
  BY LenProperties
<1>2. path \in Seq({Segment(parts[i], args) : i \in DOMAIN parts})
  BY <1>1
<1>3. Len(path) = Len(parts)
  BY <1>1, <1>2, LenProperties
<1> QED
  BY <1>1, <1>3

\* A sequence that goes on from another by one element is what Append makes.
LEMMA IsAppend ==
  ASSUME NEW S, NEW s \in Seq(S), NEW x \in S, NEW t \in Seq(S),
         Len(t) = Len(s) + 1, t[Len(s) + 1] = x,
         \A i \in 1..Len(s) : t[i] = s[i]
  PROVE  Append(s, x) = t
<1> DEFINE u == Append(s, x)
<1>1. /\ u \in Seq(S) /\ Len(u) = Len(s) + 1 /\ Len(s) \in Nat
      /\ u[Len(s) + 1] = x /\ \A i \in 1..Len(s) : u[i] = s[i]
  BY AppendProperties, LenProperties
<1> HIDE DEF u
<1>2. \A i \in 1..Len(u) : u[i] = t[i]
  BY <1>1
<1>3. u = t
  BY <1>1, <1>2, SeqEqual
<1> QED
  BY <1>3 DEF u

LEMMA AppendOne ==
  ASSUME NEW a, NEW b
  PROVE  Append(<<a>>, b) = <<a, b>>
<1> DEFINE S == {a, b}
           s == <<a>>
           t == <<a, b>>
<1>1. /\ s \in Seq(S) /\ t \in Seq(S) /\ b \in S
      /\ Len(s) = 1 /\ Len(t) = 2 /\ t[2] = b
  OBVIOUS
<1>2. \A i \in 1..1 : t[i] = s[i]
  <2>1. \A i \in 1..1 : i = 1
    OBVIOUS
  <2>2. t[1] = s[1]
    OBVIOUS
  <2> HIDE DEF s, t
  <2> QED
    BY <2>1, <2>2
<1> HIDE DEF S, s, t
<1>3. s \in Seq(S)
  BY <1>1
<1>4. t \in Seq(S)
  BY <1>1
<1>5. b \in S
  BY <1>1
<1>6. Len(t) = Len(s) + 1
  BY <1>1
<1>7. t[Len(s) + 1] = b
  BY <1>1
<1>8. \A i \in 1..Len(s) : t[i] = s[i]
  BY <1>1, <1>2
<1>9. Append(s, b) = t
  BY <1>3, <1>4, <1>5, <1>6, <1>7, <1>8, IsAppend, Zenon
<1> QED
  BY <1>9 DEF s, t

LEMMA AppendTwo ==
  ASSUME NEW a, NEW b, NEW c
  PROVE  Append(<<a, b>>, c) = <<a, b, c>>
<1> DEFINE S == {a, b, c}
           s == <<a, b>>
           t == <<a, b, c>>
<1>1. /\ s \in Seq(S) /\ t \in Seq(S) /\ c \in S
      /\ Len(s) = 2 /\ Len(t) = 3 /\ t[3] = c
  OBVIOUS
<1>2. \A i \in 1..2 : t[i] = s[i]
  <2>1. \A i \in 1..2 : i = 1 \/ i = 2
    OBVIOUS
  <2>2. t[1] = s[1] /\ t[2] = s[2]
    OBVIOUS
  <2> HIDE DEF s, t
  <2> QED
    BY <2>1, <2>2
<1> HIDE DEF S, s, t
<1>3. s \in Seq(S)
  BY <1>1
<1>4. t \in Seq(S)
  BY <1>1
<1>5. c \in S
  BY <1>1
<1>6. Len(t) = Len(s) + 1
  BY <1>1
<1>7. t[Len(s) + 1] = c
  BY <1>1
<1>8. \A i \in 1..Len(s) : t[i] = s[i]
  BY <1>1, <1>2
<1>9. Append(s, c) = t
  BY <1>3, <1>4, <1>5, <1>6, <1>7, <1>8, IsAppend, Zenon
<1> QED
  BY <1>9 DEF s, t

LEMMA AppendThree ==
  ASSUME NEW a, NEW b, NEW c, NEW d
  PROVE  Append(<<a, b, c>>, d) = <<a, b, c, d>>
<1> DEFINE S == {a, b, c, d}
           s == <<a, b, c>>
           t == <<a, b, c, d>>
<1>1. /\ s \in Seq(S) /\ t \in Seq(S) /\ d \in S
      /\ Len(s) = 3 /\ Len(t) = 4 /\ t[4] = d
  OBVIOUS
<1>2. \A i \in 1..3 : t[i] = s[i]
  <2>1. \A i \in 1..3 : i = 1 \/ i = 2 \/ i = 3
    OBVIOUS
  <2>2. t[1] = s[1] /\ t[2] = s[2] /\ t[3] = s[3]
    OBVIOUS
  <2> HIDE DEF s, t
  <2> QED
    BY <2>1, <2>2
<1> HIDE DEF S, s, t
<1>3. s \in Seq(S)
  BY <1>1
<1>4. t \in Seq(S)
  BY <1>1
<1>5. d \in S
  BY <1>1
<1>6. Len(t) = Len(s) + 1
  BY <1>1
<1>7. t[Len(s) + 1] = d
  BY <1>1
<1>8. \A i \in 1..Len(s) : t[i] = s[i]
  BY <1>1, <1>2
<1>9. Append(s, d) = t
  BY <1>3, <1>4, <1>5, <1>6, <1>7, <1>8, IsAppend, Zenon
<1> QED
  BY <1>9 DEF s, t

-----------------------------------------------------------------------------
(***************************************************************************)
(* The way down the router: which node a path of segments leads to.        *)
(***************************************************************************)

\* The nodes of the router by the paths that lead to them.
ToClusters(path) == Len(path) \in Nat /\ Len(path) >= 1
    /\ path[1] = [word |-> "clusters"]
ToCluster(path) == ToClusters(path) /\ Len(path) >= 2
ToGroups(path) == ToCluster(path) /\ Len(path) >= 3
    /\ path[3] = [word |-> "asg"]
ToGroup(path) == ToGroups(path) /\ Len(path) >= 4
ToWorkerNodes(path) == ToGroup(path) /\ Len(path) >= 5
    /\ path[5] = [word |-> "worker_nodes"]
ToWorkerNode(path) == ToWorkerNodes(path) /\ Len(path) >= 6
ToDraining(path) == ToWorkerNode(path) /\ Len(path) >= 7
    /\ path[7] = [word |-> "draining"]
ToLoadBalancers(path) == ToGroup(path) /\ Len(path) >= 5
    /\ path[5] = [word |-> "load_balancers"]
ToLoadBalancer(path) == ToLoadBalancers(path) /\ Len(path) >= 6
ToLoadBalancerNodes(path) == ToLoadBalancer(path) /\ Len(path) >= 7
    /\ path[7] = [word |-> "load_balancer_nodes"]
ToLoadBalancerNode(path) == ToLoadBalancerNodes(path) /\ Len(path) >= 8
ToCertificates(path) == ToCluster(path) /\ Len(path) >= 3
    /\ path[3] = [word |-> "certificates"]
ToCertificate(path) == ToCertificates(path) /\ Len(path) >= 4
ToApplications(path) == Len(path) \in Nat /\ Len(path) >= 1
    /\ path[1] = [word |-> "applications"]
ToApplication(path) == ToApplications(path) /\ Len(path) >= 2
ToContainers(path) == ToApplication(path) /\ Len(path) >= 3
    /\ path[3] = [word |-> "containers"]
ToVersions(path) == ToApplication(path) /\ Len(path) >= 3
    /\ path[3] = [word |-> "versions"]
ToVersion(path) == ToVersions(path) /\ Len(path) >= 4
ToServiceClasses(path) == Len(path) \in Nat /\ Len(path) >= 1
    /\ path[1] = [word |-> "service_classes"]
ToLbClasses(path) == ToServiceClasses(path) /\ Len(path) >= 2
    /\ path[2] = [word |-> "lb"]
ToWorkerClasses(path) == ToServiceClasses(path) /\ Len(path) >= 2
    /\ path[2] = [word |-> "worker"]

LEMMA AtClusters ==
  ASSUME NEW path, ToClusters(path)
  PROVE  Walk(path)[1] = [node |-> ClusterRoutes, args |-> <<>>]
<1> DEFINE from == Routes
           next == ClusterRoutes
           args == <<>>
<1>1. Walk(path)[1 - 1] = [node |-> from, args |-> args]
  BY WalkExists DEF ToClusters
<1>2. Len(path) \in Nat /\ 1 \in 1..Len(path) /\ path[1] = [word |-> "clusters"]
  BY DEF ToClusters
<1>3. from.param = <<>> /\ "clusters" \in DOMAIN from.words /\ from.words.clusters = next
  BY DEF Routes, Branch
<1> HIDE DEF from, next, args
<1>4. Walk(path)[1] = [node |-> next, args |-> args]
  BY <1>1, <1>2, <1>3, FollowsWord
<1> QED
  BY <1>4 DEF next, args

LEMMA AtCluster ==
  ASSUME NEW path, ToCluster(path)
  PROVE  Walk(path)[2] = [node |-> ClusterRoutes.param[1], args |-> <<path[2]>>]
<1> DEFINE from == ClusterRoutes
           next == ClusterRoutes.param[1]
           args == <<>>
<1>1. Walk(path)[2 - 1] = [node |-> from, args |-> args]
  BY AtClusters DEF ToCluster
<1>2. Len(path) \in Nat /\ 2 \in 1..Len(path)
  BY DEF ToCluster, ToClusters
<1>3. from.param = <<next>>
  BY DEF ClusterRoutes, Branch, ThenParam
<1>4. Append(args, path[2]) = <<path[2]>>
  OBVIOUS
<1> HIDE DEF from, next, args
<1>5. Walk(path)[2] = [node |-> next, args |-> Append(args, path[2])]
  BY <1>1, <1>2, <1>3, FollowsParam
<1> QED
  BY <1>4, <1>5 DEF next

LEMMA AtGroups ==
  ASSUME NEW path, ToGroups(path)
  PROVE  Walk(path)[3] = [node |-> AutoScalingGroupRoutes, args |-> <<path[2]>>]
<1> DEFINE from == ClusterRoutes.param[1]
           next == AutoScalingGroupRoutes
           args == <<path[2]>>
<1>1. Walk(path)[3 - 1] = [node |-> from, args |-> args]
  BY AtCluster DEF ToGroups
<1>2. Len(path) \in Nat /\ 3 \in 1..Len(path) /\ path[3] = [word |-> "asg"]
  BY DEF ToGroups, ToCluster, ToClusters
<1>3. from.param = <<>> /\ "asg" \in DOMAIN from.words /\ from.words.asg = next
  BY DEF ClusterRoutes, Branch, ThenParam
<1> HIDE DEF from, next, args
<1>4. Walk(path)[3] = [node |-> next, args |-> args]
  BY <1>1, <1>2, <1>3, FollowsWord
<1> QED
  BY <1>4 DEF next, args

LEMMA AtGroup ==
  ASSUME NEW path, ToGroup(path)
  PROVE  Walk(path)[4] = [node |-> AutoScalingGroupRoutes.param[1], args |-> <<path[2], path[4]>>]
<1> DEFINE from == AutoScalingGroupRoutes
           next == AutoScalingGroupRoutes.param[1]
           args == <<path[2]>>
<1>1. Walk(path)[4 - 1] = [node |-> from, args |-> args]
  BY AtGroups DEF ToGroup
<1>2. Len(path) \in Nat /\ 4 \in 1..Len(path)
  BY DEF ToGroup, ToGroups, ToCluster, ToClusters
<1>3. from.param = <<next>>
  BY DEF AutoScalingGroupRoutes, Branch, ThenParam
<1>4. Append(args, path[4]) = <<path[2], path[4]>>
  BY AppendOne
<1> HIDE DEF from, next, args
<1>5. Walk(path)[4] = [node |-> next, args |-> Append(args, path[4])]
  BY <1>1, <1>2, <1>3, FollowsParam
<1> QED
  BY <1>4, <1>5 DEF next

LEMMA AtWorkerNodes ==
  ASSUME NEW path, ToWorkerNodes(path)
  PROVE  Walk(path)[5] = [node |-> WorkerNodeRoutes, args |-> <<path[2], path[4]>>]
<1> DEFINE from == AutoScalingGroupRoutes.param[1]
           next == WorkerNodeRoutes
           args == <<path[2], path[4]>>
<1>1. Walk(path)[5 - 1] = [node |-> from, args |-> args]
  BY AtGroup DEF ToWorkerNodes
<1>2. Len(path) \in Nat /\ 5 \in 1..Len(path) /\ path[5] = [word |-> "worker_nodes"]
  BY DEF ToWorkerNodes, ToGroup, ToGroups, ToCluster, ToClusters
<1>3. from.param = <<>> /\ "worker_nodes" \in DOMAIN from.words /\ from.words.worker_nodes = next
  BY DEF AutoScalingGroupRoutes, Branch, ThenParam
<1> HIDE DEF from, next, args
<1>4. Walk(path)[5] = [node |-> next, args |-> args]
  BY <1>1, <1>2, <1>3, FollowsWord
<1> QED
  BY <1>4 DEF next, args

LEMMA AtWorkerNode ==
  ASSUME NEW path, ToWorkerNode(path)
  PROVE  Walk(path)[6] = [node |-> WorkerNodeRoutes.param[1], args |-> <<path[2], path[4], path[6]>>]
<1> DEFINE from == WorkerNodeRoutes
           next == WorkerNodeRoutes.param[1]
           args == <<path[2], path[4]>>
<1>1. Walk(path)[6 - 1] = [node |-> from, args |-> args]
  BY AtWorkerNodes DEF ToWorkerNode
<1>2. Len(path) \in Nat /\ 6 \in 1..Len(path)
  BY DEF ToWorkerNode, ToWorkerNodes, ToGroup, ToGroups, ToCluster, ToClusters
<1>3. from.param = <<next>>
  BY DEF WorkerNodeRoutes, Branch, ThenParam
<1>4. Append(args, path[6]) = <<path[2], path[4], path[6]>>
  BY AppendTwo
<1> HIDE DEF from, next, args
<1>5. Walk(path)[6] = [node |-> next, args |-> Append(args, path[6])]
  BY <1>1, <1>2, <1>3, FollowsParam
<1> QED
  BY <1>4, <1>5 DEF next

LEMMA AtDraining ==
  ASSUME NEW path, ToDraining(path)
  PROVE  Walk(path)[7] = [node |-> WorkerNodeRoutes.param[1].words.draining, args |-> <<path[2], path[4], path[6]>>]
<1> DEFINE from == WorkerNodeRoutes.param[1]
           next == WorkerNodeRoutes.param[1].words.draining
           args == <<path[2], path[4], path[6]>>
<1>1. Walk(path)[7 - 1] = [node |-> from, args |-> args]
  BY AtWorkerNode DEF ToDraining
<1>2. Len(path) \in Nat /\ 7 \in 1..Len(path) /\ path[7] = [word |-> "draining"]
  BY DEF ToDraining, ToWorkerNode, ToWorkerNodes, ToGroup, ToGroups, ToCluster, ToClusters
<1>3. from.param = <<>> /\ "draining" \in DOMAIN from.words /\ from.words.draining = next
  BY DEF WorkerNodeRoutes, Branch, ThenParam
<1> HIDE DEF from, next, args
<1>4. Walk(path)[7] = [node |-> next, args |-> args]
  BY <1>1, <1>2, <1>3, FollowsWord
<1> QED
  BY <1>4 DEF next, args

LEMMA AtLoadBalancers ==
  ASSUME NEW path, ToLoadBalancers(path)
  PROVE  Walk(path)[5] = [node |-> LoadBalancerRoutes, args |-> <<path[2], path[4]>>]
<1> DEFINE from == AutoScalingGroupRoutes.param[1]
           next == LoadBalancerRoutes
           args == <<path[2], path[4]>>
<1>1. Walk(path)[5 - 1] = [node |-> from, args |-> args]
  BY AtGroup DEF ToLoadBalancers
<1>2. Len(path) \in Nat /\ 5 \in 1..Len(path) /\ path[5] = [word |-> "load_balancers"]
  BY DEF ToLoadBalancers, ToGroup, ToGroups, ToCluster, ToClusters
<1>3. from.param = <<>> /\ "load_balancers" \in DOMAIN from.words /\ from.words.load_balancers = next
  BY DEF AutoScalingGroupRoutes, Branch, ThenParam
<1> HIDE DEF from, next, args
<1>4. Walk(path)[5] = [node |-> next, args |-> args]
  BY <1>1, <1>2, <1>3, FollowsWord
<1> QED
  BY <1>4 DEF next, args

LEMMA AtLoadBalancer ==
  ASSUME NEW path, ToLoadBalancer(path)
  PROVE  Walk(path)[6] = [node |-> LoadBalancerRoutes.param[1], args |-> <<path[2], path[4], path[6]>>]
<1> DEFINE from == LoadBalancerRoutes
           next == LoadBalancerRoutes.param[1]
           args == <<path[2], path[4]>>
<1>1. Walk(path)[6 - 1] = [node |-> from, args |-> args]
  BY AtLoadBalancers DEF ToLoadBalancer
<1>2. Len(path) \in Nat /\ 6 \in 1..Len(path)
  BY DEF ToLoadBalancer, ToLoadBalancers, ToGroup, ToGroups, ToCluster, ToClusters
<1>3. from.param = <<next>>
  BY DEF LoadBalancerRoutes, Branch, ThenParam
<1>4. Append(args, path[6]) = <<path[2], path[4], path[6]>>
  BY AppendTwo
<1> HIDE DEF from, next, args
<1>5. Walk(path)[6] = [node |-> next, args |-> Append(args, path[6])]
  BY <1>1, <1>2, <1>3, FollowsParam
<1> QED
  BY <1>4, <1>5 DEF next

LEMMA AtLoadBalancerNodes ==
  ASSUME NEW path, ToLoadBalancerNodes(path)
  PROVE  Walk(path)[7] = [node |-> LoadBalancerNodeRoutes, args |-> <<path[2], path[4], path[6]>>]
<1> DEFINE from == LoadBalancerRoutes.param[1]
           next == LoadBalancerNodeRoutes
           args == <<path[2], path[4], path[6]>>
<1>1. Walk(path)[7 - 1] = [node |-> from, args |-> args]
  BY AtLoadBalancer DEF ToLoadBalancerNodes
<1>2. Len(path) \in Nat /\ 7 \in 1..Len(path) /\ path[7] = [word |-> "load_balancer_nodes"]
  BY DEF ToLoadBalancerNodes, ToLoadBalancer, ToLoadBalancers, ToGroup, ToGroups, ToCluster, ToClusters
<1>3. from.param = <<>> /\ "load_balancer_nodes" \in DOMAIN from.words /\ from.words.load_balancer_nodes = next
  BY DEF LoadBalancerRoutes, Branch, ThenParam
<1> HIDE DEF from, next, args
<1>4. Walk(path)[7] = [node |-> next, args |-> args]
  BY <1>1, <1>2, <1>3, FollowsWord
<1> QED
  BY <1>4 DEF next, args

LEMMA AtLoadBalancerNode ==
  ASSUME NEW path, ToLoadBalancerNode(path)
  PROVE  Walk(path)[8] = [node |-> LoadBalancerNodeRoutes.param[1], args |-> <<path[2], path[4], path[6], path[8]>>]
<1> DEFINE from == LoadBalancerNodeRoutes
           next == LoadBalancerNodeRoutes.param[1]
           args == <<path[2], path[4], path[6]>>
<1>1. Walk(path)[8 - 1] = [node |-> from, args |-> args]
  BY AtLoadBalancerNodes DEF ToLoadBalancerNode
<1>2. Len(path) \in Nat /\ 8 \in 1..Len(path)
  BY DEF ToLoadBalancerNode, ToLoadBalancerNodes, ToLoadBalancer, ToLoadBalancers, ToGroup, ToGroups, ToCluster, ToClusters
<1>3. from.param = <<next>>
  BY DEF LoadBalancerNodeRoutes, Branch, ThenParam
<1>4. Append(args, path[8]) = <<path[2], path[4], path[6], path[8]>>
  BY AppendThree
<1> HIDE DEF from, next, args
<1>5. Walk(path)[8] = [node |-> next, args |-> Append(args, path[8])]
  BY <1>1, <1>2, <1>3, FollowsParam
<1> QED
  BY <1>4, <1>5 DEF next

LEMMA AtCertificates ==
  ASSUME NEW path, ToCertificates(path)
  PROVE  Walk(path)[3] = [node |-> CertificateRoutes, args |-> <<path[2]>>]
<1> DEFINE from == ClusterRoutes.param[1]
           next == CertificateRoutes
           args == <<path[2]>>
<1>1. Walk(path)[3 - 1] = [node |-> from, args |-> args]
  BY AtCluster DEF ToCertificates
<1>2. Len(path) \in Nat /\ 3 \in 1..Len(path) /\ path[3] = [word |-> "certificates"]
  BY DEF ToCertificates, ToCluster, ToClusters
<1>3. from.param = <<>> /\ "certificates" \in DOMAIN from.words /\ from.words.certificates = next
  BY DEF ClusterRoutes, Branch, ThenParam
<1> HIDE DEF from, next, args
<1>4. Walk(path)[3] = [node |-> next, args |-> args]
  BY <1>1, <1>2, <1>3, FollowsWord
<1> QED
  BY <1>4 DEF next, args

LEMMA AtCertificate ==
  ASSUME NEW path, ToCertificate(path)
  PROVE  Walk(path)[4] = [node |-> CertificateRoutes.param[1], args |-> <<path[2], path[4]>>]
<1> DEFINE from == CertificateRoutes
           next == CertificateRoutes.param[1]
           args == <<path[2]>>
<1>1. Walk(path)[4 - 1] = [node |-> from, args |-> args]
  BY AtCertificates DEF ToCertificate
<1>2. Len(path) \in Nat /\ 4 \in 1..Len(path)
  BY DEF ToCertificate, ToCertificates, ToCluster, ToClusters
<1>3. from.param = <<next>>
  BY DEF CertificateRoutes, Branch, ThenParam
<1>4. Append(args, path[4]) = <<path[2], path[4]>>
  BY AppendOne
<1> HIDE DEF from, next, args
<1>5. Walk(path)[4] = [node |-> next, args |-> Append(args, path[4])]
  BY <1>1, <1>2, <1>3, FollowsParam
<1> QED
  BY <1>4, <1>5 DEF next

LEMMA AtApplications ==
  ASSUME NEW path, ToApplications(path)
  PROVE  Walk(path)[1] = [node |-> ApplicationRoutes, args |-> <<>>]
<1> DEFINE from == Routes
           next == ApplicationRoutes
           args == <<>>
<1>1. Walk(path)[1 - 1] = [node |-> from, args |-> args]
  BY WalkExists DEF ToApplications
<1>2. Len(path) \in Nat /\ 1 \in 1..Len(path) /\ path[1] = [word |-> "applications"]
  BY DEF ToApplications
<1>3. from.param = <<>> /\ "applications" \in DOMAIN from.words /\ from.words.applications = next
  BY DEF Routes, Branch
<1> HIDE DEF from, next, args
<1>4. Walk(path)[1] = [node |-> next, args |-> args]
  BY <1>1, <1>2, <1>3, FollowsWord
<1> QED
  BY <1>4 DEF next, args

LEMMA AtApplication ==
  ASSUME NEW path, ToApplication(path)
  PROVE  Walk(path)[2] = [node |-> ApplicationRoutes.param[1], args |-> <<path[2]>>]
<1> DEFINE from == ApplicationRoutes
           next == ApplicationRoutes.param[1]
           args == <<>>
<1>1. Walk(path)[2 - 1] = [node |-> from, args |-> args]
  BY AtApplications DEF ToApplication
<1>2. Len(path) \in Nat /\ 2 \in 1..Len(path)
  BY DEF ToApplication, ToApplications
<1>3. from.param = <<next>>
  BY DEF ApplicationRoutes, Branch, ThenParam
<1>4. Append(args, path[2]) = <<path[2]>>
  OBVIOUS
<1> HIDE DEF from, next, args
<1>5. Walk(path)[2] = [node |-> next, args |-> Append(args, path[2])]
  BY <1>1, <1>2, <1>3, FollowsParam
<1> QED
  BY <1>4, <1>5 DEF next

LEMMA AtContainers ==
  ASSUME NEW path, ToContainers(path)
  PROVE  Walk(path)[3] = [node |-> ApplicationRoutes.param[1].words.containers, args |-> <<path[2]>>]
<1> DEFINE from == ApplicationRoutes.param[1]
           next == ApplicationRoutes.param[1].words.containers
           args == <<path[2]>>
<1>1. Walk(path)[3 - 1] = [node |-> from, args |-> args]
  BY AtApplication DEF ToContainers
<1>2. Len(path) \in Nat /\ 3 \in 1..Len(path) /\ path[3] = [word |-> "containers"]
  BY DEF ToContainers, ToApplication, ToApplications
<1>3. from.param = <<>> /\ "containers" \in DOMAIN from.words /\ from.words.containers = next
  BY DEF ApplicationRoutes, Branch, ThenParam
<1> HIDE DEF from, next, args
<1>4. Walk(path)[3] = [node |-> next, args |-> args]
  BY <1>1, <1>2, <1>3, FollowsWord
<1> QED
  BY <1>4 DEF next, args

LEMMA AtVersions ==
  ASSUME NEW path, ToVersions(path)
  PROVE  Walk(path)[3] = [node |-> VersionRoutes, args |-> <<path[2]>>]
<1> DEFINE from == ApplicationRoutes.param[1]
           next == VersionRoutes
           args == <<path[2]>>
<1>1. Walk(path)[3 - 1] = [node |-> from, args |-> args]
  BY AtApplication DEF ToVersions
<1>2. Len(path) \in Nat /\ 3 \in 1..Len(path) /\ path[3] = [word |-> "versions"]
  BY DEF ToVersions, ToApplication, ToApplications
<1>3. from.param = <<>> /\ "versions" \in DOMAIN from.words /\ from.words.versions = next
  BY DEF ApplicationRoutes, Branch, ThenParam
<1> HIDE DEF from, next, args
<1>4. Walk(path)[3] = [node |-> next, args |-> args]
  BY <1>1, <1>2, <1>3, FollowsWord
<1> QED
  BY <1>4 DEF next, args

LEMMA AtVersion ==
  ASSUME NEW path, ToVersion(path)
  PROVE  Walk(path)[4] = [node |-> VersionRoutes.param[1], args |-> <<path[2], path[4]>>]
<1> DEFINE from == VersionRoutes
           next == VersionRoutes.param[1]
           args == <<path[2]>>
<1>1. Walk(path)[4 - 1] = [node |-> from, args |-> args]
  BY AtVersions DEF ToVersion
<1>2. Len(path) \in Nat /\ 4 \in 1..Len(path)
  BY DEF ToVersion, ToVersions, ToApplication, ToApplications
<1>3. from.param = <<next>>
  BY DEF VersionRoutes, Branch, ThenParam
<1>4. Append(args, path[4]) = <<path[2], path[4]>>
  BY AppendOne
<1> HIDE DEF from, next, args
<1>5. Walk(path)[4] = [node |-> next, args |-> Append(args, path[4])]
  BY <1>1, <1>2, <1>3, FollowsParam
<1> QED
  BY <1>4, <1>5 DEF next

LEMMA AtServiceClasses ==
  ASSUME NEW path, ToServiceClasses(path)
  PROVE  Walk(path)[1] = [node |-> ServiceClassRoutes, args |-> <<>>]
<1> DEFINE from == Routes
           next == ServiceClassRoutes
           args == <<>>
<1>1. Walk(path)[1 - 1] = [node |-> from, args |-> args]
  BY WalkExists DEF ToServiceClasses
<1>2. Len(path) \in Nat /\ 1 \in 1..Len(path) /\ path[1] = [word |-> "service_classes"]
  BY DEF ToServiceClasses
<1>3. from.param = <<>> /\ "service_classes" \in DOMAIN from.words /\ from.words.service_classes = next
  BY DEF Routes, Branch
<1> HIDE DEF from, next, args
<1>4. Walk(path)[1] = [node |-> next, args |-> args]
  BY <1>1, <1>2, <1>3, FollowsWord
<1> QED
  BY <1>4 DEF next, args

LEMMA AtLbClasses ==
  ASSUME NEW path, ToLbClasses(path)
  PROVE  Walk(path)[2] = [node |-> ServiceClassRoutes.words.lb, args |-> <<>>]
<1> DEFINE from == ServiceClassRoutes
           next == ServiceClassRoutes.words.lb
           args == <<>>
<1>1. Walk(path)[2 - 1] = [node |-> from, args |-> args]
  BY AtServiceClasses DEF ToLbClasses
<1>2. Len(path) \in Nat /\ 2 \in 1..Len(path) /\ path[2] = [word |-> "lb"]
  BY DEF ToLbClasses, ToServiceClasses
<1>3. from.param = <<>> /\ "lb" \in DOMAIN from.words /\ from.words.lb = next
  BY DEF ServiceClassRoutes, Branch, ThenParam
<1> HIDE DEF from, next, args
<1>4. Walk(path)[2] = [node |-> next, args |-> args]
  BY <1>1, <1>2, <1>3, FollowsWord
<1> QED
  BY <1>4 DEF next, args

LEMMA AtWorkerClasses ==
  ASSUME NEW path, ToWorkerClasses(path)
  PROVE  Walk(path)[2] = [node |-> ServiceClassRoutes.words.worker, args |-> <<>>]
<1> DEFINE from == ServiceClassRoutes
           next == ServiceClassRoutes.words.worker
           args == <<>>
<1>1. Walk(path)[2 - 1] = [node |-> from, args |-> args]
  BY AtServiceClasses DEF ToWorkerClasses
<1>2. Len(path) \in Nat /\ 2 \in 1..Len(path) /\ path[2] = [word |-> "worker"]
  BY DEF ToWorkerClasses, ToServiceClasses
<1>3. from.param = <<>> /\ "worker" \in DOMAIN from.words /\ from.words.worker = next
  BY DEF ServiceClassRoutes, Branch, ThenParam
<1> HIDE DEF from, next, args
<1>4. Walk(path)[2] = [node |-> next, args |-> args]
  BY <1>1, <1>2, <1>3, FollowsWord
<1> QED
  BY <1>4 DEF next, args

-----------------------------------------------------------------------------
(***************************************************************************)
(* The path each operation is sent to, and the node it is found at.        *)
(***************************************************************************)

\* The path of an operation's request, and where it is found.
PathOf(parts, args) == [i \in DOMAIN parts |-> Segment(parts[i], args)]

LEMMA ClustersPath ==
  ASSUME NEW args, DOMAIN args = {}
  PROVE  LET at == Found(PathOf(<<"clusters">>,
                                args))
         IN  /\ at.node = ClusterRoutes
             /\ at.args = <<>>
<1> DEFINE parts == <<"clusters">>
           path == PathOf(parts, args)
<1>1. parts \in Seq({"clusters"}) /\ Len(parts) = 1
  OBVIOUS
<1>2. /\ parts[1] = "clusters"
  OBVIOUS
<1> HIDE DEF parts
<1>3. Len(path) = 1 /\ \A i \in 1..1 : path[i] = Segment(parts[i], args)
  BY <1>1, PathSent DEF PathOf
<1> HIDE DEF path
<1>4. /\ path[1] = [word |-> "clusters"]
  BY <1>2, <1>3 DEF Segment
<1>5. ToClusters(path)
  BY <1>3, <1>4 DEF ToClusters
<1>6. Walk(path)[1] = [node |-> ClusterRoutes,
                        args |-> <<>>]
  BY <1>4, <1>5, AtClusters
<1>7. Found(path).node = ClusterRoutes /\ Found(path).args = <<>>
  BY <1>3, <1>6 DEF Found
<1> QED
  BY <1>7 DEF path, parts

LEMMA ClusterPath ==
  ASSUME NEW args, DOMAIN args = {"clusterID"}
  PROVE  LET at == Found(PathOf(<<"clusters", "clusterID">>,
                                args))
         IN  /\ at.node = ClusterRoutes.param[1]
             /\ at.args = <<[value |-> args.clusterID]>>
<1> DEFINE parts == <<"clusters", "clusterID">>
           path == PathOf(parts, args)
<1>1. parts \in Seq({"clusters", "clusterID"}) /\ Len(parts) = 2
  OBVIOUS
<1>2. /\ parts[1] = "clusters"
      /\ parts[2] = "clusterID"
  OBVIOUS
<1> HIDE DEF parts
<1>3. Len(path) = 2 /\ \A i \in 1..2 : path[i] = Segment(parts[i], args)
  BY <1>1, PathSent DEF PathOf
<1> HIDE DEF path
<1>4. /\ path[1] = [word |-> "clusters"]
      /\ path[2] = [value |-> args.clusterID]
  BY <1>2, <1>3 DEF Segment
<1>5. ToCluster(path)
  BY <1>3, <1>4 DEF ToCluster, ToClusters
<1>6. Walk(path)[2] = [node |-> ClusterRoutes.param[1],
                        args |-> <<[value |-> args.clusterID]>>]
  BY <1>4, <1>5, AtCluster
<1>7. Found(path).node = ClusterRoutes.param[1] /\ Found(path).args = <<[value |-> args.clusterID]>>
  BY <1>3, <1>6 DEF Found
<1> QED
  BY <1>7 DEF path, parts

LEMMA GroupsPath ==
  ASSUME NEW args, DOMAIN args = {"clusterID"}
  PROVE  LET at == Found(PathOf(<<"clusters", "clusterID", "asg">>,
                                args))
         IN  /\ at.node = AutoScalingGroupRoutes
             /\ at.args = <<[value |-> args.clusterID]>>
<1> DEFINE parts == <<"clusters", "clusterID", "asg">>
           path == PathOf(parts, args)
<1>1. parts \in Seq({"clusters", "clusterID", "asg"}) /\ Len(parts) = 3
  OBVIOUS
<1>2. /\ parts[1] = "clusters"
      /\ parts[2] = "clusterID"
      /\ parts[3] = "asg"
  OBVIOUS
<1> HIDE DEF parts
<1>3. Len(path) = 3 /\ \A i \in 1..3 : path[i] = Segment(parts[i], args)
  BY <1>1, PathSent DEF PathOf
<1> HIDE DEF path
<1>4. /\ path[1] = [word |-> "clusters"]
      /\ path[2] = [value |-> args.clusterID]
      /\ path[3] = [word |-> "asg"]
  BY <1>2, <1>3 DEF Segment
<1>5. ToGroups(path)
  BY <1>3, <1>4 DEF ToGroups, ToCluster, ToClusters
<1>6. Walk(path)[3] = [node |-> AutoScalingGroupRoutes,
                        args |-> <<[value |-> args.clusterID]>>]
  BY <1>4, <1>5, AtGroups
<1>7. Found(path).node = AutoScalingGroupRoutes /\ Found(path).args = <<[value |-> args.clusterID]>>
  BY <1>3, <1>6 DEF Found
<1> QED
  BY <1>7 DEF path, parts

LEMMA GroupPath ==
  ASSUME NEW args, DOMAIN args = {"clusterID", "autoScalingGroupID"}
  PROVE  LET at == Found(PathOf(<<"clusters", "clusterID", "asg", "autoScalingGroupID">>,
                                args))
         IN  /\ at.node = AutoScalingGroupRoutes.param[1]
             /\ at.args = <<[value |-> args.clusterID], [value |-> args.autoScalingGroupID]>>
<1> DEFINE parts == <<"clusters", "clusterID", "asg", "autoScalingGroupID">>
           path == PathOf(parts, args)
<1>1. parts \in Seq({"clusters", "clusterID", "asg", "autoScalingGroupID"}) /\ Len(parts) = 4
  OBVIOUS
<1>2. /\ parts[1] = "clusters"
      /\ parts[2] = "clusterID"
      /\ parts[3] = "asg"
      /\ parts[4] = "autoScalingGroupID"
  OBVIOUS
<1> HIDE DEF parts
<1>3. Len(path) = 4 /\ \A i \in 1..4 : path[i] = Segment(parts[i], args)
  BY <1>1, PathSent DEF PathOf
<1> HIDE DEF path
<1>4. /\ path[1] = [word |-> "clusters"]
      /\ path[2] = [value |-> args.clusterID]
      /\ path[3] = [word |-> "asg"]
      /\ path[4] = [value |-> args.autoScalingGroupID]
  BY <1>2, <1>3 DEF Segment
<1>5. ToGroup(path)
  BY <1>3, <1>4 DEF ToGroup, ToGroups, ToCluster, ToClusters
<1>6. Walk(path)[4] = [node |-> AutoScalingGroupRoutes.param[1],
                        args |-> <<[value |-> args.clusterID], [value |-> args.autoScalingGroupID]>>]
  BY <1>4, <1>5, AtGroup
<1>7. Found(path).node = AutoScalingGroupRoutes.param[1] /\ Found(path).args = <<[value |-> args.clusterID], [value |-> args.autoScalingGroupID]>>
  BY <1>3, <1>6 DEF Found
<1> QED
  BY <1>7 DEF path, parts

LEMMA WorkerNodesPath ==
  ASSUME NEW args, DOMAIN args = {"clusterID", "autoScalingGroupID"}
  PROVE  LET at == Found(PathOf(<<"clusters", "clusterID", "asg", "autoScalingGroupID", "worker_nodes">>,
                                args))
         IN  /\ at.node = WorkerNodeRoutes
             /\ at.args = <<[value |-> args.clusterID], [value |-> args.autoScalingGroupID]>>
<1> DEFINE parts == <<"clusters", "clusterID", "asg", "autoScalingGroupID", "worker_nodes">>
           path == PathOf(parts, args)
<1>1. parts \in Seq({"clusters", "clusterID", "asg", "autoScalingGroupID", "worker_nodes"}) /\ Len(parts) = 5
  OBVIOUS
<1>2. /\ parts[1] = "clusters"
      /\ parts[2] = "clusterID"
      /\ parts[3] = "asg"
      /\ parts[4] = "autoScalingGroupID"
      /\ parts[5] = "worker_nodes"
  OBVIOUS
<1> HIDE DEF parts
<1>3. Len(path) = 5 /\ \A i \in 1..5 : path[i] = Segment(parts[i], args)
  BY <1>1, PathSent DEF PathOf
<1> HIDE DEF path
<1>4. /\ path[1] = [word |-> "clusters"]
      /\ path[2] = [value |-> args.clusterID]
      /\ path[3] = [word |-> "asg"]
      /\ path[4] = [value |-> args.autoScalingGroupID]
      /\ path[5] = [word |-> "worker_nodes"]
  BY <1>2, <1>3 DEF Segment
<1>5. ToWorkerNodes(path)
  BY <1>3, <1>4 DEF ToWorkerNodes, ToGroup, ToGroups, ToCluster, ToClusters
<1>6. Walk(path)[5] = [node |-> WorkerNodeRoutes,
                        args |-> <<[value |-> args.clusterID], [value |-> args.autoScalingGroupID]>>]
  BY <1>4, <1>5, AtWorkerNodes
<1>7. Found(path).node = WorkerNodeRoutes /\ Found(path).args = <<[value |-> args.clusterID], [value |-> args.autoScalingGroupID]>>
  BY <1>3, <1>6 DEF Found
<1> QED
  BY <1>7 DEF path, parts

LEMMA WorkerNodePath ==
  ASSUME NEW args, DOMAIN args = {"clusterID", "autoScalingGroupID", "workerNodeID"}
  PROVE  LET at == Found(PathOf(<<"clusters", "clusterID", "asg", "autoScalingGroupID", "worker_nodes", "workerNodeID">>,
                                args))
         IN  /\ at.node = WorkerNodeRoutes.param[1]
             /\ at.args = <<[value |-> args.clusterID], [value |-> args.autoScalingGroupID], [value |-> args.workerNodeID]>>
<1> DEFINE parts == <<"clusters", "clusterID", "asg", "autoScalingGroupID", "worker_nodes", "workerNodeID">>
           path == PathOf(parts, args)
<1>1. parts \in Seq({"clusters", "clusterID", "asg", "autoScalingGroupID", "worker_nodes", "workerNodeID"}) /\ Len(parts) = 6
  OBVIOUS
<1>2. /\ parts[1] = "clusters"
      /\ parts[2] = "clusterID"
      /\ parts[3] = "asg"
      /\ parts[4] = "autoScalingGroupID"
      /\ parts[5] = "worker_nodes"
      /\ parts[6] = "workerNodeID"
  OBVIOUS
<1> HIDE DEF parts
<1>3. Len(path) = 6 /\ \A i \in 1..6 : path[i] = Segment(parts[i], args)
  BY <1>1, PathSent DEF PathOf
<1> HIDE DEF path
<1>4. /\ path[1] = [word |-> "clusters"]
      /\ path[2] = [value |-> args.clusterID]
      /\ path[3] = [word |-> "asg"]
      /\ path[4] = [value |-> args.autoScalingGroupID]
      /\ path[5] = [word |-> "worker_nodes"]
      /\ path[6] = [value |-> args.workerNodeID]
  BY <1>2, <1>3 DEF Segment
<1>5. ToWorkerNode(path)
  BY <1>3, <1>4 DEF ToWorkerNode, ToWorkerNodes, ToGroup, ToGroups, ToCluster, ToClusters
<1>6. Walk(path)[6] = [node |-> WorkerNodeRoutes.param[1],
                        args |-> <<[value |-> args.clusterID], [value |-> args.autoScalingGroupID], [value |-> args.workerNodeID]>>]
  BY <1>4, <1>5, AtWorkerNode
<1>7. Found(path).node = WorkerNodeRoutes.param[1] /\ Found(path).args = <<[value |-> args.clusterID], [value |-> args.autoScalingGroupID], [value |-> args.workerNodeID]>>
  BY <1>3, <1>6 DEF Found
<1> QED
  BY <1>7 DEF path, parts

LEMMA DrainingPath ==
  ASSUME NEW args, DOMAIN args = {"clusterID", "autoScalingGroupID", "workerNodeID"}
  PROVE  LET at == Found(PathOf(<<"clusters", "clusterID", "asg", "autoScalingGroupID", "worker_nodes", "workerNodeID", "draining">>,
                                args))
         IN  /\ at.node = WorkerNodeRoutes.param[1].words.draining
             /\ at.args = <<[value |-> args.clusterID], [value |-> args.autoScalingGroupID], [value |-> args.workerNodeID]>>
<1> DEFINE parts == <<"clusters", "clusterID", "asg", "autoScalingGroupID", "worker_nodes", "workerNodeID", "draining">>
           path == PathOf(parts, args)
<1>1. parts \in Seq({"clusters", "clusterID", "asg", "autoScalingGroupID", "worker_nodes", "workerNodeID", "draining"}) /\ Len(parts) = 7
  OBVIOUS
<1>2. /\ parts[1] = "clusters"
      /\ parts[2] = "clusterID"
      /\ parts[3] = "asg"
      /\ parts[4] = "autoScalingGroupID"
      /\ parts[5] = "worker_nodes"
      /\ parts[6] = "workerNodeID"
      /\ parts[7] = "draining"
  OBVIOUS
<1> HIDE DEF parts
<1>3. Len(path) = 7 /\ \A i \in 1..7 : path[i] = Segment(parts[i], args)
  BY <1>1, PathSent DEF PathOf
<1> HIDE DEF path
<1>4. /\ path[1] = [word |-> "clusters"]
      /\ path[2] = [value |-> args.clusterID]
      /\ path[3] = [word |-> "asg"]
      /\ path[4] = [value |-> args.autoScalingGroupID]
      /\ path[5] = [word |-> "worker_nodes"]
      /\ path[6] = [value |-> args.workerNodeID]
      /\ path[7] = [word |-> "draining"]
  BY <1>2, <1>3 DEF Segment
<1>5. ToDraining(path)
  BY <1>3, <1>4 DEF ToDraining, ToWorkerNode, ToWorkerNodes, ToGroup, ToGroups, ToCluster, ToClusters
<1>6. Walk(path)[7] = [node |-> WorkerNodeRoutes.param[1].words.draining,
                        args |-> <<[value |-> args.clusterID], [value |-> args.autoScalingGroupID], [value |-> args.workerNodeID]>>]
  BY <1>4, <1>5, AtDraining
<1>7. Found(path).node = WorkerNodeRoutes.param[1].words.draining /\ Found(path).args = <<[value |-> args.clusterID], [value |-> args.autoScalingGroupID], [value |-> args.workerNodeID]>>
  BY <1>3, <1>6 DEF Found
<1> QED
  BY <1>7 DEF path, parts

LEMMA LoadBalancersPath ==
  ASSUME NEW args, DOMAIN args = {"clusterID", "autoScalingGroupID"}
  PROVE  LET at == Found(PathOf(<<"clusters", "clusterID", "asg", "autoScalingGroupID", "load_balancers">>,
                                args))
         IN  /\ at.node = LoadBalancerRoutes
             /\ at.args = <<[value |-> args.clusterID], [value |-> args.autoScalingGroupID]>>
<1> DEFINE parts == <<"clusters", "clusterID", "asg", "autoScalingGroupID", "load_balancers">>
           path == PathOf(parts, args)
<1>1. parts \in Seq({"clusters", "clusterID", "asg", "autoScalingGroupID", "load_balancers"}) /\ Len(parts) = 5
  OBVIOUS
<1>2. /\ parts[1] = "clusters"
      /\ parts[2] = "clusterID"
      /\ parts[3] = "asg"
      /\ parts[4] = "autoScalingGroupID"
      /\ parts[5] = "load_balancers"
  OBVIOUS
<1> HIDE DEF parts
<1>3. Len(path) = 5 /\ \A i \in 1..5 : path[i] = Segment(parts[i], args)
  BY <1>1, PathSent DEF PathOf
<1> HIDE DEF path
<1>4. /\ path[1] = [word |-> "clusters"]
      /\ path[2] = [value |-> args.clusterID]
      /\ path[3] = [word |-> "asg"]
      /\ path[4] = [value |-> args.autoScalingGroupID]
      /\ path[5] = [word |-> "load_balancers"]
  BY <1>2, <1>3 DEF Segment
<1>5. ToLoadBalancers(path)
  BY <1>3, <1>4 DEF ToLoadBalancers, ToGroup, ToGroups, ToCluster, ToClusters
<1>6. Walk(path)[5] = [node |-> LoadBalancerRoutes,
                        args |-> <<[value |-> args.clusterID], [value |-> args.autoScalingGroupID]>>]
  BY <1>4, <1>5, AtLoadBalancers
<1>7. Found(path).node = LoadBalancerRoutes /\ Found(path).args = <<[value |-> args.clusterID], [value |-> args.autoScalingGroupID]>>
  BY <1>3, <1>6 DEF Found
<1> QED
  BY <1>7 DEF path, parts

LEMMA LoadBalancerPath ==
  ASSUME NEW args, DOMAIN args = {"clusterID", "autoScalingGroupID", "loadBalancerID"}
  PROVE  LET at == Found(PathOf(<<"clusters", "clusterID", "asg", "autoScalingGroupID", "load_balancers", "loadBalancerID">>,
                                args))
         IN  /\ at.node = LoadBalancerRoutes.param[1]
             /\ at.args = <<[value |-> args.clusterID], [value |-> args.autoScalingGroupID], [value |-> args.loadBalancerID]>>
<1> DEFINE parts == <<"clusters", "clusterID", "asg", "autoScalingGroupID", "load_balancers", "loadBalancerID">>
           path == PathOf(parts, args)
<1>1. parts \in Seq({"clusters", "clusterID", "asg", "autoScalingGroupID", "load_balancers", "loadBalancerID"}) /\ Len(parts) = 6
  OBVIOUS
<1>2. /\ parts[1] = "clusters"
      /\ parts[2] = "clusterID"
      /\ parts[3] = "asg"
      /\ parts[4] = "autoScalingGroupID"
      /\ parts[5] = "load_balancers"
      /\ parts[6] = "loadBalancerID"
  OBVIOUS
<1> HIDE DEF parts
<1>3. Len(path) = 6 /\ \A i \in 1..6 : path[i] = Segment(parts[i], args)
  BY <1>1, PathSent DEF PathOf
<1> HIDE DEF path
<1>4. /\ path[1] = [word |-> "clusters"]
      /\ path[2] = [value |-> args.clusterID]
      /\ path[3] = [word |-> "asg"]
      /\ path[4] = [value |-> args.autoScalingGroupID]
      /\ path[5] = [word |-> "load_balancers"]
      /\ path[6] = [value |-> args.loadBalancerID]
  BY <1>2, <1>3 DEF Segment
<1>5. ToLoadBalancer(path)
  BY <1>3, <1>4 DEF ToLoadBalancer, ToLoadBalancers, ToGroup, ToGroups, ToCluster, ToClusters
<1>6. Walk(path)[6] = [node |-> LoadBalancerRoutes.param[1],
                        args |-> <<[value |-> args.clusterID], [value |-> args.autoScalingGroupID], [value |-> args.loadBalancerID]>>]
  BY <1>4, <1>5, AtLoadBalancer
<1>7. Found(path).node = LoadBalancerRoutes.param[1] /\ Found(path).args = <<[value |-> args.clusterID], [value |-> args.autoScalingGroupID], [value |-> args.loadBalancerID]>>
  BY <1>3, <1>6 DEF Found
<1> QED
  BY <1>7 DEF path, parts

LEMMA LoadBalancerNodesPath ==
  ASSUME NEW args, DOMAIN args = {"clusterID", "autoScalingGroupID", "loadBalancerID"}
  PROVE  LET at == Found(PathOf(<<"clusters", "clusterID", "asg", "autoScalingGroupID", "load_balancers", "loadBalancerID", "load_balancer_nodes">>,
                                args))
         IN  /\ at.node = LoadBalancerNodeRoutes
             /\ at.args = <<[value |-> args.clusterID], [value |-> args.autoScalingGroupID], [value |-> args.loadBalancerID]>>
<1> DEFINE parts == <<"clusters", "clusterID", "asg", "autoScalingGroupID", "load_balancers", "loadBalancerID", "load_balancer_nodes">>
           path == PathOf(parts, args)
<1>1. parts \in Seq({"clusters", "clusterID", "asg", "autoScalingGroupID", "load_balancers", "loadBalancerID", "load_balancer_nodes"}) /\ Len(parts) = 7
  OBVIOUS
<1>2. /\ parts[1] = "clusters"
      /\ parts[2] = "clusterID"
      /\ parts[3] = "asg"
      /\ parts[4] = "autoScalingGroupID"
      /\ parts[5] = "load_balancers"
      /\ parts[6] = "loadBalancerID"
      /\ parts[7] = "load_balancer_nodes"
  OBVIOUS
<1> HIDE DEF parts
<1>3. Len(path) = 7 /\ \A i \in 1..7 : path[i] = Segment(parts[i], args)
  BY <1>1, PathSent DEF PathOf
<1> HIDE DEF path
<1>4. /\ path[1] = [word |-> "clusters"]
      /\ path[2] = [value |-> args.clusterID]
      /\ path[3] = [word |-> "asg"]
      /\ path[4] = [value |-> args.autoScalingGroupID]
      /\ path[5] = [word |-> "load_balancers"]
      /\ path[6] = [value |-> args.loadBalancerID]
      /\ path[7] = [word |-> "load_balancer_nodes"]
  BY <1>2, <1>3 DEF Segment
<1>5. ToLoadBalancerNodes(path)
  BY <1>3, <1>4 DEF ToLoadBalancerNodes, ToLoadBalancer, ToLoadBalancers, ToGroup, ToGroups, ToCluster, ToClusters
<1>6. Walk(path)[7] = [node |-> LoadBalancerNodeRoutes,
                        args |-> <<[value |-> args.clusterID], [value |-> args.autoScalingGroupID], [value |-> args.loadBalancerID]>>]
  BY <1>4, <1>5, AtLoadBalancerNodes
<1>7. Found(path).node = LoadBalancerNodeRoutes /\ Found(path).args = <<[value |-> args.clusterID], [value |-> args.autoScalingGroupID], [value |-> args.loadBalancerID]>>
  BY <1>3, <1>6 DEF Found
<1> QED
  BY <1>7 DEF path, parts

LEMMA LoadBalancerNodePath ==
  ASSUME NEW args, DOMAIN args = {"clusterID", "autoScalingGroupID", "loadBalancerID", "loadBalancerNodeID"}
  PROVE  LET at == Found(PathOf(<<"clusters", "clusterID", "asg", "autoScalingGroupID", "load_balancers", "loadBalancerID", "load_balancer_nodes", "loadBalancerNodeID">>,
                                args))
         IN  /\ at.node = LoadBalancerNodeRoutes.param[1]
             /\ at.args = <<[value |-> args.clusterID], [value |-> args.autoScalingGroupID], [value |-> args.loadBalancerID], [value |-> args.loadBalancerNodeID]>>
<1> DEFINE parts == <<"clusters", "clusterID", "asg", "autoScalingGroupID", "load_balancers", "loadBalancerID", "load_balancer_nodes", "loadBalancerNodeID">>
           path == PathOf(parts, args)
<1>1. parts \in Seq({"clusters", "clusterID", "asg", "autoScalingGroupID", "load_balancers", "loadBalancerID", "load_balancer_nodes", "loadBalancerNodeID"}) /\ Len(parts) = 8
  OBVIOUS
<1>2. /\ parts[1] = "clusters"
      /\ parts[2] = "clusterID"
      /\ parts[3] = "asg"
      /\ parts[4] = "autoScalingGroupID"
      /\ parts[5] = "load_balancers"
      /\ parts[6] = "loadBalancerID"
      /\ parts[7] = "load_balancer_nodes"
      /\ parts[8] = "loadBalancerNodeID"
  OBVIOUS
<1> HIDE DEF parts
<1>3. Len(path) = 8 /\ \A i \in 1..8 : path[i] = Segment(parts[i], args)
  BY <1>1, PathSent DEF PathOf
<1> HIDE DEF path
<1>4. /\ path[1] = [word |-> "clusters"]
      /\ path[2] = [value |-> args.clusterID]
      /\ path[3] = [word |-> "asg"]
      /\ path[4] = [value |-> args.autoScalingGroupID]
      /\ path[5] = [word |-> "load_balancers"]
      /\ path[6] = [value |-> args.loadBalancerID]
      /\ path[7] = [word |-> "load_balancer_nodes"]
      /\ path[8] = [value |-> args.loadBalancerNodeID]
  BY <1>2, <1>3 DEF Segment
<1>5. ToLoadBalancerNode(path)
  BY <1>3, <1>4 DEF ToLoadBalancerNode, ToLoadBalancerNodes, ToLoadBalancer, ToLoadBalancers, ToGroup, ToGroups, ToCluster, ToClusters
<1>6. Walk(path)[8] = [node |-> LoadBalancerNodeRoutes.param[1],
                        args |-> <<[value |-> args.clusterID], [value |-> args.autoScalingGroupID], [value |-> args.loadBalancerID], [value |-> args.loadBalancerNodeID]>>]
  BY <1>4, <1>5, AtLoadBalancerNode
<1>7. Found(path).node = LoadBalancerNodeRoutes.param[1] /\ Found(path).args = <<[value |-> args.clusterID], [value |-> args.autoScalingGroupID], [value |-> args.loadBalancerID], [value |-> args.loadBalancerNodeID]>>
  BY <1>3, <1>6 DEF Found
<1> QED
  BY <1>7 DEF path, parts

LEMMA CertificatesPath ==
  ASSUME NEW args, DOMAIN args = {"clusterID"}
  PROVE  LET at == Found(PathOf(<<"clusters", "clusterID", "certificates">>,
                                args))
         IN  /\ at.node = CertificateRoutes
             /\ at.args = <<[value |-> args.clusterID]>>
<1> DEFINE parts == <<"clusters", "clusterID", "certificates">>
           path == PathOf(parts, args)
<1>1. parts \in Seq({"clusters", "clusterID", "certificates"}) /\ Len(parts) = 3
  OBVIOUS
<1>2. /\ parts[1] = "clusters"
      /\ parts[2] = "clusterID"
      /\ parts[3] = "certificates"
  OBVIOUS
<1> HIDE DEF parts
<1>3. Len(path) = 3 /\ \A i \in 1..3 : path[i] = Segment(parts[i], args)
  BY <1>1, PathSent DEF PathOf
<1> HIDE DEF path
<1>4. /\ path[1] = [word |-> "clusters"]
      /\ path[2] = [value |-> args.clusterID]
      /\ path[3] = [word |-> "certificates"]
  BY <1>2, <1>3 DEF Segment
<1>5. ToCertificates(path)
  BY <1>3, <1>4 DEF ToCertificates, ToCluster, ToClusters
<1>6. Walk(path)[3] = [node |-> CertificateRoutes,
                        args |-> <<[value |-> args.clusterID]>>]
  BY <1>4, <1>5, AtCertificates
<1>7. Found(path).node = CertificateRoutes /\ Found(path).args = <<[value |-> args.clusterID]>>
  BY <1>3, <1>6 DEF Found
<1> QED
  BY <1>7 DEF path, parts

LEMMA CertificatePath ==
  ASSUME NEW args, DOMAIN args = {"clusterID", "certificateID"}
  PROVE  LET at == Found(PathOf(<<"clusters", "clusterID", "certificates", "certificateID">>,
                                args))
         IN  /\ at.node = CertificateRoutes.param[1]
             /\ at.args = <<[value |-> args.clusterID], [value |-> args.certificateID]>>
<1> DEFINE parts == <<"clusters", "clusterID", "certificates", "certificateID">>
           path == PathOf(parts, args)
<1>1. parts \in Seq({"clusters", "clusterID", "certificates", "certificateID"}) /\ Len(parts) = 4
  OBVIOUS
<1>2. /\ parts[1] = "clusters"
      /\ parts[2] = "clusterID"
      /\ parts[3] = "certificates"
      /\ parts[4] = "certificateID"
  OBVIOUS
<1> HIDE DEF parts
<1>3. Len(path) = 4 /\ \A i \in 1..4 : path[i] = Segment(parts[i], args)
  BY <1>1, PathSent DEF PathOf
<1> HIDE DEF path
<1>4. /\ path[1] = [word |-> "clusters"]
      /\ path[2] = [value |-> args.clusterID]
      /\ path[3] = [word |-> "certificates"]
      /\ path[4] = [value |-> args.certificateID]
  BY <1>2, <1>3 DEF Segment
<1>5. ToCertificate(path)
  BY <1>3, <1>4 DEF ToCertificate, ToCertificates, ToCluster, ToClusters
<1>6. Walk(path)[4] = [node |-> CertificateRoutes.param[1],
                        args |-> <<[value |-> args.clusterID], [value |-> args.certificateID]>>]
  BY <1>4, <1>5, AtCertificate
<1>7. Found(path).node = CertificateRoutes.param[1] /\ Found(path).args = <<[value |-> args.clusterID], [value |-> args.certificateID]>>
  BY <1>3, <1>6 DEF Found
<1> QED
  BY <1>7 DEF path, parts

LEMMA ApplicationsPath ==
  ASSUME NEW args, DOMAIN args = {}
  PROVE  LET at == Found(PathOf(<<"applications">>,
                                args))
         IN  /\ at.node = ApplicationRoutes
             /\ at.args = <<>>
<1> DEFINE parts == <<"applications">>
           path == PathOf(parts, args)
<1>1. parts \in Seq({"applications"}) /\ Len(parts) = 1
  OBVIOUS
<1>2. /\ parts[1] = "applications"
  OBVIOUS
<1> HIDE DEF parts
<1>3. Len(path) = 1 /\ \A i \in 1..1 : path[i] = Segment(parts[i], args)
  BY <1>1, PathSent DEF PathOf
<1> HIDE DEF path
<1>4. /\ path[1] = [word |-> "applications"]
  BY <1>2, <1>3 DEF Segment
<1>5. ToApplications(path)
  BY <1>3, <1>4 DEF ToApplications
<1>6. Walk(path)[1] = [node |-> ApplicationRoutes,
                        args |-> <<>>]
  BY <1>4, <1>5, AtApplications
<1>7. Found(path).node = ApplicationRoutes /\ Found(path).args = <<>>
  BY <1>3, <1>6 DEF Found
<1> QED
  BY <1>7 DEF path, parts

LEMMA ApplicationPath ==
  ASSUME NEW args, DOMAIN args = {"applicationID"}
  PROVE  LET at == Found(PathOf(<<"applications", "applicationID">>,
                                args))
         IN  /\ at.node = ApplicationRoutes.param[1]
             /\ at.args = <<[value |-> args.applicationID]>>
<1> DEFINE parts == <<"applications", "applicationID">>
           path == PathOf(parts, args)
<1>1. parts \in Seq({"applications", "applicationID"}) /\ Len(parts) = 2
  OBVIOUS
<1>2. /\ parts[1] = "applications"
      /\ parts[2] = "applicationID"
  OBVIOUS
<1> HIDE DEF parts
<1>3. Len(path) = 2 /\ \A i \in 1..2 : path[i] = Segment(parts[i], args)
  BY <1>1, PathSent DEF PathOf
<1> HIDE DEF path
<1>4. /\ path[1] = [word |-> "applications"]
      /\ path[2] = [value |-> args.applicationID]
  BY <1>2, <1>3 DEF Segment
<1>5. ToApplication(path)
  BY <1>3, <1>4 DEF ToApplication, ToApplications
<1>6. Walk(path)[2] = [node |-> ApplicationRoutes.param[1],
                        args |-> <<[value |-> args.applicationID]>>]
  BY <1>4, <1>5, AtApplication
<1>7. Found(path).node = ApplicationRoutes.param[1] /\ Found(path).args = <<[value |-> args.applicationID]>>
  BY <1>3, <1>6 DEF Found
<1> QED
  BY <1>7 DEF path, parts

LEMMA ContainersPath ==
  ASSUME NEW args, DOMAIN args = {"applicationID"}
  PROVE  LET at == Found(PathOf(<<"applications", "applicationID", "containers">>,
                                args))
         IN  /\ at.node = ApplicationRoutes.param[1].words.containers
             /\ at.args = <<[value |-> args.applicationID]>>
<1> DEFINE parts == <<"applications", "applicationID", "containers">>
           path == PathOf(parts, args)
<1>1. parts \in Seq({"applications", "applicationID", "containers"}) /\ Len(parts) = 3
  OBVIOUS
<1>2. /\ parts[1] = "applications"
      /\ parts[2] = "applicationID"
      /\ parts[3] = "containers"
  OBVIOUS
<1> HIDE DEF parts
<1>3. Len(path) = 3 /\ \A i \in 1..3 : path[i] = Segment(parts[i], args)
  BY <1>1, PathSent DEF PathOf
<1> HIDE DEF path
<1>4. /\ path[1] = [word |-> "applications"]
      /\ path[2] = [value |-> args.applicationID]
      /\ path[3] = [word |-> "containers"]
  BY <1>2, <1>3 DEF Segment
<1>5. ToContainers(path)
  BY <1>3, <1>4 DEF ToContainers, ToApplication, ToApplications
<1>6. Walk(path)[3] = [node |-> ApplicationRoutes.param[1].words.containers,
                        args |-> <<[value |-> args.applicationID]>>]
  BY <1>4, <1>5, AtContainers
<1>7. Found(path).node = ApplicationRoutes.param[1].words.containers /\ Found(path).args = <<[value |-> args.applicationID]>>
  BY <1>3, <1>6 DEF Found
<1> QED
  BY <1>7 DEF path, parts

LEMMA VersionsPath ==
  ASSUME NEW args, DOMAIN args = {"applicationID"}
  PROVE  LET at == Found(PathOf(<<"applications", "applicationID", "versions">>,
                                args))
         IN  /\ at.node = VersionRoutes
             /\ at.args = <<[value |-> args.applicationID]>>
<1> DEFINE parts == <<"applications", "applicationID", "versions">>
           path == PathOf(parts, args)
<1>1. parts \in Seq({"applications", "applicationID", "versions"}) /\ Len(parts) = 3
  OBVIOUS
<1>2. /\ parts[1] = "applications"
      /\ parts[2] = "applicationID"
      /\ parts[3] = "versions"
  OBVIOUS
<1> HIDE DEF parts
<1>3. Len(path) = 3 /\ \A i \in 1..3 : path[i] = Segment(parts[i], args)
  BY <1>1, PathSent DEF PathOf
<1> HIDE DEF path
<1>4. /\ path[1] = [word |-> "applications"]
      /\ path[2] = [value |-> args.applicationID]
      /\ path[3] = [word |-> "versions"]
  BY <1>2, <1>3 DEF Segment
<1>5. ToVersions(path)
  BY <1>3, <1>4 DEF ToVersions, ToApplication, ToApplications
<1>6. Walk(path)[3] = [node |-> VersionRoutes,
                        args |-> <<[value |-> args.applicationID]>>]
  BY <1>4, <1>5, AtVersions
<1>7. Found(path).node = VersionRoutes /\ Found(path).args = <<[value |-> args.applicationID]>>
  BY <1>3, <1>6 DEF Found
<1> QED
  BY <1>7 DEF path, parts

LEMMA VersionPath ==
  ASSUME NEW args, DOMAIN args = {"applicationID", "version"}
  PROVE  LET at == Found(PathOf(<<"applications", "applicationID", "versions", "version">>,
                                args))
         IN  /\ at.node = VersionRoutes.param[1]
             /\ at.args = <<[value |-> args.applicationID], [value |-> args.version]>>
<1> DEFINE parts == <<"applications", "applicationID", "versions", "version">>
           path == PathOf(parts, args)
<1>1. parts \in Seq({"applications", "applicationID", "versions", "version"}) /\ Len(parts) = 4
  OBVIOUS
<1>2. /\ parts[1] = "applications"
      /\ parts[2] = "applicationID"
      /\ parts[3] = "versions"
      /\ parts[4] = "version"
  OBVIOUS
<1> HIDE DEF parts
<1>3. Len(path) = 4 /\ \A i \in 1..4 : path[i] = Segment(parts[i], args)
  BY <1>1, PathSent DEF PathOf
<1> HIDE DEF path
<1>4. /\ path[1] = [word |-> "applications"]
      /\ path[2] = [value |-> args.applicationID]
      /\ path[3] = [word |-> "versions"]
      /\ path[4] = [value |-> args.version]
  BY <1>2, <1>3 DEF Segment
<1>5. ToVersion(path)
  BY <1>3, <1>4 DEF ToVersion, ToVersions, ToApplication, ToApplications
<1>6. Walk(path)[4] = [node |-> VersionRoutes.param[1],
                        args |-> <<[value |-> args.applicationID], [value |-> args.version]>>]
  BY <1>4, <1>5, AtVersion
<1>7. Found(path).node = VersionRoutes.param[1] /\ Found(path).args = <<[value |-> args.applicationID], [value |-> args.version]>>
  BY <1>3, <1>6 DEF Found
<1> QED
  BY <1>7 DEF path, parts

LEMMA LbClassesPath ==
  ASSUME NEW args, DOMAIN args = {}
  PROVE  LET at == Found(PathOf(<<"service_classes", "lb">>,
                                args))
         IN  /\ at.node = ServiceClassRoutes.words.lb
             /\ at.args = <<>>
<1> DEFINE parts == <<"service_classes", "lb">>
           path == PathOf(parts, args)
<1>1. parts \in Seq({"service_classes", "lb"}) /\ Len(parts) = 2
  OBVIOUS
<1>2. /\ parts[1] = "service_classes"
      /\ parts[2] = "lb"
  OBVIOUS
<1> HIDE DEF parts
<1>3. Len(path) = 2 /\ \A i \in 1..2 : path[i] = Segment(parts[i], args)
  BY <1>1, PathSent DEF PathOf
<1> HIDE DEF path
<1>4. /\ path[1] = [word |-> "service_classes"]
      /\ path[2] = [word |-> "lb"]
  BY <1>2, <1>3 DEF Segment
<1>5. ToLbClasses(path)
  BY <1>3, <1>4 DEF ToLbClasses, ToServiceClasses
<1>6. Walk(path)[2] = [node |-> ServiceClassRoutes.words.lb,
                        args |-> <<>>]
  BY <1>4, <1>5, AtLbClasses
<1>7. Found(path).node = ServiceClassRoutes.words.lb /\ Found(path).args = <<>>
  BY <1>3, <1>6 DEF Found
<1> QED
  BY <1>7 DEF path, parts

LEMMA WorkerClassesPath ==
  ASSUME NEW args, DOMAIN args = {}
  PROVE  LET at == Found(PathOf(<<"service_classes", "worker">>,
                                args))
         IN  /\ at.node = ServiceClassRoutes.words.worker
             /\ at.args = <<>>
<1> DEFINE parts == <<"service_classes", "worker">>
           path == PathOf(parts, args)
<1>1. parts \in Seq({"service_classes", "worker"}) /\ Len(parts) = 2
  OBVIOUS
<1>2. /\ parts[1] = "service_classes"
      /\ parts[2] = "worker"
  OBVIOUS
<1> HIDE DEF parts
<1>3. Len(path) = 2 /\ \A i \in 1..2 : path[i] = Segment(parts[i], args)
  BY <1>1, PathSent DEF PathOf
<1> HIDE DEF path
<1>4. /\ path[1] = [word |-> "service_classes"]
      /\ path[2] = [word |-> "worker"]
  BY <1>2, <1>3 DEF Segment
<1>5. ToWorkerClasses(path)
  BY <1>3, <1>4 DEF ToWorkerClasses, ToServiceClasses
<1>6. Walk(path)[2] = [node |-> ServiceClassRoutes.words.worker,
                        args |-> <<>>]
  BY <1>4, <1>5, AtWorkerClasses
<1>7. Found(path).node = ServiceClassRoutes.words.worker /\ Found(path).args = <<>>
  BY <1>3, <1>6 DEF Found
<1> QED
  BY <1>7 DEF path, parts

-----------------------------------------------------------------------------
(***************************************************************************)
(* What the two sides of an operation agree on: the path leads back to it, *)
(* and its parameters, its body and its answer have one table each.        *)
(***************************************************************************)

\* A request finds its operation, whose two sides have the same tables.
Finds(op) ==
    \A args : DOMAIN args = PathNames(Handlers[op].params) =>
        LET at == Found(PathOf(Sends[op].path, args))
        IN  /\ Sends[op].method \in DOMAIN at.node.ops
            /\ at.node.ops[Sends[op].method] = op
            /\ \A i \in DOMAIN Handlers[op].params.path :
                at.args[i] = [value |-> args[Handlers[op].params.path[i]]]

Agrees(op) ==
    /\ Sends[op].body = Handlers[op].body
    /\ Answers[op] = Handlers[op].answer
    /\ Sends[op].query = DOMAIN Handlers[op].params.query
    /\ Answers[op].code \in {200, 204}

LEMMA CreateClusterFinds == Finds("CreateCluster") /\ Agrees("CreateCluster")
<1>1. Sends["CreateCluster"] = SendCreateCluster /\ Handlers["CreateCluster"] = HandleCreateCluster
      /\ Answers["CreateCluster"] = CreateClusterAnswer
  BY DEF Sends, Handlers, Answers
<1>2. /\ SendCreateCluster.path = <<"clusters">>
      /\ SendCreateCluster.method = "POST"
  BY DEF SendCreateCluster, Post, Send
<1>3. HandleCreateCluster.params.path = <<>>
  BY DEF HandleCreateCluster, Handler, NoParams, NoQuery, Params
<1>4. PathNames(HandleCreateCluster.params) = {}
  BY <1>3 DEF PathNames
<1>5. ClusterRoutes.ops.POST = "CreateCluster" /\ "POST" \in DOMAIN ClusterRoutes.ops
  BY DEF ClusterRoutes, ThenParam, Branch, Leaf
<1>6. DOMAIN <<>> = {}
  OBVIOUS
<1>7. ASSUME NEW args, DOMAIN args = PathNames(HandleCreateCluster.params),
             NEW at, at = Found(PathOf(SendCreateCluster.path, args))
      PROVE  at.node = ClusterRoutes
  BY <1>2, <1>4, <1>7, ClustersPath
<1>8. Finds("CreateCluster")
  BY <1>1, <1>2, <1>3, <1>5, <1>6, <1>7 DEF Finds
<1>9. Agrees("CreateCluster")
  BY <1>1 DEF Agrees, SendCreateCluster, Post, Send, CreateClusterAnswer, HandleCreateCluster, Handler, NoParams, NoQuery, Params, NoContent, Answer
<1> QED
  BY <1>8, <1>9

LEMMA ListClustersFinds == Finds("ListClusters") /\ Agrees("ListClusters")
<1>1. Sends["ListClusters"] = SendListClusters /\ Handlers["ListClusters"] = HandleListClusters
      /\ Answers["ListClusters"] = ListClustersAnswer
  BY DEF Sends, Handlers, Answers
<1>2. /\ SendListClusters.path = <<"clusters">>
      /\ SendListClusters.method = "GET"
  BY DEF SendListClusters, Get, Send
<1>3. HandleListClusters.params.path = <<>>
  BY DEF HandleListClusters, Handler, ListClustersParams, Params
<1>4. PathNames(HandleListClusters.params) = {}
  BY <1>3 DEF PathNames
<1>5. ClusterRoutes.ops.GET = "ListClusters" /\ "GET" \in DOMAIN ClusterRoutes.ops
  BY DEF ClusterRoutes, ThenParam, Branch, Leaf
<1>6. DOMAIN <<>> = {}
  OBVIOUS
<1>7. ASSUME NEW args, DOMAIN args = PathNames(HandleListClusters.params),
             NEW at, at = Found(PathOf(SendListClusters.path, args))
      PROVE  at.node = ClusterRoutes
  BY <1>2, <1>4, <1>7, ClustersPath
<1>8. Finds("ListClusters")
  BY <1>1, <1>2, <1>3, <1>5, <1>6, <1>7 DEF Finds
<1>9. Agrees("ListClusters")
  BY <1>1 DEF Agrees, SendListClusters, Get, Send, ListClustersAnswer, HandleListClusters, Handler, ListClustersParams, Params, NoQuery, NoContent, Answer
<1> QED
  BY <1>8, <1>9

LEMMA GetClusterFinds == Finds("GetCluster") /\ Agrees("GetCluster")
<1>1. Sends["GetCluster"] = SendGetCluster /\ Handlers["GetCluster"] = HandleGetCluster
      /\ Answers["GetCluster"] = GetClusterAnswer
  BY DEF Sends, Handlers, Answers
<1>2. /\ SendGetCluster.path = <<"clusters", "clusterID">>
      /\ SendGetCluster.method = "GET"
  BY DEF SendGetCluster, Get, Send
<1>3. HandleGetCluster.params.path = <<"clusterID">>
  BY DEF HandleGetCluster, Handler, GetClusterParams, Params
<1>4. PathNames(HandleGetCluster.params) = {"clusterID"}
  BY <1>3 DEF PathNames
<1>5. ClusterRoutes.param[1].ops.GET = "GetCluster" /\ "GET" \in DOMAIN ClusterRoutes.param[1].ops
  BY DEF ClusterRoutes, ThenParam, Branch, Leaf
<1>6. \A i \in DOMAIN <<"clusterID">> : i = 1
  OBVIOUS
<1>7. ASSUME NEW args, DOMAIN args = PathNames(HandleGetCluster.params),
             NEW at, at = Found(PathOf(SendGetCluster.path, args))
      PROVE  /\ at.node = ClusterRoutes.param[1]
             /\ \A i \in DOMAIN <<"clusterID">> :
                    at.args[i] = [value |-> args[<<"clusterID">>[i]]]
  <2>1. /\ at.node = ClusterRoutes.param[1]
        /\ at.args[1] = [value |-> args.clusterID]
    BY <1>2, <1>4, <1>7, ClusterPath
  <2> QED
    BY <1>6, <2>1
<1>8. Finds("GetCluster")
  BY <1>1, <1>2, <1>3, <1>5, <1>6, <1>7 DEF Finds
<1>9. Agrees("GetCluster")
  BY <1>1 DEF Agrees, SendGetCluster, Get, Send, GetClusterAnswer, HandleGetCluster, Handler, GetClusterParams, Params, NoQuery, NoContent, Answer
<1> QED
  BY <1>8, <1>9

LEMMA UpdateClusterFinds == Finds("UpdateCluster") /\ Agrees("UpdateCluster")
<1>1. Sends["UpdateCluster"] = SendUpdateCluster /\ Handlers["UpdateCluster"] = HandleUpdateCluster
      /\ Answers["UpdateCluster"] = UpdateClusterAnswer
  BY DEF Sends, Handlers, Answers
<1>2. /\ SendUpdateCluster.path = <<"clusters", "clusterID">>
      /\ SendUpdateCluster.method = "PUT"
  BY DEF SendUpdateCluster, Put, Send
<1>3. HandleUpdateCluster.params.path = <<"clusterID">>
  BY DEF HandleUpdateCluster, Handler, UpdateClusterParams, Params
<1>4. PathNames(HandleUpdateCluster.params) = {"clusterID"}
  BY <1>3 DEF PathNames
<1>5. ClusterRoutes.param[1].ops.PUT = "UpdateCluster" /\ "PUT" \in DOMAIN ClusterRoutes.param[1].ops
  BY DEF ClusterRoutes, ThenParam, Branch, Leaf
<1>6. \A i \in DOMAIN <<"clusterID">> : i = 1
  OBVIOUS
<1>7. ASSUME NEW args, DOMAIN args = PathNames(HandleUpdateCluster.params),
             NEW at, at = Found(PathOf(SendUpdateCluster.path, args))
      PROVE  /\ at.node = ClusterRoutes.param[1]
             /\ \A i \in DOMAIN <<"clusterID">> :
                    at.args[i] = [value |-> args[<<"clusterID">>[i]]]
  <2>1. /\ at.node = ClusterRoutes.param[1]
        /\ at.args[1] = [value |-> args.clusterID]
    BY <1>2, <1>4, <1>7, ClusterPath
  <2> QED
    BY <1>6, <2>1
<1>8. Finds("UpdateCluster")
  BY <1>1, <1>2, <1>3, <1>5, <1>6, <1>7 DEF Finds
<1>9. Agrees("UpdateCluster")
  BY <1>1 DEF Agrees, SendUpdateCluster, Put, Send, UpdateClusterAnswer, HandleUpdateCluster, Handler, UpdateClusterParams, Params, NoQuery, NoContent, Answer
<1> QED
  BY <1>8, <1>9

LEMMA DeleteClusterFinds == Finds("DeleteCluster") /\ Agrees("DeleteCluster")
<1>1. Sends["DeleteCluster"] = SendDeleteCluster /\ Handlers["DeleteCluster"] = HandleDeleteCluster
      /\ Answers["DeleteCluster"] = DeleteClusterAnswer
  BY DEF Sends, Handlers, Answers
<1>2. /\ SendDeleteCluster.path = <<"clusters", "clusterID">>
      /\ SendDeleteCluster.method = "DELETE"
  BY DEF SendDeleteCluster, Delete, Send
<1>3. HandleDeleteCluster.params.path = <<"clusterID">>
  BY DEF HandleDeleteCluster, Handler, DeleteClusterParams, Params
<1>4. PathNames(HandleDeleteCluster.params) = {"clusterID"}
  BY <1>3 DEF PathNames
<1>5. ClusterRoutes.param[1].ops.DELETE = "DeleteCluster" /\ "DELETE" \in DOMAIN ClusterRoutes.param[1].ops
  BY DEF ClusterRoutes, ThenParam, Branch, Leaf
<1>6. \A i \in DOMAIN <<"clusterID">> : i = 1
  OBVIOUS
<1>7. ASSUME NEW args, DOMAIN args = PathNames(HandleDeleteCluster.params),
             NEW at, at = Found(PathOf(SendDeleteCluster.path, args))
      PROVE  /\ at.node = ClusterRoutes.param[1]
             /\ \A i \in DOMAIN <<"clusterID">> :
                    at.args[i] = [value |-> args[<<"clusterID">>[i]]]
  <2>1. /\ at.node = ClusterRoutes.param[1]
        /\ at.args[1] = [value |-> args.clusterID]
    BY <1>2, <1>4, <1>7, ClusterPath
  <2> QED
    BY <1>6, <2>1
<1>8. Finds("DeleteCluster")
  BY <1>1, <1>2, <1>3, <1>5, <1>6, <1>7 DEF Finds
<1>9. Agrees("DeleteCluster")
  BY <1>1 DEF Agrees, SendDeleteCluster, Delete, Send, DeleteClusterAnswer, HandleDeleteCluster, Handler, DeleteClusterParams, Params, NoQuery, NoContent, Answer
<1> QED
  BY <1>8, <1>9

LEMMA CreateApplicationFinds == Finds("CreateApplication") /\ Agrees("CreateApplication")
<1>1. Sends["CreateApplication"] = SendCreateApplication /\ Handlers["CreateApplication"] = HandleCreateApplication
      /\ Answers["CreateApplication"] = CreateApplicationAnswer
  BY DEF Sends, Handlers, Answers
<1>2. /\ SendCreateApplication.path = <<"applications">>
      /\ SendCreateApplication.method = "POST"
  BY DEF SendCreateApplication, Post, Send
<1>3. HandleCreateApplication.params.path = <<>>
  BY DEF HandleCreateApplication, Handler, NoParams, NoQuery, Params
<1>4. PathNames(HandleCreateApplication.params) = {}
  BY <1>3 DEF PathNames
<1>5. ApplicationRoutes.ops.POST = "CreateApplication" /\ "POST" \in DOMAIN ApplicationRoutes.ops
  BY DEF ApplicationRoutes, ThenParam, Branch, Leaf
<1>6. DOMAIN <<>> = {}
  OBVIOUS
<1>7. ASSUME NEW args, DOMAIN args = PathNames(HandleCreateApplication.params),
             NEW at, at = Found(PathOf(SendCreateApplication.path, args))
      PROVE  at.node = ApplicationRoutes
  BY <1>2, <1>4, <1>7, ApplicationsPath
<1>8. Finds("CreateApplication")
  BY <1>1, <1>2, <1>3, <1>5, <1>6, <1>7 DEF Finds
<1>9. Agrees("CreateApplication")
  BY <1>1 DEF Agrees, SendCreateApplication, Post, Send, CreateApplicationAnswer, HandleCreateApplication, Handler, NoParams, NoQuery, Params, NoContent, Answer
<1> QED
  BY <1>8, <1>9

LEMMA ListApplicationsFinds == Finds("ListApplications") /\ Agrees("ListApplications")
<1>1. Sends["ListApplications"] = SendListApplications /\ Handlers["ListApplications"] = HandleListApplications
      /\ Answers["ListApplications"] = ListApplicationsAnswer
  BY DEF Sends, Handlers, Answers
<1>2. /\ SendListApplications.path = <<"applications">>
      /\ SendListApplications.method = "GET"
  BY DEF SendListApplications, Get, Send
<1>3. HandleListApplications.params.path = <<>>
  BY DEF HandleListApplications, Handler, ListApplicationsParams, Params
<1>4. PathNames(HandleListApplications.params) = {}
  BY <1>3 DEF PathNames
<1>5. ApplicationRoutes.ops.GET = "ListApplications" /\ "GET" \in DOMAIN ApplicationRoutes.ops
  BY DEF ApplicationRoutes, ThenParam, Branch, Leaf
<1>6. DOMAIN <<>> = {}
  OBVIOUS
<1>7. ASSUME NEW args, DOMAIN args = PathNames(HandleListApplications.params),
             NEW at, at = Found(PathOf(SendListApplications.path, args))
      PROVE  at.node = ApplicationRoutes
  BY <1>2, <1>4, <1>7, ApplicationsPath
<1>8. Finds("ListApplications")
  BY <1>1, <1>2, <1>3, <1>5, <1>6, <1>7 DEF Finds
<1>9. Agrees("ListApplications")
  BY <1>1 DEF Agrees, SendListApplications, Get, Send, ListApplicationsAnswer, HandleListApplications, Handler, ListApplicationsParams, Params, NoQuery, NoContent, Answer
<1> QED
  BY <1>8, <1>9

LEMMA GetApplicationFinds == Finds("GetApplication") /\ Agrees("GetApplication")
<1>1. Sends["GetApplication"] = SendGetApplication /\ Handlers["GetApplication"] = HandleGetApplication
      /\ Answers["GetApplication"] = GetApplicationAnswer
  BY DEF Sends, Handlers, Answers
<1>2. /\ SendGetApplication.path = <<"applications", "applicationID">>
      /\ SendGetApplication.method = "GET"
  BY DEF SendGetApplication, Get, Send
<1>3. HandleGetApplication.params.path = <<"applicationID">>
  BY DEF HandleGetApplication, Handler, GetApplicationParams, Params
<1>4. PathNames(HandleGetApplication.params) = {"applicationID"}
  BY <1>3 DEF PathNames
<1>5. ApplicationRoutes.param[1].ops.GET = "GetApplication" /\ "GET" \in DOMAIN ApplicationRoutes.param[1].ops
  BY DEF ApplicationRoutes, ThenParam, Branch, Leaf
<1>6. \A i \in DOMAIN <<"applicationID">> : i = 1
  OBVIOUS
<1>7. ASSUME NEW args, DOMAIN args = PathNames(HandleGetApplication.params),
             NEW at, at = Found(PathOf(SendGetApplication.path, args))
      PROVE  /\ at.node = ApplicationRoutes.param[1]
             /\ \A i \in DOMAIN <<"applicationID">> :
                    at.args[i] = [value |-> args[<<"applicationID">>[i]]]
  <2>1. /\ at.node = ApplicationRoutes.param[1]
        /\ at.args[1] = [value |-> args.applicationID]
    BY <1>2, <1>4, <1>7, ApplicationPath
  <2> QED
    BY <1>6, <2>1
<1>8. Finds("GetApplication")
  BY <1>1, <1>2, <1>3, <1>5, <1>6, <1>7 DEF Finds
<1>9. Agrees("GetApplication")
  BY <1>1 DEF Agrees, SendGetApplication, Get, Send, GetApplicationAnswer, HandleGetApplication, Handler, GetApplicationParams, Params, NoQuery, NoContent, Answer
<1> QED
  BY <1>8, <1>9

LEMMA UpdateApplicationFinds == Finds("UpdateApplication") /\ Agrees("UpdateApplication")
<1>1. Sends["UpdateApplication"] = SendUpdateApplication /\ Handlers["UpdateApplication"] = HandleUpdateApplication
      /\ Answers["UpdateApplication"] = UpdateApplicationAnswer
  BY DEF Sends, Handlers, Answers
<1>2. /\ SendUpdateApplication.path = <<"applications", "applicationID">>
      /\ SendUpdateApplication.method = "PUT"
  BY DEF SendUpdateApplication, Put, Send
<1>3. HandleUpdateApplication.params.path = <<"applicationID">>
  BY DEF HandleUpdateApplication, Handler, UpdateApplicationParams, Params
<1>4. PathNames(HandleUpdateApplication.params) = {"applicationID"}
  BY <1>3 DEF PathNames
<1>5. ApplicationRoutes.param[1].ops.PUT = "UpdateApplication" /\ "PUT" \in DOMAIN ApplicationRoutes.param[1].ops
  BY DEF ApplicationRoutes, ThenParam, Branch, Leaf
<1>6. \A i \in DOMAIN <<"applicationID">> : i = 1
  OBVIOUS
<1>7. ASSUME NEW args, DOMAIN args = PathNames(HandleUpdateApplication.params),
             NEW at, at = Found(PathOf(SendUpdateApplication.path, args))
      PROVE  /\ at.node = ApplicationRoutes.param[1]
             /\ \A i \in DOMAIN <<"applicationID">> :
                    at.args[i] = [value |-> args[<<"applicationID">>[i]]]
  <2>1. /\ at.node = ApplicationRoutes.param[1]
        /\ at.args[1] = [value |-> args.applicationID]
    BY <1>2, <1>4, <1>7, ApplicationPath
  <2> QED
    BY <1>6, <2>1
<1>8. Finds("UpdateApplication")
  BY <1>1, <1>2, <1>3, <1>5, <1>6, <1>7 DEF Finds
<1>9. Agrees("UpdateApplication")
  BY <1>1 DEF Agrees, SendUpdateApplication, Put, Send, UpdateApplicationAnswer, HandleUpdateApplication, Handler, UpdateApplicationParams, Params, NoQuery, NoContent, Answer
<1> QED
  BY <1>8, <1>9

LEMMA DeleteApplicationFinds == Finds("DeleteApplication") /\ Agrees("DeleteApplication")
<1>1. Sends["DeleteApplication"] = SendDeleteApplication /\ Handlers["DeleteApplication"] = HandleDeleteApplication
      /\ Answers["DeleteApplication"] = DeleteApplicationAnswer
  BY DEF Sends, Handlers, Answers
<1>2. /\ SendDeleteApplication.path = <<"applications", "applicationID">>
      /\ SendDeleteApplication.method = "DELETE"
  BY DEF SendDeleteApplication, Delete, Send
<1>3. HandleDeleteApplication.params.path = <<"applicationID">>
  BY DEF HandleDeleteApplication, Handler, DeleteApplicationParams, Params
<1>4. PathNames(HandleDeleteApplication.params) = {"applicationID"}
  BY <1>3 DEF PathNames
<1>5. ApplicationRoutes.param[1].ops.DELETE = "DeleteApplication" /\ "DELETE" \in DOMAIN ApplicationRoutes.param[1].ops
  BY DEF ApplicationRoutes, ThenParam, Branch, Leaf
<1>6. \A i \in DOMAIN <<"applicationID">> : i = 1
  OBVIOUS
<1>7. ASSUME NEW args, DOMAIN args = PathNames(HandleDeleteApplication.params),
             NEW at, at = Found(PathOf(SendDeleteApplication.path, args))
      PROVE  /\ at.node = ApplicationRoutes.param[1]
             /\ \A i \in DOMAIN <<"applicationID">> :
                    at.args[i] = [value |-> args[<<"applicationID">>[i]]]
  <2>1. /\ at.node = ApplicationRoutes.param[1]
        /\ at.args[1] = [value |-> args.applicationID]
    BY <1>2, <1>4, <1>7, ApplicationPath
  <2> QED
    BY <1>6, <2>1
<1>8. Finds("DeleteApplication")
  BY <1>1, <1>2, <1>3, <1>5, <1>6, <1>7 DEF Finds
<1>9. Agrees("DeleteApplication")
  BY <1>1 DEF Agrees, SendDeleteApplication, Delete, Send, DeleteApplicationAnswer, HandleDeleteApplication, Handler, DeleteApplicationParams, Params, NoQuery, NoContent, Answer
<1> QED
  BY <1>8, <1>9

LEMMA GetApplicationContainersFinds == Finds("GetApplicationContainers") /\ Agrees("GetApplicationContainers")
<1>1. Sends["GetApplicationContainers"] = SendGetApplicationContainers /\ Handlers["GetApplicationContainers"] = HandleGetApplicationContainers
      /\ Answers["GetApplicationContainers"] = GetApplicationContainersAnswer
  BY DEF Sends, Handlers, Answers
<1>2. /\ SendGetApplicationContainers.path = <<"applications", "applicationID", "containers">>
      /\ SendGetApplicationContainers.method = "GET"
  BY DEF SendGetApplicationContainers, Get, Send
<1>3. HandleGetApplicationContainers.params.path = <<"applicationID">>
  BY DEF HandleGetApplicationContainers, Handler, GetApplicationContainersParams, Params
<1>4. PathNames(HandleGetApplicationContainers.params) = {"applicationID"}
  BY <1>3 DEF PathNames
<1>5. ApplicationRoutes.param[1].words.containers.ops.GET = "GetApplicationContainers" /\ "GET" \in DOMAIN ApplicationRoutes.param[1].words.containers.ops
  BY DEF ApplicationRoutes, ThenParam, Branch, Leaf
<1>6. \A i \in DOMAIN <<"applicationID">> : i = 1
  OBVIOUS
<1>7. ASSUME NEW args, DOMAIN args = PathNames(HandleGetApplicationContainers.params),
             NEW at, at = Found(PathOf(SendGetApplicationContainers.path, args))
      PROVE  /\ at.node = ApplicationRoutes.param[1].words.containers
             /\ \A i \in DOMAIN <<"applicationID">> :
                    at.args[i] = [value |-> args[<<"applicationID">>[i]]]
  <2>1. /\ at.node = ApplicationRoutes.param[1].words.containers
        /\ at.args[1] = [value |-> args.applicationID]
    BY <1>2, <1>4, <1>7, ContainersPath
  <2> QED
    BY <1>6, <2>1
<1>8. Finds("GetApplicationContainers")
  BY <1>1, <1>2, <1>3, <1>5, <1>6, <1>7 DEF Finds
<1>9. Agrees("GetApplicationContainers")
  BY <1>1 DEF Agrees, SendGetApplicationContainers, Get, Send, GetApplicationContainersAnswer, HandleGetApplicationContainers, Handler, GetApplicationContainersParams, Params, NoQuery, NoContent, Answer
<1> QED
  BY <1>8, <1>9

LEMMA CreateApplicationVersionFinds == Finds("CreateApplicationVersion") /\ Agrees("CreateApplicationVersion")
<1>1. Sends["CreateApplicationVersion"] = SendCreateApplicationVersion /\ Handlers["CreateApplicationVersion"] = HandleCreateApplicationVersion
      /\ Answers["CreateApplicationVersion"] = CreateApplicationVersionAnswer
  BY DEF Sends, Handlers, Answers
<1>2. /\ SendCreateApplicationVersion.path = <<"applications", "applicationID", "versions">>
      /\ SendCreateApplicationVersion.method = "POST"
  BY DEF SendCreateApplicationVersion, Post, Send
<1>3. HandleCreateApplicationVersion.params.path = <<"applicationID">>
  BY DEF HandleCreateApplicationVersion, Handler, CreateApplicationVersionParams, Params
<1>4. PathNames(HandleCreateApplicationVersion.params) = {"applicationID"}
  BY <1>3 DEF PathNames
<1>5. VersionRoutes.ops.POST = "CreateApplicationVersion" /\ "POST" \in DOMAIN VersionRoutes.ops
  BY DEF VersionRoutes, ThenParam, Branch, Leaf
<1>6. \A i \in DOMAIN <<"applicationID">> : i = 1
  OBVIOUS
<1>7. ASSUME NEW args, DOMAIN args = PathNames(HandleCreateApplicationVersion.params),
             NEW at, at = Found(PathOf(SendCreateApplicationVersion.path, args))
      PROVE  /\ at.node = VersionRoutes
             /\ \A i \in DOMAIN <<"applicationID">> :
                    at.args[i] = [value |-> args[<<"applicationID">>[i]]]
  <2>1. /\ at.node = VersionRoutes
        /\ at.args[1] = [value |-> args.applicationID]
    BY <1>2, <1>4, <1>7, VersionsPath
  <2> QED
    BY <1>6, <2>1
<1>8. Finds("CreateApplicationVersion")
  BY <1>1, <1>2, <1>3, <1>5, <1>6, <1>7 DEF Finds
<1>9. Agrees("CreateApplicationVersion")
  BY <1>1 DEF Agrees, SendCreateApplicationVersion, Post, Send, CreateApplicationVersionAnswer, HandleCreateApplicationVersion, Handler, CreateApplicationVersionParams, Params, NoQuery, NoContent, Answer
<1> QED
  BY <1>8, <1>9

LEMMA ListApplicationVersionsFinds == Finds("ListApplicationVersions") /\ Agrees("ListApplicationVersions")
<1>1. Sends["ListApplicationVersions"] = SendListApplicationVersions /\ Handlers["ListApplicationVersions"] = HandleListApplicationVersions
      /\ Answers["ListApplicationVersions"] = ListApplicationVersionsAnswer
  BY DEF Sends, Handlers, Answers
<1>2. /\ SendListApplicationVersions.path = <<"applications", "applicationID", "versions">>
      /\ SendListApplicationVersions.method = "GET"
  BY DEF SendListApplicationVersions, Get, Send
<1>3. HandleListApplicationVersions.params.path = <<"applicationID">>
  BY DEF HandleListApplicationVersions, Handler, ListApplicationVersionsParams, Params
<1>4. PathNames(HandleListApplicationVersions.params) = {"applicationID"}
  BY <1>3 DEF PathNames
<1>5. VersionRoutes.ops.GET = "ListApplicationVersions" /\ "GET" \in DOMAIN VersionRoutes.ops
  BY DEF VersionRoutes, ThenParam, Branch, Leaf
<1>6. \A i \in DOMAIN <<"applicationID">> : i = 1
  OBVIOUS
<1>7. ASSUME NEW args, DOMAIN args = PathNames(HandleListApplicationVersions.params),
             NEW at, at = Found(PathOf(SendListApplicationVersions.path, args))
      PROVE  /\ at.node = VersionRoutes
             /\ \A i \in DOMAIN <<"applicationID">> :
                    at.args[i] = [value |-> args[<<"applicationID">>[i]]]
  <2>1. /\ at.node = VersionRoutes
        /\ at.args[1] = [value |-> args.applicationID]
    BY <1>2, <1>4, <1>7, VersionsPath
  <2> QED
    BY <1>6, <2>1
<1>8. Finds("ListApplicationVersions")
  BY <1>1, <1>2, <1>3, <1>5, <1>6, <1>7 DEF Finds
<1>9. Agrees("ListApplicationVersions")
  BY <1>1 DEF Agrees, SendListApplicationVersions, Get, Send, ListApplicationVersionsAnswer, HandleListApplicationVersions, Handler, ListApplicationVersionsParams, Params, NoQuery, NoContent, Answer
<1> QED
  BY <1>8, <1>9

LEMMA GetApplicationVersionFinds == Finds("GetApplicationVersion") /\ Agrees("GetApplicationVersion")
<1>1. Sends["GetApplicationVersion"] = SendGetApplicationVersion /\ Handlers["GetApplicationVersion"] = HandleGetApplicationVersion
      /\ Answers["GetApplicationVersion"] = GetApplicationVersionAnswer
  BY DEF Sends, Handlers, Answers
<1>2. /\ SendGetApplicationVersion.path = <<"applications", "applicationID", "versions", "version">>
      /\ SendGetApplicationVersion.method = "GET"
  BY DEF SendGetApplicationVersion, Get, Send
<1>3. HandleGetApplicationVersion.params.path = <<"applicationID", "version">>
  BY DEF HandleGetApplicationVersion, Handler, GetApplicationVersionParams, Params
<1>4. PathNames(HandleGetApplicationVersion.params) = {"applicationID", "version"}
  BY <1>3 DEF PathNames
<1>5. VersionRoutes.param[1].ops.GET = "GetApplicationVersion" /\ "GET" \in DOMAIN VersionRoutes.param[1].ops
  BY DEF VersionRoutes, ThenParam, Branch, Leaf
<1>6. \A i \in DOMAIN <<"applicationID", "version">> : i = 1 \/ i = 2
  OBVIOUS
<1>7. ASSUME NEW args, DOMAIN args = PathNames(HandleGetApplicationVersion.params),
             NEW at, at = Found(PathOf(SendGetApplicationVersion.path, args))
      PROVE  /\ at.node = VersionRoutes.param[1]
             /\ \A i \in DOMAIN <<"applicationID", "version">> :
                    at.args[i] = [value |-> args[<<"applicationID", "version">>[i]]]
  <2>1. /\ at.node = VersionRoutes.param[1]
        /\ at.args[1] = [value |-> args.applicationID] /\ at.args[2] = [value |-> args.version]
    BY <1>2, <1>4, <1>7, VersionPath
  <2> QED
    BY <1>6, <2>1
<1>8. Finds("GetApplicationVersion")
  BY <1>1, <1>2, <1>3, <1>5, <1>6, <1>7 DEF Finds
<1>9. Agrees("GetApplicationVersion")
  BY <1>1 DEF Agrees, SendGetApplicationVersion, Get, Send, GetApplicationVersionAnswer, HandleGetApplicationVersion, Handler, GetApplicationVersionParams, Params, NoQuery, NoContent, Answer
<1> QED
  BY <1>8, <1>9

LEMMA DeleteApplicationVersionFinds == Finds("DeleteApplicationVersion") /\ Agrees("DeleteApplicationVersion")
<1>1. Sends["DeleteApplicationVersion"] = SendDeleteApplicationVersion /\ Handlers["DeleteApplicationVersion"] = HandleDeleteApplicationVersion
      /\ Answers["DeleteApplicationVersion"] = DeleteApplicationVersionAnswer
  BY DEF Sends, Handlers, Answers
<1>2. /\ SendDeleteApplicationVersion.path = <<"applications", "applicationID", "versions", "version">>
      /\ SendDeleteApplicationVersion.method = "DELETE"
  BY DEF SendDeleteApplicationVersion, Delete, Send
<1>3. HandleDeleteApplicationVersion.params.path = <<"applicationID", "version">>
  BY DEF HandleDeleteApplicationVersion, Handler, DeleteApplicationVersionParams, Params
<1>4. PathNames(HandleDeleteApplicationVersion.params) = {"applicationID", "version"}
  BY <1>3 DEF PathNames
<1>5. VersionRoutes.param[1].ops.DELETE = "DeleteApplicationVersion" /\ "DELETE" \in DOMAIN VersionRoutes.param[1].ops
  BY DEF VersionRoutes, ThenParam, Branch, Leaf
<1>6. \A i \in DOMAIN <<"applicationID", "version">> : i = 1 \/ i = 2
  OBVIOUS
<1>7. ASSUME NEW args, DOMAIN args = PathNames(HandleDeleteApplicationVersion.params),
             NEW at, at = Found(PathOf(SendDeleteApplicationVersion.path, args))
      PROVE  /\ at.node = VersionRoutes.param[1]
             /\ \A i \in DOMAIN <<"applicationID", "version">> :
                    at.args[i] = [value |-> args[<<"applicationID", "version">>[i]]]
  <2>1. /\ at.node = VersionRoutes.param[1]
        /\ at.args[1] = [value |-> args.applicationID] /\ at.args[2] = [value |-> args.version]
    BY <1>2, <1>4, <1>7, VersionPath
  <2> QED
    BY <1>6, <2>1
<1>8. Finds("DeleteApplicationVersion")
  BY <1>1, <1>2, <1>3, <1>5, <1>6, <1>7 DEF Finds
<1>9. Agrees("DeleteApplicationVersion")
  BY <1>1 DEF Agrees, SendDeleteApplicationVersion, Delete, Send, DeleteApplicationVersionAnswer, HandleDeleteApplicationVersion, Handler, DeleteApplicationVersionParams, Params, NoQuery, NoContent, Answer
<1> QED
  BY <1>8, <1>9

LEMMA CreateAutoScalingGroupFinds == Finds("CreateAutoScalingGroup") /\ Agrees("CreateAutoScalingGroup")
<1>1. Sends["CreateAutoScalingGroup"] = SendCreateAutoScalingGroup /\ Handlers["CreateAutoScalingGroup"] = HandleCreateAutoScalingGroup
      /\ Answers["CreateAutoScalingGroup"] = CreateAutoScalingGroupAnswer
  BY DEF Sends, Handlers, Answers
<1>2. /\ SendCreateAutoScalingGroup.path = <<"clusters", "clusterID", "asg">>
      /\ SendCreateAutoScalingGroup.method = "POST"
  BY DEF SendCreateAutoScalingGroup, Post, Send
<1>3. HandleCreateAutoScalingGroup.params.path = <<"clusterID">>
  BY DEF HandleCreateAutoScalingGroup, Handler, CreateAutoScalingGroupParams, Params
<1>4. PathNames(HandleCreateAutoScalingGroup.params) = {"clusterID"}
  BY <1>3 DEF PathNames
<1>5. AutoScalingGroupRoutes.ops.POST = "CreateAutoScalingGroup" /\ "POST" \in DOMAIN AutoScalingGroupRoutes.ops
  BY DEF AutoScalingGroupRoutes, ThenParam, Branch, Leaf
<1>6. \A i \in DOMAIN <<"clusterID">> : i = 1
  OBVIOUS
<1>7. ASSUME NEW args, DOMAIN args = PathNames(HandleCreateAutoScalingGroup.params),
             NEW at, at = Found(PathOf(SendCreateAutoScalingGroup.path, args))
      PROVE  /\ at.node = AutoScalingGroupRoutes
             /\ \A i \in DOMAIN <<"clusterID">> :
                    at.args[i] = [value |-> args[<<"clusterID">>[i]]]
  <2>1. /\ at.node = AutoScalingGroupRoutes
        /\ at.args[1] = [value |-> args.clusterID]
    BY <1>2, <1>4, <1>7, GroupsPath
  <2> QED
    BY <1>6, <2>1
<1>8. Finds("CreateAutoScalingGroup")
  BY <1>1, <1>2, <1>3, <1>5, <1>6, <1>7 DEF Finds
<1>9. Agrees("CreateAutoScalingGroup")
  BY <1>1 DEF Agrees, SendCreateAutoScalingGroup, Post, Send, CreateAutoScalingGroupAnswer, HandleCreateAutoScalingGroup, Handler, CreateAutoScalingGroupParams, Params, NoQuery, NoContent, Answer
<1> QED
  BY <1>8, <1>9

LEMMA ListAutoScalingGroupsFinds == Finds("ListAutoScalingGroups") /\ Agrees("ListAutoScalingGroups")
<1>1. Sends["ListAutoScalingGroups"] = SendListAutoScalingGroups /\ Handlers["ListAutoScalingGroups"] = HandleListAutoScalingGroups
      /\ Answers["ListAutoScalingGroups"] = ListAutoScalingGroupsAnswer
  BY DEF Sends, Handlers, Answers
<1>2. /\ SendListAutoScalingGroups.path = <<"clusters", "clusterID", "asg">>
      /\ SendListAutoScalingGroups.method = "GET"
  BY DEF SendListAutoScalingGroups, Get, Send
<1>3. HandleListAutoScalingGroups.params.path = <<"clusterID">>
  BY DEF HandleListAutoScalingGroups, Handler, ListAutoScalingGroupsParams, Params
<1>4. PathNames(HandleListAutoScalingGroups.params) = {"clusterID"}
  BY <1>3 DEF PathNames
<1>5. AutoScalingGroupRoutes.ops.GET = "ListAutoScalingGroups" /\ "GET" \in DOMAIN AutoScalingGroupRoutes.ops
  BY DEF AutoScalingGroupRoutes, ThenParam, Branch, Leaf
<1>6. \A i \in DOMAIN <<"clusterID">> : i = 1
  OBVIOUS
<1>7. ASSUME NEW args, DOMAIN args = PathNames(HandleListAutoScalingGroups.params),
             NEW at, at = Found(PathOf(SendListAutoScalingGroups.path, args))
      PROVE  /\ at.node = AutoScalingGroupRoutes
             /\ \A i \in DOMAIN <<"clusterID">> :
                    at.args[i] = [value |-> args[<<"clusterID">>[i]]]
  <2>1. /\ at.node = AutoScalingGroupRoutes
        /\ at.args[1] = [value |-> args.clusterID]
    BY <1>2, <1>4, <1>7, GroupsPath
  <2> QED
    BY <1>6, <2>1
<1>8. Finds("ListAutoScalingGroups")
  BY <1>1, <1>2, <1>3, <1>5, <1>6, <1>7 DEF Finds
<1>9. Agrees("ListAutoScalingGroups")
  BY <1>1 DEF Agrees, SendListAutoScalingGroups, Get, Send, ListAutoScalingGroupsAnswer, HandleListAutoScalingGroups, Handler, ListAutoScalingGroupsParams, Params, NoQuery, NoContent, Answer
<1> QED
  BY <1>8, <1>9

LEMMA GetAutoScalingGroupFinds == Finds("GetAutoScalingGroup") /\ Agrees("GetAutoScalingGroup")
<1>1. Sends["GetAutoScalingGroup"] = SendGetAutoScalingGroup /\ Handlers["GetAutoScalingGroup"] = HandleGetAutoScalingGroup
      /\ Answers["GetAutoScalingGroup"] = GetAutoScalingGroupAnswer
  BY DEF Sends, Handlers, Answers
<1>2. /\ SendGetAutoScalingGroup.path = <<"clusters", "clusterID", "asg", "autoScalingGroupID">>
      /\ SendGetAutoScalingGroup.method = "GET"
  BY DEF SendGetAutoScalingGroup, Get, Send
<1>3. HandleGetAutoScalingGroup.params.path = <<"clusterID", "autoScalingGroupID">>
  BY DEF HandleGetAutoScalingGroup, Handler, GetAutoScalingGroupParams, Params
<1>4. PathNames(HandleGetAutoScalingGroup.params) = {"clusterID", "autoScalingGroupID"}
  BY <1>3 DEF PathNames
<1>5. AutoScalingGroupRoutes.param[1].ops.GET = "GetAutoScalingGroup" /\ "GET" \in DOMAIN AutoScalingGroupRoutes.param[1].ops
  BY DEF AutoScalingGroupRoutes, ThenParam, Branch, Leaf
<1>6. \A i \in DOMAIN <<"clusterID", "autoScalingGroupID">> : i = 1 \/ i = 2
  OBVIOUS
<1>7. ASSUME NEW args, DOMAIN args = PathNames(HandleGetAutoScalingGroup.params),
             NEW at, at = Found(PathOf(SendGetAutoScalingGroup.path, args))
      PROVE  /\ at.node = AutoScalingGroupRoutes.param[1]
             /\ \A i \in DOMAIN <<"clusterID", "autoScalingGroupID">> :
                    at.args[i] = [value |-> args[<<"clusterID", "autoScalingGroupID">>[i]]]
  <2>1. /\ at.node = AutoScalingGroupRoutes.param[1]
        /\ at.args[1] = [value |-> args.clusterID] /\ at.args[2] = [value |-> args.autoScalingGroupID]
    BY <1>2, <1>4, <1>7, GroupPath
  <2> QED
    BY <1>6, <2>1
<1>8. Finds("GetAutoScalingGroup")
  BY <1>1, <1>2, <1>3, <1>5, <1>6, <1>7 DEF Finds
<1>9. Agrees("GetAutoScalingGroup")
  BY <1>1 DEF Agrees, SendGetAutoScalingGroup, Get, Send, GetAutoScalingGroupAnswer, HandleGetAutoScalingGroup, Handler, GetAutoScalingGroupParams, Params, NoQuery, NoContent, Answer
<1> QED
  BY <1>8, <1>9

LEMMA DeleteAutoScalingGroupFinds == Finds("DeleteAutoScalingGroup") /\ Agrees("DeleteAutoScalingGroup")
<1>1. Sends["DeleteAutoScalingGroup"] = SendDeleteAutoScalingGroup /\ Handlers["DeleteAutoScalingGroup"] = HandleDeleteAutoScalingGroup
      /\ Answers["DeleteAutoScalingGroup"] = DeleteAutoScalingGroupAnswer
  BY DEF Sends, Handlers, Answers
<1>2. /\ SendDeleteAutoScalingGroup.path = <<"clusters", "clusterID", "asg", "autoScalingGroupID">>
      /\ SendDeleteAutoScalingGroup.method = "DELETE"
  BY DEF SendDeleteAutoScalingGroup, Delete, Send
<1>3. HandleDeleteAutoScalingGroup.params.path = <<"clusterID", "autoScalingGroupID">>
  BY DEF HandleDeleteAutoScalingGroup, Handler, DeleteAutoScalingGroupParams, Params
<1>4. PathNames(HandleDeleteAutoScalingGroup.params) = {"clusterID", "autoScalingGroupID"}
  BY <1>3 DEF PathNames
<1>5. AutoScalingGroupRoutes.param[1].ops.DELETE = "DeleteAutoScalingGroup" /\ "DELETE" \in DOMAIN AutoScalingGroupRoutes.param[1].ops
  BY DEF AutoScalingGroupRoutes, ThenParam, Branch, Leaf
<1>6. \A i \in DOMAIN <<"clusterID", "autoScalingGroupID">> : i = 1 \/ i = 2
  OBVIOUS
<1>7. ASSUME NEW args, DOMAIN args = PathNames(HandleDeleteAutoScalingGroup.params),
             NEW at, at = Found(PathOf(SendDeleteAutoScalingGroup.path, args))
      PROVE  /\ at.node = AutoScalingGroupRoutes.param[1]
             /\ \A i \in DOMAIN <<"clusterID", "autoScalingGroupID">> :
                    at.args[i] = [value |-> args[<<"clusterID", "autoScalingGroupID">>[i]]]
  <2>1. /\ at.node = AutoScalingGroupRoutes.param[1]
        /\ at.args[1] = [value |-> args.clusterID] /\ at.args[2] = [value |-> args.autoScalingGroupID]
    BY <1>2, <1>4, <1>7, GroupPath
  <2> QED
    BY <1>6, <2>1
<1>8. Finds("DeleteAutoScalingGroup")
  BY <1>1, <1>2, <1>3, <1>5, <1>6, <1>7 DEF Finds
<1>9. Agrees("DeleteAutoScalingGroup")
  BY <1>1 DEF Agrees, SendDeleteAutoScalingGroup, Delete, Send, DeleteAutoScalingGroupAnswer, HandleDeleteAutoScalingGroup, Handler, DeleteAutoScalingGroupParams, Params, NoQuery, NoContent, Answer
<1> QED
  BY <1>8, <1>9

LEMMA ListWorkerNodesFinds == Finds("ListWorkerNodes") /\ Agrees("ListWorkerNodes")
<1>1. Sends["ListWorkerNodes"] = SendListWorkerNodes /\ Handlers["ListWorkerNodes"] = HandleListWorkerNodes
      /\ Answers["ListWorkerNodes"] = ListWorkerNodesAnswer
  BY DEF Sends, Handlers, Answers
<1>2. /\ SendListWorkerNodes.path = <<"clusters", "clusterID", "asg", "autoScalingGroupID", "worker_nodes">>
      /\ SendListWorkerNodes.method = "GET"
  BY DEF SendListWorkerNodes, Get, Send
<1>3. HandleListWorkerNodes.params.path = <<"clusterID", "autoScalingGroupID">>
  BY DEF HandleListWorkerNodes, Handler, ListWorkerNodesParams, Params
<1>4. PathNames(HandleListWorkerNodes.params) = {"clusterID", "autoScalingGroupID"}
  BY <1>3 DEF PathNames
<1>5. WorkerNodeRoutes.ops.GET = "ListWorkerNodes" /\ "GET" \in DOMAIN WorkerNodeRoutes.ops
  BY DEF WorkerNodeRoutes, ThenParam, Branch, Leaf
<1>6. \A i \in DOMAIN <<"clusterID", "autoScalingGroupID">> : i = 1 \/ i = 2
  OBVIOUS
<1>7. ASSUME NEW args, DOMAIN args = PathNames(HandleListWorkerNodes.params),
             NEW at, at = Found(PathOf(SendListWorkerNodes.path, args))
      PROVE  /\ at.node = WorkerNodeRoutes
             /\ \A i \in DOMAIN <<"clusterID", "autoScalingGroupID">> :
                    at.args[i] = [value |-> args[<<"clusterID", "autoScalingGroupID">>[i]]]
  <2>1. /\ at.node = WorkerNodeRoutes
        /\ at.args[1] = [value |-> args.clusterID] /\ at.args[2] = [value |-> args.autoScalingGroupID]
    BY <1>2, <1>4, <1>7, WorkerNodesPath
  <2> QED
    BY <1>6, <2>1
<1>8. Finds("ListWorkerNodes")
  BY <1>1, <1>2, <1>3, <1>5, <1>6, <1>7 DEF Finds
<1>9. Agrees("ListWorkerNodes")
  BY <1>1 DEF Agrees, SendListWorkerNodes, Get, Send, ListWorkerNodesAnswer, HandleListWorkerNodes, Handler, ListWorkerNodesParams, Params, NoQuery, NoContent, Answer
<1> QED
  BY <1>8, <1>9

LEMMA GetWorkerNodeFinds == Finds("GetWorkerNode") /\ Agrees("GetWorkerNode")
<1>1. Sends["GetWorkerNode"] = SendGetWorkerNode /\ Handlers["GetWorkerNode"] = HandleGetWorkerNode
      /\ Answers["GetWorkerNode"] = GetWorkerNodeAnswer
  BY DEF Sends, Handlers, Answers
<1>2. /\ SendGetWorkerNode.path = <<"clusters", "clusterID", "asg", "autoScalingGroupID", "worker_nodes", "workerNodeID">>
      /\ SendGetWorkerNode.method = "GET"
  BY DEF SendGetWorkerNode, Get, Send
<1>3. HandleGetWorkerNode.params.path = <<"clusterID", "autoScalingGroupID", "workerNodeID">>
  BY DEF HandleGetWorkerNode, Handler, GetWorkerNodeParams, Params
<1>4. PathNames(HandleGetWorkerNode.params) = {"clusterID", "autoScalingGroupID", "workerNodeID"}
  BY <1>3 DEF PathNames
<1>5. WorkerNodeRoutes.param[1].ops.GET = "GetWorkerNode" /\ "GET" \in DOMAIN WorkerNodeRoutes.param[1].ops
  BY DEF WorkerNodeRoutes, ThenParam, Branch, Leaf
<1>6. \A i \in DOMAIN <<"clusterID", "autoScalingGroupID", "workerNodeID">> : i = 1 \/ i = 2 \/ i = 3
  OBVIOUS
<1>7. ASSUME NEW args, DOMAIN args = PathNames(HandleGetWorkerNode.params),
             NEW at, at = Found(PathOf(SendGetWorkerNode.path, args))
      PROVE  /\ at.node = WorkerNodeRoutes.param[1]
             /\ \A i \in DOMAIN <<"clusterID", "autoScalingGroupID", "workerNodeID">> :
                    at.args[i] = [value |-> args[<<"clusterID", "autoScalingGroupID", "workerNodeID">>[i]]]
  <2>1. /\ at.node = WorkerNodeRoutes.param[1]
        /\ at.args[1] = [value |-> args.clusterID] /\ at.args[2] = [value |-> args.autoScalingGroupID] /\ at.args[3] = [value |-> args.workerNodeID]
    BY <1>2, <1>4, <1>7, WorkerNodePath
  <2> QED
    BY <1>6, <2>1
<1>8. Finds("GetWorkerNode")
  BY <1>1, <1>2, <1>3, <1>5, <1>6, <1>7 DEF Finds
<1>9. Agrees("GetWorkerNode")
  BY <1>1 DEF Agrees, SendGetWorkerNode, Get, Send, GetWorkerNodeAnswer, HandleGetWorkerNode, Handler, GetWorkerNodeParams, Params, NoQuery, NoContent, Answer
<1> QED
  BY <1>8, <1>9

LEMMA UpdateWorkerNodeDrainingStateFinds == Finds("UpdateWorkerNodeDrainingState") /\ Agrees("UpdateWorkerNodeDrainingState")
<1>1. Sends["UpdateWorkerNodeDrainingState"] = SendUpdateWorkerNodeDrainingState /\ Handlers["UpdateWorkerNodeDrainingState"] = HandleUpdateWorkerNodeDrainingState
      /\ Answers["UpdateWorkerNodeDrainingState"] = UpdateWorkerNodeDrainingStateAnswer
  BY DEF Sends, Handlers, Answers
<1>2. /\ SendUpdateWorkerNodeDrainingState.path = <<"clusters", "clusterID", "asg", "autoScalingGroupID", "worker_nodes", "workerNodeID", "draining">>
      /\ SendUpdateWorkerNodeDrainingState.method = "PUT"
  BY DEF SendUpdateWorkerNodeDrainingState, Put, Send
<1>3. HandleUpdateWorkerNodeDrainingState.params.path = <<"clusterID", "autoScalingGroupID", "workerNodeID">>
  BY DEF HandleUpdateWorkerNodeDrainingState, Handler, UpdateWorkerNodeDrainingStateParams, Params
<1>4. PathNames(HandleUpdateWorkerNodeDrainingState.params) = {"clusterID", "autoScalingGroupID", "workerNodeID"}
  BY <1>3 DEF PathNames
<1>5. WorkerNodeRoutes.param[1].words.draining.ops.PUT = "UpdateWorkerNodeDrainingState" /\ "PUT" \in DOMAIN WorkerNodeRoutes.param[1].words.draining.ops
  BY DEF WorkerNodeRoutes, ThenParam, Branch, Leaf
<1>6. \A i \in DOMAIN <<"clusterID", "autoScalingGroupID", "workerNodeID">> : i = 1 \/ i = 2 \/ i = 3
  OBVIOUS
<1>7. ASSUME NEW args, DOMAIN args = PathNames(HandleUpdateWorkerNodeDrainingState.params),
             NEW at, at = Found(PathOf(SendUpdateWorkerNodeDrainingState.path, args))
      PROVE  /\ at.node = WorkerNodeRoutes.param[1].words.draining
             /\ \A i \in DOMAIN <<"clusterID", "autoScalingGroupID", "workerNodeID">> :
                    at.args[i] = [value |-> args[<<"clusterID", "autoScalingGroupID", "workerNodeID">>[i]]]
  <2>1. /\ at.node = WorkerNodeRoutes.param[1].words.draining
        /\ at.args[1] = [value |-> args.clusterID] /\ at.args[2] = [value |-> args.autoScalingGroupID] /\ at.args[3] = [value |-> args.workerNodeID]
    BY <1>2, <1>4, <1>7, DrainingPath
  <2> QED
    BY <1>6, <2>1
<1>8. Finds("UpdateWorkerNodeDrainingState")
  BY <1>1, <1>2, <1>3, <1>5, <1>6, <1>7 DEF Finds
<1>9. Agrees("UpdateWorkerNodeDrainingState")
  BY <1>1 DEF Agrees, SendUpdateWorkerNodeDrainingState, Put, Send, UpdateWorkerNodeDrainingStateAnswer, HandleUpdateWorkerNodeDrainingState, Handler, UpdateWorkerNodeDrainingStateParams, Params, NoQuery, NoContent, Answer
<1> QED
  BY <1>8, <1>9

LEMMA CreateLoadBalancerFinds == Finds("CreateLoadBalancer") /\ Agrees("CreateLoadBalancer")
<1>1. Sends["CreateLoadBalancer"] = SendCreateLoadBalancer /\ Handlers["CreateLoadBalancer"] = HandleCreateLoadBalancer
      /\ Answers["CreateLoadBalancer"] = CreateLoadBalancerAnswer
  BY DEF Sends, Handlers, Answers
<1>2. /\ SendCreateLoadBalancer.path = <<"clusters", "clusterID", "asg", "autoScalingGroupID", "load_balancers">>
      /\ SendCreateLoadBalancer.method = "POST"
  BY DEF SendCreateLoadBalancer, Post, Send
<1>3. HandleCreateLoadBalancer.params.path = <<"clusterID", "autoScalingGroupID">>
  BY DEF HandleCreateLoadBalancer, Handler, CreateLoadBalancerParams, Params
<1>4. PathNames(HandleCreateLoadBalancer.params) = {"clusterID", "autoScalingGroupID"}
  BY <1>3 DEF PathNames
<1>5. LoadBalancerRoutes.ops.POST = "CreateLoadBalancer" /\ "POST" \in DOMAIN LoadBalancerRoutes.ops
  BY DEF LoadBalancerRoutes, ThenParam, Branch, Leaf
<1>6. \A i \in DOMAIN <<"clusterID", "autoScalingGroupID">> : i = 1 \/ i = 2
  OBVIOUS
<1>7. ASSUME NEW args, DOMAIN args = PathNames(HandleCreateLoadBalancer.params),
             NEW at, at = Found(PathOf(SendCreateLoadBalancer.path, args))
      PROVE  /\ at.node = LoadBalancerRoutes
             /\ \A i \in DOMAIN <<"clusterID", "autoScalingGroupID">> :
                    at.args[i] = [value |-> args[<<"clusterID", "autoScalingGroupID">>[i]]]
  <2>1. /\ at.node = LoadBalancerRoutes
        /\ at.args[1] = [value |-> args.clusterID] /\ at.args[2] = [value |-> args.autoScalingGroupID]
    BY <1>2, <1>4, <1>7, LoadBalancersPath
  <2> QED
    BY <1>6, <2>1
<1>8. Finds("CreateLoadBalancer")
  BY <1>1, <1>2, <1>3, <1>5, <1>6, <1>7 DEF Finds
<1>9. Agrees("CreateLoadBalancer")
  BY <1>1 DEF Agrees, SendCreateLoadBalancer, Post, Send, CreateLoadBalancerAnswer, HandleCreateLoadBalancer, Handler, CreateLoadBalancerParams, Params, NoQuery, NoContent, Answer
<1> QED
  BY <1>8, <1>9

LEMMA ListLoadBalancersFinds == Finds("ListLoadBalancers") /\ Agrees("ListLoadBalancers")
<1>1. Sends["ListLoadBalancers"] = SendListLoadBalancers /\ Handlers["ListLoadBalancers"] = HandleListLoadBalancers
      /\ Answers["ListLoadBalancers"] = ListLoadBalancersAnswer
  BY DEF Sends, Handlers, Answers
<1>2. /\ SendListLoadBalancers.path = <<"clusters", "clusterID", "asg", "autoScalingGroupID", "load_balancers">>
      /\ SendListLoadBalancers.method = "GET"
  BY DEF SendListLoadBalancers, Get, Send
<1>3. HandleListLoadBalancers.params.path = <<"clusterID", "autoScalingGroupID">>
  BY DEF HandleListLoadBalancers, Handler, ListLoadBalancersParams, Params
<1>4. PathNames(HandleListLoadBalancers.params) = {"clusterID", "autoScalingGroupID"}
  BY <1>3 DEF PathNames
<1>5. LoadBalancerRoutes.ops.GET = "ListLoadBalancers" /\ "GET" \in DOMAIN LoadBalancerRoutes.ops
  BY DEF LoadBalancerRoutes, ThenParam, Branch, Leaf
<1>6. \A i \in DOMAIN <<"clusterID", "autoScalingGroupID">> : i = 1 \/ i = 2
  OBVIOUS
<1>7. ASSUME NEW args, DOMAIN args = PathNames(HandleListLoadBalancers.params),
             NEW at, at = Found(PathOf(SendListLoadBalancers.path, args))
      PROVE  /\ at.node = LoadBalancerRoutes
             /\ \A i \in DOMAIN <<"clusterID", "autoScalingGroupID">> :
                    at.args[i] = [value |-> args[<<"clusterID", "autoScalingGroupID">>[i]]]
  <2>1. /\ at.node = LoadBalancerRoutes
        /\ at.args[1] = [value |-> args.clusterID] /\ at.args[2] = [value |-> args.autoScalingGroupID]
    BY <1>2, <1>4, <1>7, LoadBalancersPath
  <2> QED
    BY <1>6, <2>1
<1>8. Finds("ListLoadBalancers")
  BY <1>1, <1>2, <1>3, <1>5, <1>6, <1>7 DEF Finds
<1>9. Agrees("ListLoadBalancers")
  BY <1>1 DEF Agrees, SendListLoadBalancers, Get, Send, ListLoadBalancersAnswer, HandleListLoadBalancers, Handler, ListLoadBalancersParams, Params, NoQuery, NoContent, Answer
<1> QED
  BY <1>8, <1>9

LEMMA GetLoadBalancerFinds == Finds("GetLoadBalancer") /\ Agrees("GetLoadBalancer")
<1>1. Sends["GetLoadBalancer"] = SendGetLoadBalancer /\ Handlers["GetLoadBalancer"] = HandleGetLoadBalancer
      /\ Answers["GetLoadBalancer"] = GetLoadBalancerAnswer
  BY DEF Sends, Handlers, Answers
<1>2. /\ SendGetLoadBalancer.path = <<"clusters", "clusterID", "asg", "autoScalingGroupID", "load_balancers", "loadBalancerID">>
      /\ SendGetLoadBalancer.method = "GET"
  BY DEF SendGetLoadBalancer, Get, Send
<1>3. HandleGetLoadBalancer.params.path = <<"clusterID", "autoScalingGroupID", "loadBalancerID">>
  BY DEF HandleGetLoadBalancer, Handler, GetLoadBalancerParams, Params
<1>4. PathNames(HandleGetLoadBalancer.params) = {"clusterID", "autoScalingGroupID", "loadBalancerID"}
  BY <1>3 DEF PathNames
<1>5. LoadBalancerRoutes.param[1].ops.GET = "GetLoadBalancer" /\ "GET" \in DOMAIN LoadBalancerRoutes.param[1].ops
  BY DEF LoadBalancerRoutes, ThenParam, Branch, Leaf
<1>6. \A i \in DOMAIN <<"clusterID", "autoScalingGroupID", "loadBalancerID">> : i = 1 \/ i = 2 \/ i = 3
  OBVIOUS
<1>7. ASSUME NEW args, DOMAIN args = PathNames(HandleGetLoadBalancer.params),
             NEW at, at = Found(PathOf(SendGetLoadBalancer.path, args))
      PROVE  /\ at.node = LoadBalancerRoutes.param[1]
             /\ \A i \in DOMAIN <<"clusterID", "autoScalingGroupID", "loadBalancerID">> :
                    at.args[i] = [value |-> args[<<"clusterID", "autoScalingGroupID", "loadBalancerID">>[i]]]
  <2>1. /\ at.node = LoadBalancerRoutes.param[1]
        /\ at.args[1] = [value |-> args.clusterID] /\ at.args[2] = [value |-> args.autoScalingGroupID] /\ at.args[3] = [value |-> args.loadBalancerID]
    BY <1>2, <1>4, <1>7, LoadBalancerPath
  <2> QED
    BY <1>6, <2>1
<1>8. Finds("GetLoadBalancer")
  BY <1>1, <1>2, <1>3, <1>5, <1>6, <1>7 DEF Finds
<1>9. Agrees("GetLoadBalancer")
  BY <1>1 DEF Agrees, SendGetLoadBalancer, Get, Send, GetLoadBalancerAnswer, HandleGetLoadBalancer, Handler, GetLoadBalancerParams, Params, NoQuery, NoContent, Answer
<1> QED
  BY <1>8, <1>9

LEMMA DeleteLoadBalancerFinds == Finds("DeleteLoadBalancer") /\ Agrees("DeleteLoadBalancer")
<1>1. Sends["DeleteLoadBalancer"] = SendDeleteLoadBalancer /\ Handlers["DeleteLoadBalancer"] = HandleDeleteLoadBalancer
      /\ Answers["DeleteLoadBalancer"] = DeleteLoadBalancerAnswer
  BY DEF Sends, Handlers, Answers
<1>2. /\ SendDeleteLoadBalancer.path = <<"clusters", "clusterID", "asg", "autoScalingGroupID", "load_balancers", "loadBalancerID">>
      /\ SendDeleteLoadBalancer.method = "DELETE"
  BY DEF SendDeleteLoadBalancer, Delete, Send
<1>3. HandleDeleteLoadBalancer.params.path = <<"clusterID", "autoScalingGroupID", "loadBalancerID">>
  BY DEF HandleDeleteLoadBalancer, Handler, DeleteLoadBalancerParams, Params
<1>4. PathNames(HandleDeleteLoadBalancer.params) = {"clusterID", "autoScalingGroupID", "loadBalancerID"}
  BY <1>3 DEF PathNames
<1>5. LoadBalancerRoutes.param[1].ops.DELETE = "DeleteLoadBalancer" /\ "DELETE" \in DOMAIN LoadBalancerRoutes.param[1].ops
  BY DEF LoadBalancerRoutes, ThenParam, Branch, Leaf
<1>6. \A i \in DOMAIN <<"clusterID", "autoScalingGroupID", "loadBalancerID">> : i = 1 \/ i = 2 \/ i = 3
  OBVIOUS
<1>7. ASSUME NEW args, DOMAIN args = PathNames(HandleDeleteLoadBalancer.params),
             NEW at, at = Found(PathOf(SendDeleteLoadBalancer.path, args))
      PROVE  /\ at.node = LoadBalancerRoutes.param[1]
             /\ \A i \in DOMAIN <<"clusterID", "autoScalingGroupID", "loadBalancerID">> :
                    at.args[i] = [value |-> args[<<"clusterID", "autoScalingGroupID", "loadBalancerID">>[i]]]
  <2>1. /\ at.node = LoadBalancerRoutes.param[1]
        /\ at.args[1] = [value |-> args.clusterID] /\ at.args[2] = [value |-> args.autoScalingGroupID] /\ at.args[3] = [value |-> args.loadBalancerID]
    BY <1>2, <1>4, <1>7, LoadBalancerPath
  <2> QED
    BY <1>6, <2>1
<1>8. Finds("DeleteLoadBalancer")
  BY <1>1, <1>2, <1>3, <1>5, <1>6, <1>7 DEF Finds
<1>9. Agrees("DeleteLoadBalancer")
  BY <1>1 DEF Agrees, SendDeleteLoadBalancer, Delete, Send, DeleteLoadBalancerAnswer, HandleDeleteLoadBalancer, Handler, DeleteLoadBalancerParams, Params, NoQuery, NoContent, Answer
<1> QED
  BY <1>8, <1>9

LEMMA ListLoadBalancerNodesFinds == Finds("ListLoadBalancerNodes") /\ Agrees("ListLoadBalancerNodes")
<1>1. Sends["ListLoadBalancerNodes"] = SendListLoadBalancerNodes /\ Handlers["ListLoadBalancerNodes"] = HandleListLoadBalancerNodes
      /\ Answers["ListLoadBalancerNodes"] = ListLoadBalancerNodesAnswer
  BY DEF Sends, Handlers, Answers
<1>2. /\ SendListLoadBalancerNodes.path = <<"clusters", "clusterID", "asg", "autoScalingGroupID", "load_balancers", "loadBalancerID", "load_balancer_nodes">>
      /\ SendListLoadBalancerNodes.method = "GET"
  BY DEF SendListLoadBalancerNodes, Get, Send
<1>3. HandleListLoadBalancerNodes.params.path = <<"clusterID", "autoScalingGroupID", "loadBalancerID">>
  BY DEF HandleListLoadBalancerNodes, Handler, ListLoadBalancerNodesParams, Params
<1>4. PathNames(HandleListLoadBalancerNodes.params) = {"clusterID", "autoScalingGroupID", "loadBalancerID"}
  BY <1>3 DEF PathNames
<1>5. LoadBalancerNodeRoutes.ops.GET = "ListLoadBalancerNodes" /\ "GET" \in DOMAIN LoadBalancerNodeRoutes.ops
  BY DEF LoadBalancerNodeRoutes, ThenParam, Branch, Leaf
<1>6. \A i \in DOMAIN <<"clusterID", "autoScalingGroupID", "loadBalancerID">> : i = 1 \/ i = 2 \/ i = 3
  OBVIOUS
<1>7. ASSUME NEW args, DOMAIN args = PathNames(HandleListLoadBalancerNodes.params),
             NEW at, at = Found(PathOf(SendListLoadBalancerNodes.path, args))
      PROVE  /\ at.node = LoadBalancerNodeRoutes
             /\ \A i \in DOMAIN <<"clusterID", "autoScalingGroupID", "loadBalancerID">> :
                    at.args[i] = [value |-> args[<<"clusterID", "autoScalingGroupID", "loadBalancerID">>[i]]]
  <2>1. /\ at.node = LoadBalancerNodeRoutes
        /\ at.args[1] = [value |-> args.clusterID] /\ at.args[2] = [value |-> args.autoScalingGroupID] /\ at.args[3] = [value |-> args.loadBalancerID]
    BY <1>2, <1>4, <1>7, LoadBalancerNodesPath
  <2> QED
    BY <1>6, <2>1
<1>8. Finds("ListLoadBalancerNodes")
  BY <1>1, <1>2, <1>3, <1>5, <1>6, <1>7 DEF Finds
<1>9. Agrees("ListLoadBalancerNodes")
  BY <1>1 DEF Agrees, SendListLoadBalancerNodes, Get, Send, ListLoadBalancerNodesAnswer, HandleListLoadBalancerNodes, Handler, ListLoadBalancerNodesParams, Params, NoQuery, NoContent, Answer
<1> QED
  BY <1>8, <1>9

LEMMA GetLoadBalancerNodeFinds == Finds("GetLoadBalancerNode") /\ Agrees("GetLoadBalancerNode")
<1>1. Sends["GetLoadBalancerNode"] = SendGetLoadBalancerNode /\ Handlers["GetLoadBalancerNode"] = HandleGetLoadBalancerNode
      /\ Answers["GetLoadBalancerNode"] = GetLoadBalancerNodeAnswer
  BY DEF Sends, Handlers, Answers
<1>2. /\ SendGetLoadBalancerNode.path = <<"clusters", "clusterID", "asg", "autoScalingGroupID", "load_balancers", "loadBalancerID", "load_balancer_nodes", "loadBalancerNodeID">>
      /\ SendGetLoadBalancerNode.method = "GET"
  BY DEF SendGetLoadBalancerNode, Get, Send
<1>3. HandleGetLoadBalancerNode.params.path = <<"clusterID", "autoScalingGroupID", "loadBalancerID", "loadBalancerNodeID">>
  BY DEF HandleGetLoadBalancerNode, Handler, GetLoadBalancerNodeParams, Params
<1>4. PathNames(HandleGetLoadBalancerNode.params) = {"clusterID", "autoScalingGroupID", "loadBalancerID", "loadBalancerNodeID"}
  BY <1>3 DEF PathNames
<1>5. LoadBalancerNodeRoutes.param[1].ops.GET = "GetLoadBalancerNode" /\ "GET" \in DOMAIN LoadBalancerNodeRoutes.param[1].ops
  BY DEF LoadBalancerNodeRoutes, ThenParam, Branch, Leaf
<1>6. \A i \in DOMAIN <<"clusterID", "autoScalingGroupID", "loadBalancerID", "loadBalancerNodeID">> : i = 1 \/ i = 2 \/ i = 3 \/ i = 4
  OBVIOUS
<1>7. ASSUME NEW args, DOMAIN args = PathNames(HandleGetLoadBalancerNode.params),
             NEW at, at = Found(PathOf(SendGetLoadBalancerNode.path, args))
      PROVE  /\ at.node = LoadBalancerNodeRoutes.param[1]
             /\ \A i \in DOMAIN <<"clusterID", "autoScalingGroupID", "loadBalancerID", "loadBalancerNodeID">> :
                    at.args[i] = [value |-> args[<<"clusterID", "autoScalingGroupID", "loadBalancerID", "loadBalancerNodeID">>[i]]]
  <2>1. /\ at.node = LoadBalancerNodeRoutes.param[1]
        /\ at.args[1] = [value |-> args.clusterID] /\ at.args[2] = [value |-> args.autoScalingGroupID] /\ at.args[3] = [value |-> args.loadBalancerID] /\ at.args[4] = [value |-> args.loadBalancerNodeID]
    BY <1>2, <1>4, <1>7, LoadBalancerNodePath
  <2> QED
    BY <1>6, <2>1
<1>8. Finds("GetLoadBalancerNode")
  BY <1>1, <1>2, <1>3, <1>5, <1>6, <1>7 DEF Finds
<1>9. Agrees("GetLoadBalancerNode")
  BY <1>1 DEF Agrees, SendGetLoadBalancerNode, Get, Send, GetLoadBalancerNodeAnswer, HandleGetLoadBalancerNode, Handler, GetLoadBalancerNodeParams, Params, NoQuery, NoContent, Answer
<1> QED
  BY <1>8, <1>9

LEMMA CreateCertificateFinds == Finds("CreateCertificate") /\ Agrees("CreateCertificate")
<1>1. Sends["CreateCertificate"] = SendCreateCertificate /\ Handlers["CreateCertificate"] = HandleCreateCertificate
      /\ Answers["CreateCertificate"] = CreateCertificateAnswer
  BY DEF Sends, Handlers, Answers
<1>2. /\ SendCreateCertificate.path = <<"clusters", "clusterID", "certificates">>
      /\ SendCreateCertificate.method = "POST"
  BY DEF SendCreateCertificate, Post, Send
<1>3. HandleCreateCertificate.params.path = <<"clusterID">>
  BY DEF HandleCreateCertificate, Handler, CreateCertificateParams, Params
<1>4. PathNames(HandleCreateCertificate.params) = {"clusterID"}
  BY <1>3 DEF PathNames
<1>5. CertificateRoutes.ops.POST = "CreateCertificate" /\ "POST" \in DOMAIN CertificateRoutes.ops
  BY DEF CertificateRoutes, ThenParam, Branch, Leaf
<1>6. \A i \in DOMAIN <<"clusterID">> : i = 1
  OBVIOUS
<1>7. ASSUME NEW args, DOMAIN args = PathNames(HandleCreateCertificate.params),
             NEW at, at = Found(PathOf(SendCreateCertificate.path, args))
      PROVE  /\ at.node = CertificateRoutes
             /\ \A i \in DOMAIN <<"clusterID">> :
                    at.args[i] = [value |-> args[<<"clusterID">>[i]]]
  <2>1. /\ at.node = CertificateRoutes
        /\ at.args[1] = [value |-> args.clusterID]
    BY <1>2, <1>4, <1>7, CertificatesPath
  <2> QED
    BY <1>6, <2>1
<1>8. Finds("CreateCertificate")
  BY <1>1, <1>2, <1>3, <1>5, <1>6, <1>7 DEF Finds
<1>9. Agrees("CreateCertificate")
  BY <1>1 DEF Agrees, SendCreateCertificate, Post, Send, CreateCertificateAnswer, HandleCreateCertificate, Handler, CreateCertificateParams, Params, NoQuery, NoContent, Answer
<1> QED
  BY <1>8, <1>9

LEMMA ListCertificateFinds == Finds("ListCertificate") /\ Agrees("ListCertificate")
<1>1. Sends["ListCertificate"] = SendListCertificate /\ Handlers["ListCertificate"] = HandleListCertificate
      /\ Answers["ListCertificate"] = ListCertificateAnswer
  BY DEF Sends, Handlers, Answers
<1>2. /\ SendListCertificate.path = <<"clusters", "clusterID", "certificates">>
      /\ SendListCertificate.method = "GET"
  BY DEF SendListCertificate, Get, Send
<1>3. HandleListCertificate.params.path = <<"clusterID">>
  BY DEF HandleListCertificate, Handler, ListCertificateParams, Params
<1>4. PathNames(HandleListCertificate.params) = {"clusterID"}
  BY <1>3 DEF PathNames
<1>5. CertificateRoutes.ops.GET = "ListCertificate" /\ "GET" \in DOMAIN CertificateRoutes.ops
  BY DEF CertificateRoutes, ThenParam, Branch, Leaf
<1>6. \A i \in DOMAIN <<"clusterID">> : i = 1
  OBVIOUS
<1>7. ASSUME NEW args, DOMAIN args = PathNames(HandleListCertificate.params),
             NEW at, at = Found(PathOf(SendListCertificate.path, args))
      PROVE  /\ at.node = CertificateRoutes
             /\ \A i \in DOMAIN <<"clusterID">> :
                    at.args[i] = [value |-> args[<<"clusterID">>[i]]]
  <2>1. /\ at.node = CertificateRoutes
        /\ at.args[1] = [value |-> args.clusterID]
    BY <1>2, <1>4, <1>7, CertificatesPath
  <2> QED
    BY <1>6, <2>1
<1>8. Finds("ListCertificate")
  BY <1>1, <1>2, <1>3, <1>5, <1>6, <1>7 DEF Finds
<1>9. Agrees("ListCertificate")
  BY <1>1 DEF Agrees, SendListCertificate, Get, Send, ListCertificateAnswer, HandleListCertificate, Handler, ListCertificateParams, Params, NoQuery, NoContent, Answer
<1> QED
  BY <1>8, <1>9

LEMMA GetCertificateFinds == Finds("GetCertificate") /\ Agrees("GetCertificate")
<1>1. Sends["GetCertificate"] = SendGetCertificate /\ Handlers["GetCertificate"] = HandleGetCertificate
      /\ Answers["GetCertificate"] = GetCertificateAnswer
  BY DEF Sends, Handlers, Answers
<1>2. /\ SendGetCertificate.path = <<"clusters", "clusterID", "certificates", "certificateID">>
      /\ SendGetCertificate.method = "GET"
  BY DEF SendGetCertificate, Get, Send
<1>3. HandleGetCertificate.params.path = <<"clusterID", "certificateID">>
  BY DEF HandleGetCertificate, Handler, GetCertificateParams, Params
<1>4. PathNames(HandleGetCertificate.params) = {"clusterID", "certificateID"}
  BY <1>3 DEF PathNames
<1>5. CertificateRoutes.param[1].ops.GET = "GetCertificate" /\ "GET" \in DOMAIN CertificateRoutes.param[1].ops
  BY DEF CertificateRoutes, ThenParam, Branch, Leaf
<1>6. \A i \in DOMAIN <<"clusterID", "certificateID">> : i = 1 \/ i = 2
  OBVIOUS
<1>7. ASSUME NEW args, DOMAIN args = PathNames(HandleGetCertificate.params),
             NEW at, at = Found(PathOf(SendGetCertificate.path, args))
      PROVE  /\ at.node = CertificateRoutes.param[1]
             /\ \A i \in DOMAIN <<"clusterID", "certificateID">> :
                    at.args[i] = [value |-> args[<<"clusterID", "certificateID">>[i]]]
  <2>1. /\ at.node = CertificateRoutes.param[1]
        /\ at.args[1] = [value |-> args.clusterID] /\ at.args[2] = [value |-> args.certificateID]
    BY <1>2, <1>4, <1>7, CertificatePath
  <2> QED
    BY <1>6, <2>1
<1>8. Finds("GetCertificate")
  BY <1>1, <1>2, <1>3, <1>5, <1>6, <1>7 DEF Finds
<1>9. Agrees("GetCertificate")
  BY <1>1 DEF Agrees, SendGetCertificate, Get, Send, GetCertificateAnswer, HandleGetCertificate, Handler, GetCertificateParams, Params, NoQuery, NoContent, Answer
<1> QED
  BY <1>8, <1>9

LEMMA UpdateCertificateFinds == Finds("UpdateCertificate") /\ Agrees("UpdateCertificate")
<1>1. Sends["UpdateCertificate"] = SendUpdateCertificate /\ Handlers["UpdateCertificate"] = HandleUpdateCertificate
      /\ Answers["UpdateCertificate"] = UpdateCertificateAnswer
  BY DEF Sends, Handlers, Answers
<1>2. /\ SendUpdateCertificate.path = <<"clusters", "clusterID", "certificates", "certificateID">>
      /\ SendUpdateCertificate.method = "PUT"
  BY DEF SendUpdateCertificate, Put, Send
<1>3. HandleUpdateCertificate.params.path = <<"clusterID", "certificateID">>
  BY DEF HandleUpdateCertificate, Handler, UpdateCertificateParams, Params
<1>4. PathNames(HandleUpdateCertificate.params) = {"clusterID", "certificateID"}
  BY <1>3 DEF PathNames
<1>5. CertificateRoutes.param[1].ops.PUT = "UpdateCertificate" /\ "PUT" \in DOMAIN CertificateRoutes.param[1].ops
  BY DEF CertificateRoutes, ThenParam, Branch, Leaf
<1>6. \A i \in DOMAIN <<"clusterID", "certificateID">> : i = 1 \/ i = 2
  OBVIOUS
<1>7. ASSUME NEW args, DOMAIN args = PathNames(HandleUpdateCertificate.params),
             NEW at, at = Found(PathOf(SendUpdateCertificate.path, args))
      PROVE  /\ at.node = CertificateRoutes.param[1]
             /\ \A i \in DOMAIN <<"clusterID", "certificateID">> :
                    at.args[i] = [value |-> args[<<"clusterID", "certificateID">>[i]]]
  <2>1. /\ at.node = CertificateRoutes.param[1]
        /\ at.args[1] = [value |-> args.clusterID] /\ at.args[2] = [value |-> args.certificateID]
    BY <1>2, <1>4, <1>7, CertificatePath
  <2> QED
    BY <1>6, <2>1
<1>8. Finds("UpdateCertificate")
  BY <1>1, <1>2, <1>3, <1>5, <1>6, <1>7 DEF Finds
<1>9. Agrees("UpdateCertificate")
  BY <1>1 DEF Agrees, SendUpdateCertificate, Put, Send, UpdateCertificateAnswer, HandleUpdateCertificate, Handler, UpdateCertificateParams, Params, NoQuery, NoContent, Answer
<1> QED
  BY <1>8, <1>9

LEMMA DeleteCertificateFinds == Finds("DeleteCertificate") /\ Agrees("DeleteCertificate")
<1>1. Sends["DeleteCertificate"] = SendDeleteCertificate /\ Handlers["DeleteCertificate"] = HandleDeleteCertificate
      /\ Answers["DeleteCertificate"] = DeleteCertificateAnswer
  BY DEF Sends, Handlers, Answers
<1>2. /\ SendDeleteCertificate.path = <<"clusters", "clusterID", "certificates", "certificateID">>
      /\ SendDeleteCertificate.method = "DELETE"
  BY DEF SendDeleteCertificate, Delete, Send
<1>3. HandleDeleteCertificate.params.path = <<"clusterID", "certificateID">>
  BY DEF HandleDeleteCertificate, Handler, DeleteCertificateParams, Params
<1>4. PathNames(HandleDeleteCertificate.params) = {"clusterID", "certificateID"}
  BY <1>3 DEF PathNames
<1>5. CertificateRoutes.param[1].ops.DELETE = "DeleteCertificate" /\ "DELETE" \in DOMAIN CertificateRoutes.param[1].ops
  BY DEF CertificateRoutes, ThenParam, Branch, Leaf
<1>6. \A i \in DOMAIN <<"clusterID", "certificateID">> : i = 1 \/ i = 2
  OBVIOUS
<1>7. ASSUME NEW args, DOMAIN args = PathNames(HandleDeleteCertificate.params),
             NEW at, at = Found(PathOf(SendDeleteCertificate.path, args))
      PROVE  /\ at.node = CertificateRoutes.param[1]
             /\ \A i \in DOMAIN <<"clusterID", "certificateID">> :
                    at.args[i] = [value |-> args[<<"clusterID", "certificateID">>[i]]]
  <2>1. /\ at.node = CertificateRoutes.param[1]
        /\ at.args[1] = [value |-> args.clusterID] /\ at.args[2] = [value |-> args.certificateID]
    BY <1>2, <1>4, <1>7, CertificatePath
  <2> QED
    BY <1>6, <2>1
<1>8. Finds("DeleteCertificate")
  BY <1>1, <1>2, <1>3, <1>5, <1>6, <1>7 DEF Finds
<1>9. Agrees("DeleteCertificate")
  BY <1>1 DEF Agrees, SendDeleteCertificate, Delete, Send, DeleteCertificateAnswer, HandleDeleteCertificate, Handler, DeleteCertificateParams, Params, NoQuery, NoContent, Answer
<1> QED
  BY <1>8, <1>9

LEMMA ListLbServiceClassesFinds == Finds("ListLbServiceClasses") /\ Agrees("ListLbServiceClasses")
<1>1. Sends["ListLbServiceClasses"] = SendListLbServiceClasses /\ Handlers["ListLbServiceClasses"] = HandleListLbServiceClasses
      /\ Answers["ListLbServiceClasses"] = ListLbServiceClassesAnswer
  BY DEF Sends, Handlers, Answers
<1>2. /\ SendListLbServiceClasses.path = <<"service_classes", "lb">>
      /\ SendListLbServiceClasses.method = "GET"
  BY DEF SendListLbServiceClasses, Get, Send
<1>3. HandleListLbServiceClasses.params.path = <<>>
  BY DEF HandleListLbServiceClasses, Handler, NoParams, NoQuery, Params
<1>4. PathNames(HandleListLbServiceClasses.params) = {}
  BY <1>3 DEF PathNames
<1>5. ServiceClassRoutes.words.lb.ops.GET = "ListLbServiceClasses" /\ "GET" \in DOMAIN ServiceClassRoutes.words.lb.ops
  BY DEF ServiceClassRoutes, ThenParam, Branch, Leaf
<1>6. DOMAIN <<>> = {}
  OBVIOUS
<1>7. ASSUME NEW args, DOMAIN args = PathNames(HandleListLbServiceClasses.params),
             NEW at, at = Found(PathOf(SendListLbServiceClasses.path, args))
      PROVE  at.node = ServiceClassRoutes.words.lb
  BY <1>2, <1>4, <1>7, LbClassesPath
<1>8. Finds("ListLbServiceClasses")
  BY <1>1, <1>2, <1>3, <1>5, <1>6, <1>7 DEF Finds
<1>9. Agrees("ListLbServiceClasses")
  BY <1>1 DEF Agrees, SendListLbServiceClasses, Get, Send, ListLbServiceClassesAnswer, HandleListLbServiceClasses, Handler, NoParams, NoQuery, Params, NoContent, Answer
<1> QED
  BY <1>8, <1>9

LEMMA ListWorkerServiceClassesFinds == Finds("ListWorkerServiceClasses") /\ Agrees("ListWorkerServiceClasses")
<1>1. Sends["ListWorkerServiceClasses"] = SendListWorkerServiceClasses /\ Handlers["ListWorkerServiceClasses"] = HandleListWorkerServiceClasses
      /\ Answers["ListWorkerServiceClasses"] = ListWorkerServiceClassesAnswer
  BY DEF Sends, Handlers, Answers
<1>2. /\ SendListWorkerServiceClasses.path = <<"service_classes", "worker">>
      /\ SendListWorkerServiceClasses.method = "GET"
  BY DEF SendListWorkerServiceClasses, Get, Send
<1>3. HandleListWorkerServiceClasses.params.path = <<>>
  BY DEF HandleListWorkerServiceClasses, Handler, NoParams, NoQuery, Params
<1>4. PathNames(HandleListWorkerServiceClasses.params) = {}
  BY <1>3 DEF PathNames
<1>5. ServiceClassRoutes.words.worker.ops.GET = "ListWorkerServiceClasses" /\ "GET" \in DOMAIN ServiceClassRoutes.words.worker.ops
  BY DEF ServiceClassRoutes, ThenParam, Branch, Leaf
<1>6. DOMAIN <<>> = {}
  OBVIOUS
<1>7. ASSUME NEW args, DOMAIN args = PathNames(HandleListWorkerServiceClasses.params),
             NEW at, at = Found(PathOf(SendListWorkerServiceClasses.path, args))
      PROVE  at.node = ServiceClassRoutes.words.worker
  BY <1>2, <1>4, <1>7, WorkerClassesPath
<1>8. Finds("ListWorkerServiceClasses")
  BY <1>1, <1>2, <1>3, <1>5, <1>6, <1>7 DEF Finds
<1>9. Agrees("ListWorkerServiceClasses")
  BY <1>1 DEF Agrees, SendListWorkerServiceClasses, Get, Send, ListWorkerServiceClassesAnswer, HandleListWorkerServiceClasses, Handler, NoParams, NoQuery, Params, NoContent, Answer
<1> QED
  BY <1>8, <1>9

\* All of them do.
LEMMA OperationsMeet == \A op \in DOMAIN Sends : Finds(op) /\ Agrees(op)
<1>1. DOMAIN Sends = {"CreateCluster", "ListClusters",
        "GetCluster", "UpdateCluster",
        "DeleteCluster", "CreateApplication",
        "ListApplications", "GetApplication",
        "UpdateApplication", "DeleteApplication",
        "GetApplicationContainers", "CreateApplicationVersion",
        "ListApplicationVersions", "GetApplicationVersion",
        "DeleteApplicationVersion", "CreateAutoScalingGroup",
        "ListAutoScalingGroups", "GetAutoScalingGroup",
        "DeleteAutoScalingGroup", "ListWorkerNodes",
        "GetWorkerNode", "UpdateWorkerNodeDrainingState",
        "CreateLoadBalancer", "ListLoadBalancers",
        "GetLoadBalancer", "DeleteLoadBalancer",
        "ListLoadBalancerNodes", "GetLoadBalancerNode",
        "CreateCertificate", "ListCertificate",
        "GetCertificate", "UpdateCertificate",
        "DeleteCertificate", "ListLbServiceClasses",
        "ListWorkerServiceClasses"}
  BY DEF Sends
<1> QED
  BY <1>1, CreateClusterFinds, ListClustersFinds,
     GetClusterFinds, UpdateClusterFinds,
     DeleteClusterFinds, CreateApplicationFinds,
     ListApplicationsFinds, GetApplicationFinds,
     UpdateApplicationFinds, DeleteApplicationFinds,
     GetApplicationContainersFinds, CreateApplicationVersionFinds,
     ListApplicationVersionsFinds, GetApplicationVersionFinds,
     DeleteApplicationVersionFinds, CreateAutoScalingGroupFinds,
     ListAutoScalingGroupsFinds, GetAutoScalingGroupFinds,
     DeleteAutoScalingGroupFinds, ListWorkerNodesFinds,
     GetWorkerNodeFinds, UpdateWorkerNodeDrainingStateFinds,
     CreateLoadBalancerFinds, ListLoadBalancersFinds,
     GetLoadBalancerFinds, DeleteLoadBalancerFinds,
     ListLoadBalancerNodesFinds, GetLoadBalancerNodeFinds,
     CreateCertificateFinds, ListCertificateFinds,
     GetCertificateFinds, UpdateCertificateFinds,
     DeleteCertificateFinds, ListLbServiceClassesFinds,
     ListWorkerServiceClassesFinds

-----------------------------------------------------------------------------
(***************************************************************************)
(* A call on its way through the server.                                   *)
(***************************************************************************)

\* A body is read as what it was, or is none on both sides.
LEMMA BodyRead ==
  ASSUME NEW T, NestsFour(T), NEW m, T # NoMessage => IsMessage(T, m)
  PROVE  LET body == BodyOf(T, m)
         IN  /\ T # NoMessage => Legible(T, body)
             /\ Readout(T, body) = SameBody(T, m)
             /\ BodyFits(T, body) <=> T = NoMessage \/ Valid(T, Same(T, m))
             /\ Understood(T, body) <=> T = NoMessage \/ Valid(T, Same(T, m))
<1> DEFINE body == BodyOf(T, m)
<1>1. CASE T = NoMessage
  BY <1>1 DEF Readout, SameBody, BodyFits, Understood
<1>2. CASE T # NoMessage
  <2>1. Decodes(T, Encode(T, m)) /\ Decode(T, Encode(T, m)) = Same(T, m)
    BY <1>2, RoundTrip
  <2>2. body.json = "value" /\ body.is = Encode(T, m)
    BY <1>2 DEF BodyOf, Token
  <2> QED
    BY <1>2, <2>1, <2>2 DEF Legible, Readout, SameBody, BodyFits, Understood
<1> QED
  BY <1>1, <1>2

\* A request of a call is found, and its parameters are what was asked for.
LEMMA RequestFound ==
  ASSUME NEW op \in DOMAIN Sends, NEW c, IsCall(op, c)
  PROVE  LET at == Found(Request(op, c).path)
             params == Handlers[op].params
         IN  /\ at.node.ops # NoOps /\ Request(op, c).method \in DOMAIN at.node.ops
             /\ at.node.ops[Request(op, c).method] = op
             /\ \A i \in DOMAIN params.path :
                    at.args[i] = [value |-> c.args[params.path[i]]]
<1> DEFINE at == Found(PathOf(Sends[op].path, c.args))
           params == Handlers[op].params
<1>1. Finds(op)
  BY OperationsMeet
<1>2. DOMAIN c.args = PathNames(params)
  BY DEF IsCall
<1>3. /\ Sends[op].method \in DOMAIN at.node.ops
      /\ at.node.ops[Sends[op].method] = op
      /\ \A i \in DOMAIN params.path :
            at.args[i] = [value |-> c.args[params.path[i]]]
  BY <1>1, <1>2 DEF Finds
<1>4. /\ Request(op, c).path = PathOf(Sends[op].path, c.args)
      /\ Request(op, c).method = Sends[op].method
  BY DEF Request, PathOf
<1>5. DOMAIN NoOps = {}
  BY DEF NoOps
<1> HIDE DEF at, params
<1>6. at.node.ops # NoOps
  BY <1>3, <1>5
<1> QED
  BY <1>3, <1>4, <1>6 DEF at, params

LEMMA UnboundedIsInt == Unbounded \in Int
  BY SMT DEF Unbounded

\* Its parameters fit if the version number, if there is one, is positive.
LEMMA PathMeets ==
  ASSUME NEW op \in DOMAIN Sends, NEW c, IsCall(op, c)
  PROVE  PathFits(Handlers[op].params, Found(Request(op, c).path).args) <=>
            ("version" \in DOMAIN c.args => c.args.version >= 1)
<1> DEFINE params == Handlers[op].params
           args == Found(Request(op, c).path).args
<1>1. \A i \in DOMAIN params.path : args[i] = [value |-> c.args[params.path[i]]]
  BY RequestFound
<1>2. DOMAIN c.args = {params.path[i] : i \in DOMAIN params.path}
  BY DEF IsCall, PathNames
<1>3. \A n \in DOMAIN c.args : c.args[n] \in Numbers32
  BY DEF IsCall
<1> HIDE DEF params, args
<1>4. ASSUME NEW n \in DOMAIN c.args
      PROVE  Meets(PathRule(n), c.args[n]) <=> (n = "version" => c.args.version >= 1)
  <2>1. c.args[n] \in Int /\ c.args[n] # Odd
        /\ -Unbounded <= c.args[n] /\ c.args[n] <= Unbounded
    BY <1>3, <1>4, OddAssumption, UnboundedIsInt DEF Numbers32
  <2>2. CASE n = "version"
    BY <2>1, <2>2 DEF PathRule, Meets, ApplicationVersionNumberRule, Within
  <2>3. CASE n # "version"
    BY <2>1, <2>3 DEF PathRule, Meets, Free, Within
  <2> QED
    BY <2>2, <2>3
<1>5. PathFits(params, args) <=>
        \A i \in DOMAIN params.path : Meets(PathRule(params.path[i]), c.args[params.path[i]])
  <2>1. ASSUME NEW i \in DOMAIN params.path
        PROVE  "value" \in DOMAIN args[i] /\ args[i].value = c.args[params.path[i]]
    <3>1. args[i] = [value |-> c.args[params.path[i]]]
      BY <1>1, <2>1
    <3> QED
      BY <3>1
  <2> QED
    BY <2>1 DEF PathFits
<1>6. PathFits(params, args) <=> \A n \in DOMAIN c.args : Meets(PathRule(n), c.args[n])
  BY <1>2, <1>5
<1>7. PathFits(params, args) <=> ("version" \in DOMAIN c.args => c.args.version >= 1)
  BY <1>4, <1>6
<1> QED
  BY <1>7 DEF params, args

\* The query arrives as it was set, and fits if what is set meets its rules.
LEMMA QueryMeets ==
  ASSUME NEW op \in DOMAIN Sends, NEW c, IsCall(op, c)
  PROVE  LET rules == Handlers[op].params.query
             query == Request(op, c).query
         IN  /\ QueryFits(Handlers[op].params, query) <=>
                    \A q \in DOMAIN c.query :
                        c.query[q] = None \/ Meets(rules[q], c.query[q])
             /\ [q \in DOMAIN rules |-> IF q \in DOMAIN query THEN query[q] ELSE None]
                    = c.query
<1> DEFINE rules == Handlers[op].params.query
           query == Request(op, c).query
<1>1. DOMAIN rules = Sends[op].query
  BY OperationsMeet DEF Agrees
<1>2. c.query = [q \in Sends[op].query |-> c.query[q]]
  BY DEF IsCall
<1>3. query = [q \in {p \in Sends[op].query : c.query[p] # None} |-> c.query[q]]
  BY DEF Request
<1>4. QueryFits(Handlers[op].params, query) <=>
        \A q \in DOMAIN rules \cap DOMAIN query : Meets(rules[q], query[q])
  BY DEF QueryFits
<1> HIDE DEF rules, query
<1>5. DOMAIN query = {q \in Sends[op].query : c.query[q] # None}
  BY <1>3
<1>6. \A q \in DOMAIN query : query[q] = c.query[q]
  BY <1>3
<1>7. DOMAIN c.query = Sends[op].query
  BY <1>2
<1>8. QueryFits(Handlers[op].params, query) <=>
        \A q \in DOMAIN c.query : c.query[q] = None \/ Meets(rules[q], c.query[q])
  BY <1>1, <1>4, <1>5, <1>6, <1>7
<1>9. ASSUME NEW q \in Sends[op].query
      PROVE  (IF q \in DOMAIN query THEN query[q] ELSE None) = c.query[q]
  BY <1>5, <1>6, <1>9
<1>10. [q \in DOMAIN rules |-> IF q \in DOMAIN query THEN query[q] ELSE None] = c.query
  BY <1>1, <1>2, <1>9
<1> QED
  BY <1>8, <1>10 DEF rules, query

\* A request is refused if and only if its call is not acceptable, for its
\* credentials if they are wrong and for its data otherwise.
THEOREM Admission ==
  ASSUME NEW op \in DOMAIN Sends, NEW c, IsCall(op, c)
  PROVE  Refusal(Request(op, c)) =
            IF ~c.trusted THEN ErrorResponse(ErrorCode)
            ELSE IF Acceptable(op, c) THEN Admitted
            ELSE HandlerResponse(400)
<1> DEFINE request == Request(op, c)
           at == Found(request.path)
<1>1. /\ at.node.ops # NoOps /\ request.method \in DOMAIN at.node.ops
      /\ at.node.ops[request.method] = op
  BY RequestFound
<1>2. request.trusted = c.trusted /\ request.body = BodyOf(Sends[op].body, c.body)
  BY DEF Request
<1>3. Sends[op].body = Handlers[op].body
  BY OperationsMeet DEF Agrees
<1>4. BodyFits(Handlers[op].body, request.body) <=>
        (Sends[op].body # NoMessage => Valid(Sends[op].body, Same(Sends[op].body, c.body)))
  <2>1. Sends[op].body # NoMessage => IsMessage(Sends[op].body, c.body)
    BY DEF IsCall
  <2>2. NestsFour(Sends[op].body)
    BY DepthAssumption
  <2> QED
    BY <1>2, <1>3, <2>1, <2>2, BodyRead
<1>5. PathFits(Handlers[op].params, at.args) <=>
        ("version" \in DOMAIN c.args => c.args.version >= 1)
  BY PathMeets
<1>6. QueryFits(Handlers[op].params, request.query) <=>
        \A q \in DOMAIN c.query :
            c.query[q] = None \/ Meets(Handlers[op].params.query[q], c.query[q])
  BY QueryMeets
<1>7. Acceptable(op, c) <=>
        /\ request.trusted
        /\ PathFits(Handlers[op].params, at.args)
        /\ QueryFits(Handlers[op].params, request.query)
        /\ BodyFits(Handlers[op].body, request.body)
  BY <1>2, <1>4, <1>5, <1>6 DEF Acceptable
<1>8. Refusal(request) =
        IF ~request.trusted THEN ErrorResponse(ErrorCode)
        ELSE IF \/ ~PathFits(Handlers[op].params, at.args)
                \/ ~QueryFits(Handlers[op].params, request.query)
                \/ ~BodyFits(Handlers[op].body, request.body)
        THEN HandlerResponse(400)
        ELSE Admitted
  <2> HIDE DEF request
  <2> QED
    BY <1>1 DEF Refusal
<1> HIDE DEF request, at
<1>9. Refusal(request) = IF ~c.trusted THEN ErrorResponse(ErrorCode)
                         ELSE IF Acceptable(op, c) THEN Admitted
                         ELSE HandlerResponse(400)
  BY <1>2, <1>7, <1>8
<1> QED
  BY <1>9 DEF request

\* A response is no admission.
LEMMA ResponseGiven ==
  ASSUME NEW code
  PROVE  ErrorResponse(code) # Admitted /\ HandlerResponse(code) # Admitted
<1>1. DOMAIN Admitted = {}
  BY DEF Admitted
<1>2. "code" \in DOMAIN ErrorResponse(code) /\ "code" \in DOMAIN HandlerResponse(code)
  BY DEF ErrorResponse, HandlerResponse
<1> QED
  BY <1>1, <1>2

\* So what is not refused is what is acceptable.
LEMMA AdmittedIfAcceptable ==
  ASSUME NEW op \in DOMAIN Sends, NEW c, IsCall(op, c)
  PROVE  Refusal(Request(op, c)) = Admitted <=> Acceptable(op, c)
<1>1. Acceptable(op, c) => c.trusted
  BY DEF Acceptable
<1>2. ErrorResponse(ErrorCode) # Admitted /\ HandlerResponse(400) # Admitted
  BY ResponseGiven
<1> QED
  BY <1>1, <1>2, Admission

\* A handler hears what was said, for the operation that was called: every path
\* leads back to its operation, and every parameter to its name.
THEOREM Hearing ==
  ASSUME NEW op \in DOMAIN Sends, NEW c, IsCall(op, c)
  PROVE  Heard(Request(op, c)) =
            [op |-> op, args |-> c.args, query |-> c.query,
             body |-> SameBody(Sends[op].body, c.body)]
<1> DEFINE request == Request(op, c)
           at == Found(request.path)
           params == Handlers[op].params
           Position(name) == CHOOSE i \in DOMAIN params.path : params.path[i] = name
<1>1. at.node.ops[request.method] = op
  BY RequestFound
<1>2. [n \in PathNames(params) |-> at.args[Position(n)].value] = c.args
  <2>1. c.args = [n \in PathNames(params) |-> c.args[n]]
    BY DEF IsCall
  <2>2. \A i \in DOMAIN params.path : at.args[i] = [value |-> c.args[params.path[i]]]
    BY RequestFound
  <2>3. ASSUME NEW n \in PathNames(params)
        PROVE  at.args[Position(n)].value = c.args[n]
    <3>1. \E i \in DOMAIN params.path : params.path[i] = n
      BY <2>3 DEF PathNames
    <3>2. Position(n) \in DOMAIN params.path /\ params.path[Position(n)] = n
      BY <3>1
    <3> DEFINE i == Position(n)
    <3> HIDE DEF at, params, Position
    <3>3. at.args[i] = [value |-> c.args[n]]
      BY <2>2, <3>2
    <3> QED
      BY <3>3
  <2> HIDE DEF at, params, Position
  <2> QED
    BY <2>1, <2>3
<1>3. [q \in DOMAIN params.query |->
        IF q \in DOMAIN request.query THEN request.query[q] ELSE None] = c.query
  BY QueryMeets
<1>4. Readout(Handlers[op].body, request.body) = SameBody(Sends[op].body, c.body)
  <2>1. Sends[op].body # NoMessage => IsMessage(Sends[op].body, c.body)
    BY DEF IsCall
  <2>2. NestsFour(Sends[op].body)
    BY DepthAssumption
  <2>3. Sends[op].body = Handlers[op].body
    BY OperationsMeet DEF Agrees
  <2>4. request.body = BodyOf(Sends[op].body, c.body)
    BY DEF Request
  <2> QED
    BY <2>1, <2>2, <2>3, <2>4, BodyRead
<1>5. Heard(request) =
        [op |-> op,
         args |-> [n \in PathNames(params) |-> at.args[Position(n)].value],
         query |-> [q \in DOMAIN params.query |->
                        IF q \in DOMAIN request.query THEN request.query[q] ELSE None],
         body |-> Readout(Handlers[op].body, request.body)]
  <2> HIDE DEF request
  <2> QED
    BY <1>1 DEF Heard
<1> HIDE DEF request, at, params, Position
<1>6. Heard(request) = [op |-> op, args |-> c.args, query |-> c.query,
                        body |-> SameBody(Sends[op].body, c.body)]
  BY <1>2, <1>3, <1>4, <1>5
<1> QED
  BY <1>6 DEF request

-----------------------------------------------------------------------------
(***************************************************************************)
(* A response on its way to the caller.                                    *)
(***************************************************************************)

LEMMA FailingCodes == IsFailing(400) /\ IsFailing(501)
  BY OperationsMeet DEF Agrees, IsFailing

\* What the service says of an error is read; what the default handler of the
\* bindings says of one is not: it has no status.
LEMMA ErrorsTold ==
  ASSUME NEW code
  PROVE  /\ Legible(Error, ErrorResponse(code).body)
         /\ ~Legible(Error, HandlerResponse(code).body)
<1>1. /\ DOMAIN Error.fields = {"status", "title"}
      /\ \A f \in DOMAIN Error.fields : Error.fields[f] = [kind |-> "value", of |-> NoMessage]
  BY DEF Error, Message, Value, Of
<1>2. DOMAIN NoMessage.fields = {}
  BY DEF NoMessage, Message
<1>3. Error # NoMessage
  BY <1>1, <1>2
<1>4. NestsFour(Error)
  <2>1. \A f \in DOMAIN Error.fields : Error.fields[f].of = NoMessage
    BY <1>1
  <2>2. \A S : NestsTwo(S) \/ S # NoMessage
    BY <1>2 DEF NestsTwo, Nests
  <2>3. NestsTwo(NoMessage)
    BY <2>2
  <2> QED
    BY <1>2, <2>1, <2>3 DEF NestsFour, Nests
<1>5. IsMessage(Error, [status |-> code, title |-> Odd])
  BY <1>1 DEF IsMessage, IsA, IsList, InEach
<1>6. Legible(Error, ErrorResponse(code).body)
  <2>1. ErrorResponse(code).body = BodyOf(Error, [status |-> code, title |-> Odd])
    BY DEF ErrorResponse
  <2> QED
    BY <1>3, <1>4, <1>5, <2>1, BodyRead
<1>7. DOMAIN ErrorMessage.fields = {"error_message"}
  BY DEF ErrorMessage, Message, Value, Of
<1>8. ErrorMessage # NoMessage
  BY <1>2, <1>7
<1>9. HandlerResponse(code).body.is = Encode(ErrorMessage, [error_message |-> Odd])
  BY <1>8 DEF HandlerResponse, BodyOf, Token
<1>10. DOMAIN Encode(ErrorMessage, [error_message |-> Odd]) \subseteq {"error_message"}
  BY <1>7 DEF Encode, Encodes
<1>11. "status" \in Required(Error)
  BY <1>1 DEF Required
<1>12. ~Legible(Error, HandlerResponse(code).body)
  BY <1>9, <1>10, <1>11 DEF Legible, Decodes, Readable
<1> QED
  BY <1>6, <1>12

\* A status is told to the caller as it was given; a refusal of the bindings,
\* or an operation that is not implemented, is unreadable.
LEMMA StatusResult ==
  ASSUME NEW op \in DOMAIN Sends, NEW code, IsFailing(code)
  PROVE  /\ Result(op, ErrorResponse(code)) = [kind |-> "status", code |-> code]
         /\ Result(op, HandlerResponse(code)) = Undecodable
<1>1. code # Answers[op].code
  BY DEF IsFailing
<1>2. ErrorResponse(code).code = code /\ HandlerResponse(code).code = code
  BY DEF ErrorResponse, HandlerResponse
<1>3. /\ Legible(Error, ErrorResponse(code).body)
      /\ ~Legible(Error, HandlerResponse(code).body)
  BY ErrorsTold
<1>4. Result(op, ErrorResponse(code)) = [kind |-> "status", code |-> code]
  BY <1>1, <1>2, <1>3 DEF Result
<1>5. Result(op, HandlerResponse(code)) = Undecodable
  BY <1>1, <1>2, <1>3 DEF Result
<1> QED
  BY <1>4, <1>5

\* An answer arrives if it meets the rules of its type.
Arriving(op, o) ==
    LET T == Answers[op].message
    IN  IF T = NoMessage \/ Valid(T, Same(T, o.message))
        THEN [kind |-> "answer", message |-> SameBody(T, o.message)]
        ELSE Undecodable

LEMMA AnswerResult ==
  ASSUME NEW op \in DOMAIN Sends, NEW o, IsOutcome(op, o), o.kind = "answer"
  PROVE  Result(op, Response(op, o)) = Arriving(op, o)
<1> DEFINE T == Answers[op].message
           response == Response(op, o)
<1>1. Answers[op] = Handlers[op].answer
  BY OperationsMeet DEF Agrees
<1>2. response.code = Answers[op].code /\ response.body = BodyOf(T, o.message)
  BY <1>1 DEF Response
<1>3. NestsFour(T)
  BY DepthAssumption
<1>4. T # NoMessage => IsMessage(T, o.message)
  BY DEF IsOutcome
<1> HIDE DEF response
<1>5. Readout(T, response.body) = SameBody(T, o.message)
  <2> HIDE DEF T
  <2> QED
    BY <1>2, <1>3, <1>4, BodyRead
<1>6. Understood(T, response.body) <=> T = NoMessage \/ Valid(T, Same(T, o.message))
  <2> HIDE DEF T
  <2> QED
    BY <1>2, <1>3, <1>4, BodyRead
<1>7. Result(op, response) =
        IF ~Understood(T, response.body) THEN Undecodable
        ELSE [kind |-> "answer", message |-> Readout(T, response.body)]
  BY <1>2 DEF Result
<1>8. Result(op, response) = Arriving(op, o)
  BY <1>5, <1>6, <1>7 DEF Arriving
<1> QED
  BY <1>8 DEF response

\* What becomes of everything else a handler may return.
LEMMA ErrorResult ==
  ASSUME NEW op \in DOMAIN Sends, NEW o, IsOutcome(op, o), o.kind # "answer"
  PROVE  Result(op, Response(op, o)) =
            IF o.kind = "status" THEN [kind |-> "status", code |-> o.code]
            ELSE IF o.kind = "failure" THEN [kind |-> "status", code |-> ErrorCode]
            ELSE Undecodable
<1>1. CASE o.kind = "status"
  <2>1. Response(op, o) = ErrorResponse(o.code) /\ IsFailing(o.code)
    BY <1>1 DEF Response, IsOutcome
  <2> QED
    BY <1>1, <2>1, StatusResult
<1>2. CASE o.kind = "failure"
  <2>1. Response(op, o) = ErrorResponse(ErrorCode)
    BY <1>2 DEF Response
  <2> QED
    BY <1>2, <2>1, StatusResult, ErrorCodeAssumption
<1>3. CASE o.kind = "unimplemented"
  <2>1. Response(op, o) = HandlerResponse(501)
    BY <1>3 DEF Response
  <2> QED
    BY <1>3, <2>1, StatusResult, FailingCodes
<1> QED
  BY <1>1, <1>2, <1>3 DEF IsOutcome

\* No result is unset: it has a kind.
LEMMA ResultKinds ==
  ASSUME NEW op, NEW response
  PROVE  /\ Result(op, response).kind \in {"answer", "status", "undecodable"}
         /\ Result(op, response) # NotYet /\ Result(op, response) # Lost
         /\ Lost # NotYet
<1>1. /\ Result(op, response).kind \in {"answer", "status", "undecodable"}
      /\ "kind" \in DOMAIN Result(op, response)
  BY DEF Result, Undecodable
<1>2. "kind" \in DOMAIN Lost /\ Lost.kind = "lost"
  BY DEF Lost
<1>3. DOMAIN NotYet = {}
  BY DEF NotYet
<1> QED
  BY <1>1, <1>2, <1>3


=============================================================================
