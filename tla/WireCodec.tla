------------------------------ MODULE WireCodec ------------------------------
(***************************************************************************)
(* The wire package under the program's records: an encoder that keeps     *)
(* its first error, and a reader that keeps its first error and refuses    *)
(* what is short or not canonical.                                         *)
(*                                                                         *)
(* A wire is a sequence of tokens, one per primitive the encoder appends   *)
(* (n bytes holding the value v, and the kind of primitive it was), and    *)
(* the number of bytes that arrive, which is less than the tokens hold     *)
(* when the wire was cut.  An opaque value is <<name, length>>: which field it  *)
(* was filled from, and how long it is.  Damage is what a reader has to    *)
(* refuse: a cut, a varint longer than its value needs, a bool that is     *)
(* neither 0 nor 1.                                                        *)
(***************************************************************************)
EXTENDS StoredRecords, Sequences

CONSTANT Crowd    \* the longest vector explored

(* The largest varint needs eight bytes. *)
WireAssumption == MaxVarint > 1073741823 /\ Crowd > 0

VARIABLES
    message,   \* the name of the record being sent
    value,     \* its fields
    wire,      \* what was encoded
    stage,     \* "ready", "sent", "refused" (by the encoder), "damaged", "decoded"
    intact,    \* nothing happened to the wire
    result     \* what the decoder made of it

vars == <<message, value, wire, stage, intact, result>>
-----------------------------------------------------------------------------
(* Encoding. *)
VarintLen(v) ==
    IF v <= 63 THEN 1 ELSE IF v <= 16383 THEN 2 ELSE IF v <= 1073741823 THEN 4 ELSE 8

Token(n, v) == [n |-> n, v |-> v, kind |-> "plain"]
Flag(v) == [n |-> 1, v |-> v, kind |-> "bool"]
Failure == <<[n |-> 0, v |-> 0, kind |-> "error"]>>

WriteVarint(v) ==
    IF v > MaxVarint THEN Failure ELSE <<[n |-> VarintLen(v), v |-> v, kind |-> "varint"]>>

WriteOpaqueFixed(b, n) == IF b[2] # n THEN Failure ELSE <<Token(n, b)>>

(* The longest opaque a length of n bytes can announce; four bytes count past any packet. *)
Longest(n) == IF n < 4 THEN 256^n - 1 ELSE 16777216

WriteOpaque(b, n) ==
    IF b[2] > Longest(n) THEN Failure
    ELSE IF b[2] = 0 THEN <<Token(n, 0)>> ELSE <<Token(n, b[2]), Token(b[2], b)>>

(* What a container's encoder checks before it writes a field: the size of a
   number or an opaque, and the number and difference of the members of a
   collection (headers; trust roots, bundles and reservations likewise). *)
validateContainer(f, size) == size >= f.lo /\ size <= f.hi

nativeHeaderFields(f, items) ==
    /\ Len(items) \in f.lo..f.max
    /\ f.distinct => \A i, j \in DOMAIN items : i # j => items[i] # items[j]

RECURSIVE WriteField(_, _), WriteRecord(_, _, _), WriteVector(_, _, _)
WriteField(f, v) ==
    CASE f.kind = "varint" -> WriteVarint(v)
      [] f.kind = "uint" -> <<Token(f.n, v)>>
      [] f.kind = "bool" -> <<Flag(IF v THEN 1 ELSE 0)>>
      [] f.kind = "fixed" -> WriteOpaqueFixed(v, f.n)
      [] f.kind = "opaque" -> WriteOpaque(v, f.n)
      [] f.kind = "record" -> WriteRecord(Formats[f.type].enc, v, 1)
      [] f.kind = "vector" -> WriteVarint(Len(v)) \o WriteVector(f.of, v, 1)
      [] f.kind = "present" ->
            IF v = <<>> THEN <<Flag(0)>> ELSE <<Flag(1)>> \o WriteField(f.of, v[1])
      [] f.kind = "format" -> WriteVarint(f.v)
      [] f.kind = "format or" ->
            IF v = <<>> THEN WriteVarint(f.without) ELSE WriteVarint(f.with) \o WriteField(f.of, v[1])
      [] f.kind = "within" -> IF validateContainer(f, v) THEN <<Token(f.n, v)>> ELSE Failure
      [] f.kind = "ranged" -> IF validateContainer(f, v) THEN WriteVarint(v) ELSE Failure
      [] f.kind = "limited" -> IF validateContainer(f, v[2]) THEN WriteOpaque(v, f.n) ELSE Failure
      [] f.kind = "bounded" ->
            IF nativeHeaderFields(f, v) THEN WriteVarint(Len(v)) \o WriteVector(f.of, v, 1) ELSE Failure
      [] f.kind = "counted" ->
            IF Len(v) <= f.max THEN <<Token(f.n, Len(v))>> \o WriteVector(f.of, v, 1) ELSE Failure

(* The fields of a record from the i-th on. *)
WriteRecord(enc, record, i) ==
    IF i > Len(enc) THEN <<>>
    ELSE WriteField(enc[i], record[enc[i].name]) \o WriteRecord(enc, record, i + 1)

(* The items of a vector from the i-th on. *)
WriteVector(f, items, i) ==
    IF i > Len(items) THEN <<>>
    ELSE WriteField(f, items[i]) \o WriteVector(f, items, i + 1)

Encode(name, record) == WriteField(R("", name), record)

RECURSIVE BytesTo(_, _)
BytesTo(tokens, i) == IF i = 0 THEN 0 ELSE tokens[i].n + BytesTo(tokens, i - 1)
Bytes(tokens) == BytesTo(tokens, Len(tokens))
-----------------------------------------------------------------------------
(* Decoding: r is the reader (the next token, the bytes left, no error so  *)
(* far) with the value it read last.                                       *)
NewReader(bytes) == [at |-> 1, left |-> bytes, ok |-> TRUE, out |-> 0]

Fail(r) == [r EXCEPT !.ok = FALSE]

Take(tokens, r, n) ==
    IF ~r.ok \/ n > r.left THEN Fail(r)
    ELSE IF n = 0 THEN [r EXCEPT !.out = 0]
    ELSE IF tokens[r.at].n # n THEN Fail(r)   \* the fields of the two ends do not line up
    ELSE [r EXCEPT !.at = @ + 1, !.left = @ - n, !.out = tokens[r.at].v]

ReadBool(tokens, r) ==
    LET taken == Take(tokens, r, 1)
    IN  IF taken.ok /\ taken.out \notin {0, 1} THEN Fail(r) ELSE taken

ReadVarint(tokens, r) ==
    IF ~r.ok \/ r.left = 0 THEN Fail(r)
    ELSE LET t == tokens[r.at]
         IN  IF t.kind # "varint" \/ t.n > r.left \/ t.n # VarintLen(t.v) THEN Fail(r)
             ELSE Take(tokens, r, t.n)

ReadVectorCount(tokens, r) ==
    LET count == ReadVarint(tokens, r)
    IN  IF count.ok /\ count.out > count.left THEN Fail(r) ELSE count

readVectorCountWithMinimum(tokens, r, f) ==
    LET count == ReadVectorCount(tokens, r)
    IN  IF count.ok /\ (count.out > count.left \div f.min \/ count.out > f.max) THEN Fail(r) ELSE count

ReadOpaque(tokens, r, f) ==
    LET length == Take(tokens, r, f.n)
    IN  IF length.ok /\ length.out = 0 THEN [length EXCEPT !.out = <<f.name, 0>>]
        ELSE Take(tokens, length, length.out)

readNativeProvisioningOpaque(tokens, r, f) ==
    LET read == ReadOpaque(tokens, r, f)
    IN  IF read.ok /\ ~validateContainer(f, read.out[2]) THEN Fail(r) ELSE read

RECURSIVE ReadField(_, _, _), ReadRecord(_, _, _, _), ReadVector(_, _, _, _)
ReadField(tokens, r, f) ==
    CASE f.kind = "varint" -> ReadVarint(tokens, r)
      [] f.kind \in {"uint", "fixed"} -> Take(tokens, r, f.n)
      [] f.kind = "bool" ->
            LET flag == ReadBool(tokens, r) IN [flag EXCEPT !.out = flag.ok /\ flag.out = 1]
      [] f.kind = "opaque" -> ReadOpaque(tokens, r, f)
      [] f.kind = "record" -> ReadRecord(tokens, [r EXCEPT !.out = <<>>], Formats[f.type].dec, 1)
      [] f.kind = "vector" ->
            LET count == readVectorCountWithMinimum(tokens, r, f)
            IN  IF count.ok THEN ReadVector(tokens, [count EXCEPT !.out = <<>>], f.of, count.out)
                ELSE count
      [] f.kind = "present" ->
            LET flag == ReadBool(tokens, r)
                body == ReadField(tokens, flag, f.of)
            IN  IF flag.ok /\ flag.out = 1 THEN [body EXCEPT !.out = <<@>>]
                ELSE [flag EXCEPT !.out = <<>>]
      [] f.kind = "format" ->
            LET format == ReadVarint(tokens, r)
            IN  IF format.ok /\ format.out = f.v THEN format ELSE Fail(r)
      [] f.kind = "format or" ->
            LET format == ReadVarint(tokens, r)
                body == ReadField(tokens, format, f.of)
            IN  IF ~format.ok \/ format.out \notin {f.without, f.with} THEN Fail(r)
                ELSE IF format.out = f.without THEN [format EXCEPT !.out = <<>>]
                ELSE [body EXCEPT !.out = <<@>>]
      [] f.kind = "within" ->
            LET read == Take(tokens, r, f.n)
            IN  IF read.ok /\ ~validateContainer(f, read.out) THEN Fail(r) ELSE read
      [] f.kind = "limited" -> readNativeProvisioningOpaque(tokens, r, f)
      [] f.kind \in {"bounded", "counted"} ->
            LET count == IF f.kind = "bounded" THEN ReadVectorCount(tokens, r) ELSE Take(tokens, r, f.n)
                items == ReadVector(tokens, [count EXCEPT !.out = <<>>], f.of, count.out)
            IN  IF ~count.ok \/ count.out > f.max THEN Fail(r)
                ELSE IF f.kind = "bounded" /\ items.ok /\ ~nativeHeaderFields(f, items.out) THEN Fail(r)
                ELSE items

(* acc.out is the record read so far; fields are read from the i-th on. *)
ReadRecord(tokens, acc, dec, i) ==
    IF i > Len(dec) \/ ~acc.ok THEN acc
    ELSE LET read == ReadField(tokens, acc, dec[i])
         IN  IF read.ok
             THEN ReadRecord(tokens, [read EXCEPT !.out = (dec[i].name :> @) @@ acc.out], dec, i + 1)
             ELSE read

(* acc.out is the items read so far; n are still to be read. *)
ReadVector(tokens, acc, f, n) ==
    IF n = 0 \/ ~acc.ok THEN acc
    ELSE LET read == ReadField(tokens, acc, f)
         IN  IF read.ok THEN ReadVector(tokens, [read EXCEPT !.out = Append(acc.out, @)], f, n - 1)
             ELSE read

Decode(name, w) == ReadField(w.tokens, NewReader(w.bytes), R("", name))
-----------------------------------------------------------------------------
(* The values explored: every record filled with distinguishable fields,   *)
(* and the same with one field at a boundary.                              *)
Repeat(n, v) == [i \in 1..n |-> v]

RECURSIVE Usual(_, _), Least(_)
Usual(f, i) ==
    CASE f.kind \in {"varint", "uint"} -> i
      [] f.kind = "bool" -> FALSE
      [] f.kind = "fixed" -> <<f.name, f.n>>
      [] f.kind = "opaque" -> <<f.name, 1>>
      [] f.kind = "record" ->
            LET enc == Formats[f.type].enc
            IN  [name \in {enc[j].name : j \in DOMAIN enc} |->
                    LET j == CHOOSE k \in DOMAIN enc : enc[k].name = name IN Usual(enc[j], j)]
      [] f.kind \in {"vector", "bounded", "counted"} -> <<Usual(f.of, i)>>
      [] f.kind \in {"present", "format or"} -> <<>>
      [] f.kind = "format" -> f.v
      [] f.kind \in {"within", "ranged"} -> f.hi
      [] f.kind = "limited" -> <<f.name, f.lo + 1>>

(* The shortest encoding a field can have. *)
Least(f) ==
    CASE f.kind \in {"varint", "uint"} -> 0
      [] f.kind = "bool" -> FALSE
      [] f.kind = "fixed" -> <<f.name, f.n>>
      [] f.kind = "opaque" -> <<f.name, 0>>
      [] f.kind \in {"vector", "present", "format or", "counted"} -> <<>>
      [] f.kind = "format" -> f.v
      [] f.kind \in {"within", "ranged"} -> f.lo
      [] f.kind = "limited" -> <<f.name, f.lo>>
      [] f.kind = "bounded" -> Repeat(f.lo, Least(f.of))
      [] f.kind = "record" ->
            LET enc == Formats[f.type].enc
            IN  [name \in {enc[j].name : j \in DOMAIN enc} |->
                    Least(enc[CHOOSE k \in DOMAIN enc : enc[k].name = name])]

Boundaries(f, g) ==   \* g: the same field as the decoder has it
    CASE f.kind = "varint" ->
            {0, 63, 64, 16383, 16384, 1073741823, 1073741824, MaxVarint, MaxVarint + 1}
      [] f.kind = "uint" -> {0}
      [] f.kind = "bool" -> {TRUE}
      [] f.kind = "fixed" -> {<<f.name, f.n - 1>>, <<f.name, f.n + 1>>}
      [] f.kind = "opaque" -> {<<f.name, n>> : n \in {0, Longest(f.n), Longest(f.n) + 1}}
      [] f.kind = "record" -> {Least(f)}
      [] f.kind = "vector" ->
            {Repeat(n, Least(f.of)) : n \in {0, 2} \cup {m \in {g.max, g.max + 1} : m <= Crowd}}
      [] f.kind \in {"present", "format or"} -> {<<Usual(f.of, 1)>>}
      [] f.kind = "format" -> {f.v}
      [] f.kind \in {"within", "ranged"} -> {f.lo, f.hi, f.hi + 1} \cup {n \in {f.lo - 1} : f.lo > 0}
      [] f.kind = "limited" ->
            {<<f.name, n>> : n \in {f.lo, f.hi, f.hi + 1} \cup {m \in {f.lo - 1} : f.lo > 0}}
      [] f.kind = "bounded" ->
            {<<>>, Repeat(2, Least(f.of)), <<Least(f.of), Usual(f.of, 1)>>}
      [] f.kind = "counted" ->
            {<<>>, Repeat(2, Least(f.of)), Repeat(f.max, Least(f.of)), Repeat(f.max + 1, Least(f.of))}

ValuesOf(name) ==
    LET usual == Usual(R("", name), 1)
        enc == Formats[name].enc
    IN  {usual} \cup UNION {{[usual EXCEPT ![enc[i].name] = v] :
                               v \in Boundaries(enc[i], Formats[name].dec[i])} : i \in DOMAIN enc}
-----------------------------------------------------------------------------
NoResult == [ok |-> FALSE, left |-> 0, record |-> <<>>]

Init ==
    /\ message \in DOMAIN Formats
    /\ value \in ValuesOf(message)
    /\ wire = [tokens |-> <<>>, bytes |-> 0]
    /\ stage = "ready"
    /\ intact = TRUE
    /\ result = NoResult

Send ==
    /\ stage = "ready"
    /\ LET tokens == Encode(message, value)
           failed == \E i \in DOMAIN tokens : tokens[i].kind = "error"
       IN  /\ stage' = IF failed THEN "refused" ELSE "sent"
           /\ wire' = IF failed THEN wire ELSE [tokens |-> tokens, bytes |-> Bytes(tokens)]
    /\ UNCHANGED <<message, value, intact, result>>

Damageable == stage = "sent" /\ value = Usual(R("", message), 1)

(* The bytes from somewhere in the i-th token on are lost. *)
Cut(i, all) ==
    /\ Damageable
    /\ wire.bytes > 0
    /\ wire' = [wire EXCEPT !.bytes =
                   BytesTo(wire.tokens, i) - (IF all THEN wire.tokens[i].n ELSE 1)]
    /\ stage' = "damaged"
    /\ intact' = FALSE
    /\ UNCHANGED <<message, value, result>>

(* The i-th token is a varint written longer than its value needs, or a flag that is no bool. *)
Respell(i) ==
    /\ Damageable
    /\ \/ /\ wire.tokens[i].kind = "varint"
          /\ wire' = [tokens |-> [wire.tokens EXCEPT ![i].n = 2 * @],
                      bytes |-> wire.bytes + wire.tokens[i].n]
       \/ /\ wire.tokens[i].kind = "bool"
          /\ wire' = [wire EXCEPT !.tokens[i].v = 2]
    /\ stage' = "damaged"
    /\ intact' = FALSE
    /\ UNCHANGED <<message, value, result>>

Receive ==
    /\ stage \in {"sent", "damaged"}
    /\ LET r == Decode(message, wire)
       IN  result' = [ok |-> r.ok, left |-> r.left, record |-> IF r.ok THEN r.out ELSE <<>>]
    /\ stage' = "decoded"
    /\ UNCHANGED <<message, value, wire, intact>>

Next ==
    \/ Send
    \/ \E i \in DOMAIN wire.tokens, all \in BOOLEAN : Cut(i, all)
    \/ \E i \in DOMAIN wire.tokens : Respell(i)
    \/ Receive

Spec == Init /\ [][Next]_vars
-----------------------------------------------------------------------------
(* The record has no more elements in a vector than its decoder takes. *)
WithinLimits ==
    \A i \in DOMAIN Formats[message].dec :
        LET f == Formats[message].dec[i]
        IN  f.kind = "vector" => Len(value[f.name]) <= f.max

(* Whatever EncodeTo wrote without an error, and nothing happened to, Decode
   reads back field for field to the last byte: the two functions agree on
   order and width.  And no vector, however long, is turned away because its
   elements are shorter than the minimum the decoder divides by. *)
RoundTrip ==
    stage = "decoded" /\ intact /\ WithinLimits =>
        /\ result = [ok |-> TRUE, left |-> 0, record |-> value]
        /\ \A i \in DOMAIN Formats[message].dec :
              LET f == Formats[message].dec[i]
              IN  f.kind = "vector" => f.min <= Bytes(WriteField(f.of, Least(f.of)))

(* A record has one encoding: what a decoder accepts is what the encoder
   writes for the record it returns.  A shortened wire, a varint spelled long
   and a bool that is neither 0 nor 1 are refused. *)
OneEncoding ==
    stage = "decoded" /\ result.ok =>
        LET tokens == Encode(message, result.record)
        IN  /\ tokens = wire.tokens
            /\ Bytes(tokens) = wire.bytes
=============================================================================
