----------------------------- MODULE HostMessage -----------------------------
(***************************************************************************)
(* The host message codecs: ISO 8583 (a bitmap announces which data        *)
(* elements follow, in order) and fixed-field (the definition's order), on *)
(* the same wire fields: fixed or length-prefixed, ASCII, UTF-8, hex or    *)
(* BCD, padded and stripped or not.                                        *)
(* A message of two fields is packed, the transport may cut it anywhere,   *)
(* and it is unpacked.  Characters and bytes are numbers; MTI and bitmaps  *)
(* are units of the header, a bitmap is its set of bits.                   *)
(***************************************************************************)
EXTENDS SequencesExt, FiniteSetsExt

CONSTANTS
  Definitions,  \* field definitions of the first field
  Elements,     \* pairs of data elements the two fields may have
  FieldValues(_)  \* values tried for a definition

Fields == 1..2
Space == 32
Digit(d) == 48 + d

VARIABLES
  codec, uses,  \* the message definition: per field its definition, element, presence
  given,        \* the values to pack: {} or {value} per field
  wire,         \* [parts, bits, body]: header units, bitmap bits and the fields' bytes
  cut,          \* whether the transport lost the end
  result,       \* of pack or unpack
  stage            \* "new", "packed", "decoded" or "refused"

messageVars == <<codec, uses, given, wire, cut, result, stage>>

Fails(code) == [ok |-> FALSE, code |-> code, value |-> <<>>, rest |-> <<>>]
Okay(value, rest) == [ok |-> TRUE, code |-> "", value |-> value, rest |-> rest]
-----------------------------------------------------------------------------
\* bytes.ts: two digits make a byte, and back.
hexToBytes(digits) == [i \in 1..(Len(digits) \div 2) |-> 16 * digits[2 * i - 1] + digits[2 * i]]
bytesToHex(bytes) ==
  [i \in 1..(2 * Len(bytes)) |-> LET b == bytes[(i + 1) \div 2]
                                 IN IF i % 2 = 1 THEN b \div 16 ELSE b % 16]
lastOf(s, n) == IF n >= Len(s) THEN s ELSE SubSeq(s, Len(s) - n + 1, Len(s))

encodeDecimalLength(n, width, bcd) ==
  LET all == <<0, (n \div 100) % 10, (n \div 10) % 10, n % 10>>
      digits == lastOf(all, width)
  IN IF bcd THEN hexToBytes(IF width % 2 = 0 THEN digits ELSE lastOf(all, width + 1))
     ELSE [i \in 1..width |-> Digit(digits[i])]

decodeDecimalLength(bytes, width, bcd) ==
  LET digits == IF bcd THEN lastOf(bytesToHex(bytes), width)
                ELSE [i \in DOMAIN bytes |-> bytes[i] - Digit(0)]
  IN IF \E i \in DOMAIN digits : digits[i] \notin 0..9 THEN -1
     ELSE FoldLeft(LAMBDA n, d : 10 * n + d, 0, digits)

encodeBcd(f, v) ==
  LET padded == IF Len(v) % 2 = 0 THEN v
                ELSE IF f.nibbleRight THEN Append(v, f.nibble) ELSE <<f.nibble>> \o v
  IN IF f.digitCount # 0 /\ Len(v) # f.digitCount THEN Fails("validationFailed")
     ELSE Okay(hexToBytes(padded), <<>>)

\* Mutant: the pad nibble is always taken to be the first.
decodeBcdLeft(f, bytes, logical) ==
  LET length == IF logical # -1 THEN logical ELSE IF f.digitCount # 0 THEN f.digitCount ELSE 2 * Len(bytes)
      digits == IF length % 2 = 0 THEN bytesToHex(bytes) ELSE lastOf(bytesToHex(bytes), length)
  IN IF \E i \in DOMAIN digits : digits[i] > 9 THEN Fails("decodeFailed") ELSE Okay(digits, <<>>)
decodeBcd(f, bytes, logical) ==
  LET hex == bytesToHex(bytes)
      length == IF logical # -1 THEN logical ELSE IF f.digitCount # 0 THEN f.digitCount ELSE Len(hex)
      digits == IF length % 2 = 0 THEN hex
                ELSE IF f.nibbleRight THEN SubSeq(hex, 1, Min({length, Len(hex)}))
                ELSE lastOf(hex, length)
  IN IF \E i \in DOMAIN digits : digits[i] > 9 THEN Fails("decodeFailed") ELSE Okay(digits, <<>>)

\* TextEncoder, and TextDecoder with fatal: characters of one and of two bytes.
encodeUtf8(v) ==
  FlattenSeq([i \in DOMAIN v |-> IF v[i] < 128 THEN <<v[i]>>
                                 ELSE <<192 + v[i] \div 64, 128 + (v[i] % 64)>>])
decodeUtf8(bytes) ==
  LET leads == {i \in DOMAIN bytes : bytes[i] \in 194..223}
      trails == {i \in DOMAIN bytes : bytes[i] \in 128..191}
      starts == SetToSortSeq(DOMAIN bytes \ trails, <)
      charAt(i) == IF i \in leads THEN (bytes[i] - 192) * 64 + bytes[i + 1] - 128 ELSE bytes[i]
  IN IF \/ \E i \in DOMAIN bytes \ (leads \cup trails) : bytes[i] > 127
        \/ trails # {i + 1 : i \in leads}
     THEN Fails("decodeFailed") ELSE Okay([k \in DOMAIN starts |-> charAt(starts[k])], <<>>)

\* field-codecs.ts; binary differs from ascii in nothing that happens to the bytes.
encodeFieldValue(f, v) ==
  CASE f.encoding = "bcd" -> encodeBcd(f, v)
    [] f.encoding = "utf8" -> Okay(encodeUtf8(v), <<>>)
    [] f.encoding = "ascii-hex" -> IF Len(v) % 2 = 1 THEN Fails("decodeFailed") ELSE Okay(hexToBytes(v), <<>>)
    [] OTHER -> Okay(v, <<>>)
decodeFieldValue(f, bytes, logical) ==
  CASE f.encoding = "bcd" -> decodeBcd(f, bytes, logical)
    [] f.encoding = "utf8" -> decodeUtf8(bytes)
    [] f.encoding = "ascii-hex" -> Okay(bytesToHex(bytes), <<>>)
    [] OTHER -> Okay(bytes, <<>>)

validateValue(f, v) == f.allowBlank \/ v # <<>>

padBytes(f, bytes) ==
  LET padding == [i \in 1..(f.bytes - Len(bytes)) |-> Space] IN
  IF Len(bytes) > f.bytes THEN Fails("overflow")
  ELSE IF Len(bytes) < f.bytes /\ f.padding = "none" THEN Fails("lengthMismatch")
  ELSE Okay(IF f.padding = "left" THEN padding \o bytes ELSE bytes \o padding, <<>>)

\* Only a padding with stripOnDecode is taken off again.
stripPadding(f, bytes) ==
  LET kept == {i \in DOMAIN bytes : bytes[i] # Space} IN
  IF f.padding = "none" \/ ~f.strip THEN bytes ELSE IF kept = {} THEN <<>>
  ELSE IF f.padding = "left" THEN SubSeq(bytes, Min(kept), Len(bytes))
  ELSE SubSeq(bytes, 1, Max(kept))

packWireField(f, v) ==
  LET encoded == encodeFieldValue(f, v)
      logical == IF f.digits THEN Len(v) ELSE Len(encoded.value)
  IN IF ~validateValue(f, v) THEN Fails("validationFailed")
     ELSE IF ~encoded.ok THEN encoded
     ELSE IF f.bytes # 0 THEN padBytes(f, encoded.value)
     ELSE IF logical > f.maxLength THEN Fails("limitExceeded")
     ELSE Okay(encodeDecimalLength(logical, f.width, f.lengthBcd) \o encoded.value, <<>>)

prefixBytes(f) == IF f.bytes # 0 THEN 0 ELSE IF f.lengthBcd THEN (f.width + 1) \div 2 ELSE f.width

\* A length of -1 is an invalid prefix, a logical length of -1 an unknown one.
unpackWireField(f, body) ==
  LET n == prefixBytes(f)
      length == IF f.bytes # 0 THEN f.bytes
                ELSE decodeDecimalLength(SubSeq(body, 1, n), f.width, f.lengthBcd)
      wireLength == IF f.bytes = 0 /\ f.digits /\ f.encoding = "bcd" THEN (length + 1) \div 2 ELSE length
      logical == IF f.bytes = 0 /\ f.digits THEN length ELSE -1
      rest == SubSeq(body, n + 1, Len(body))
      decoded == decodeFieldValue(f, stripPadding(f, SubSeq(rest, 1, wireLength)), logical)
  IN IF Len(body) < n THEN Fails("truncated")
     ELSE IF length = -1 THEN Fails("invalidLengthPrefix")
     ELSE IF f.bytes = 0 /\ length > f.maxLength THEN Fails("limitExceeded")
     ELSE IF Len(rest) < wireLength THEN Fails("truncated")
     ELSE IF ~decoded.ok THEN decoded
     ELSE IF ~validateValue(f, decoded.value) THEN Fails("validationFailed")
     ELSE Okay(decoded.value, SubSeq(rest, wireLength + 1, Len(rest)))

canReturnPartial(code) ==
  code \in {"truncated", "decodeFailed", "validationFailed", "invalidLengthPrefix"}
-----------------------------------------------------------------------------
Nothing == [i \in Fields |-> {}]
Decoded(status, fields) == [status |-> status, fields |-> fields]
Stopped(code, fields, partial) ==
  IF partial /\ canReturnPartial(code) THEN Decoded("partial", fields) ELSE Decoded("failed", Nothing)

\* The order of the wire: by data element, or as the definition lists them.
wireOrder(S) == SetToSortSeq(S, LAMBDA i, j :
                  IF codec = "iso8583" THEN uses[i].element < uses[j].element ELSE i < j)

\* A missing field that must be there, or a forbidden one that is.
refused ==
  \E i \in Fields :
    \/ codec = "iso8583" /\ uses[i].presence = "forbidden" /\ given[i] # {}
    \/ uses[i].presence = "required" /\ given[i] = {}

packed == {i \in Fields : given[i] # {} /\ uses[i].presence # "forbidden"}
packedFields ==
  [k \in 1..Cardinality(packed) |->
     LET i == wireOrder(packed)[k] IN packWireField(uses[i].field, CHOOSE v \in given[i] : TRUE)]

\* Bit 1 announces the secondary bitmap.
bitmap(S) == S \cup (IF \E e \in S : e > 64 THEN {1} ELSE {})

Pack ==
  /\ stage = "new"
  /\ IF refused \/ \E k \in DOMAIN packedFields : ~packedFields[k].ok
       THEN stage' = "refused" /\ UNCHANGED wire
       ELSE /\ stage' = "packed"
            /\ LET bits == IF codec = "iso8583" THEN bitmap({uses[i].element : i \in packed}) ELSE {}
               IN wire' = [parts |-> IF codec # "iso8583" THEN 0 ELSE IF 1 \in bits THEN 3 ELSE 2,
                           bits |-> bits,
                           body |-> FlattenSeq([k \in DOMAIN packedFields |-> packedFields[k].value])]
  /\ UNCHANGED <<codec, uses, given, cut, result>>

\* The transport delivers a proper beginning of the message.
Truncate(parts, bytes) ==
  /\ stage = "packed" /\ ~cut /\ cut' = TRUE
  /\ parts <= wire.parts /\ bytes <= Len(wire.body)
  /\ parts < wire.parts => bytes = 0
  /\ parts < wire.parts \/ bytes < Len(wire.body)
  /\ wire' = [wire EXCEPT !.parts = parts, !.body = SubSeq(@, 1, bytes)]
  /\ UNCHANGED <<codec, uses, given, result, stage>>

\* One field is read; the first failure ends the walk.
readField(state, i) ==
  LET next == unpackWireField(uses[i].field, state.rest) IN
  IF state.code # "" THEN state
  ELSE IF ~next.ok THEN [state EXCEPT !.code = next.code]
  ELSE [state EXCEPT !.rest = next.rest, !.fields[i] = {next.value}]

\* A trailing optional field may be absent altogether.
readListed(state, i) ==
  IF uses[i].presence = "forbidden" \/ (state.rest = <<>> /\ uses[i].presence = "optionalTrailing")
  THEN state ELSE readField(state, i)

ended(state, partial) ==
  IF state.code # "" THEN Stopped(state.code, state.fields, partial)
  ELSE IF state.rest # <<>> THEN Decoded("failed", Nothing)
  ELSE Decoded("complete", state.fields)

start == [code |-> "", rest |-> wire.body, fields |-> Nothing]

unpackFixed(partial) == ended(FoldLeft(readListed, start, <<1, 2>>), partial)

unpackIso(partial) ==
  LET secondary == 1 \in wire.bits
      present == {e \in wire.bits : e # 1 /\ (secondary \/ e <= 64)}
      fieldOf(e) == CHOOSE i \in Fields : uses[i].element = e
  IN IF wire.parts < (IF secondary THEN 3 ELSE 2) THEN Stopped("truncated", Nothing, partial)
     ELSE IF \/ \E e \in present : \A i \in Fields : uses[i].element # e
             \/ \E i \in Fields : uses[i].presence = "required" /\ uses[i].element \notin present
             \/ \E e \in present : uses[fieldOf(e)].presence = "forbidden"
          THEN Decoded("failed", Nothing)
     ELSE ended(FoldLeft(readField, start, wireOrder({fieldOf(e) : e \in present})), partial)

Unpack(partial) ==
  /\ stage = "packed" /\ stage' = "decoded"
  /\ result' = IF codec = "iso8583" THEN unpackIso(partial) ELSE unpackFixed(partial)
  /\ UNCHANGED <<codec, uses, given, wire, cut>>

\* What a registered profile may say: optional trailing fields stay at the tail.
validateMessage(c, presence) ==
  /\ c = "iso8583" => \A i \in Fields : presence[i] # "optionalTrailing"
  /\ c = "fixed-field" /\ presence[1] = "optionalTrailing" => presence[2] = "optionalTrailing"

MessageInit ==
  /\ codec \in {"iso8583", "fixed-field"}
  /\ \E first \in Definitions, second \in Definitions, pair \in Elements,
        presence \in [Fields -> {"required", "optional", "optionalTrailing", "forbidden"}] :
       /\ second.plain /\ validateMessage(codec, presence)
       /\ uses = [i \in Fields |-> [field |-> IF i = 1 THEN first ELSE second,
                                    element |-> pair[i], presence |-> presence[i]]]
  /\ \E v \in FieldValues(uses[1].field), w \in FieldValues(uses[2].field) :
       given \in [Fields -> {{}, {v}, {w}}] /\ given[1] \in {{}, {v}} /\ given[2] \in {{}, {w}}
  /\ wire = [parts |-> 0, bits |-> {}, body |-> <<>>] /\ cut = FALSE
  /\ result = Decoded("none", Nothing) /\ stage = "new"

\* Nothing is defined and nothing is packed.
NoMessage ==
  /\ codec = "iso8583" /\ uses = <<>> /\ given = Nothing /\ wire = <<>> /\ cut = FALSE
  /\ result = Decoded("none", Nothing) /\ stage = "new"

MessageNext ==
  \/ Pack
  \/ \E parts \in 0..3, bytes \in 0..10 : Truncate(parts, bytes)
  \/ \E partial \in BOOLEAN : Unpack(partial)
-----------------------------------------------------------------------------
(* What a decoder can know of a value: where padding is stripped, the      *)
(* padding characters at the padded end are lost; where it is not, the      *)
(* value comes back at its full width; an odd digit string whose length is *)
(* not transmitted keeps its pad nibble.                                    *)
Canonical(f, v) ==
  IF f.padding # "none" THEN (IF f.strip THEN stripPadding(f, v) ELSE padBytes(f, v).value)
  ELSE IF f.encoding = "bcd" /\ ~f.digits /\ f.digitCount = 0 /\ Len(v) % 2 = 1
       THEN (IF f.nibbleRight THEN Append(v, f.nibble) ELSE <<f.nibble>> \o v)
       ELSE v
Sent == [i \in Fields |-> IF i \notin packed THEN {} ELSE {Canonical(uses[i].field, v) : v \in given[i]}]
Readable == \A i \in packed : \A v \in Sent[i] : validateValue(uses[i].field, v)

\* In the fixed-field layout a field can be left out only at the very end.
Unambiguous ==
  codec = "fixed-field" =>
    \A i \in Fields \ packed : uses[i].presence # "forbidden" =>
      uses[i].presence = "optionalTrailing" /\ \A j \in packed : j < i

(* field-codecs.ts: a prefix in digits counts the characters of the value, *)
(* and unpack reads that many bytes of everything but bcd: utf8 beyond     *)
(* ASCII leaves bytes to its neighbour, ascii-hex takes bytes from it.     *)
Miscounted(f, v) ==
  /\ f.bytes = 0 /\ f.digits /\ f.encoding # "bcd"
  /\ Len(encodeFieldValue(f, v).value) # Len(v)
WellCounted == \A i \in packed : \A v \in given[i] : ~Miscounted(uses[i].field, v)

(* A message that pack() accepts and that arrives whole is unpacked to the *)
(* same fields, for every mix of encodings, paddings, odd digit counts,    *)
(* length prefixes and bitmaps but the miscounted ones: no field takes a   *)
(* byte of its neighbour.                                                  *)
RoundTrip ==
  stage = "decoded" /\ ~cut /\ Readable /\ Unambiguous /\ WellCounted => result = Decoded("complete", Sent)

(* A message that was cut is never taken for a complete one, unless the    *)
(* cut removed exactly optional trailing fields.                           *)
CutIsNoticed ==
  stage = "decoded" /\ cut /\ Unambiguous /\ WellCounted /\ result.status = "complete"
    => /\ \A i \in Fields : result.fields[i] # Sent[i] => uses[i].presence = "optionalTrailing"
       /\ codec = "fixed-field"

(* A partial result contains only fields that were received, decoded and   *)
(* validated completely, with the values that were sent.                   *)
PartialIsTrue ==
  stage = "decoded" /\ Unambiguous /\ WellCounted /\ result.status = "partial"
    => \A i \in Fields : result.fields[i] \subseteq Sent[i]

(* pack, unpack: whole messages come back as they were sent, cut ones are  *)
(* noticed, and what is salvaged of them is true.                          *)
MessageSurvives == RoundTrip /\ CutIsNoticed /\ PartialIsTrue
=============================================================================
