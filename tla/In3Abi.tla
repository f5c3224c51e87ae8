------------------------------- MODULE In3Abi -------------------------------
(***************************************************************************)
(* in3-c's contract calls (api/eth1/abi.c): a signature is parsed into the  *)
(* types of its parameters and results, the arguments are encoded into the  *)
(* data of a call, and the data of an answer is decoded.                    *)
(*                                                                         *)
(* The buffer is one of real bytes; a word has Word bytes instead of 32, an *)
(* address Address instead of 20, and the function's hash Selector instead  *)
(* of 4.  The text of a signature is its parameters; a nested tuple is a    *)
(* parameter whose own parameters are listed.  A value of a type is the     *)
(* bytes that d_to_bytes gives for it, an array or a tuple their sequence.  *)
(***************************************************************************)
EXTENDS Integers, Sequences, SequencesExt, FiniteSetsExt

CONSTANTS Word, Address, Selector

Zeros(n) == [k \in 1 .. n |-> 0]
Bytes(n, v) == [k \in 1 .. n |-> (v \div 256^(n - k)) % 256]
Number(s) == FoldLeft(LAMBDA v, b : v * 256 + b, 0, s)
-----------------------------------------------------------------------------
(* Types: a token [type, len, array], with the tuple's own tokens in parts; *)
(* array is 0 for a single value, -1 for a dynamic array.                   *)

Token(type, len, array) == [type |-> type, len |-> len, array |-> array, parts |-> <<>>]
Bad == [type |-> "bad", len |-> 0, array |-> 0, parts |-> <<>>]

\* add_token: the array's brackets, then the name and its digits.
AddToken(p) ==
  LET len == CASE p.name = "address" -> Address
               [] p.name \in {"uint", "int"} -> IF p.digits = 0 THEN Word ELSE p.digits \div 8
               [] p.name = "bool" -> 1
               [] p.name = "bytes" -> p.digits
               [] OTHER -> 0
  IN  IF p.name \in {"address", "uint", "int", "bool", "bytes", "string"} THEN Token(p.name, len, p.array) ELSE Bad

\* escape_tuples, remove_parens: the parentheses inside the outer ones are taken out, so that the
\* parts of a nested tuple become parameters of their own.
RECURSIVE Escaped(_)
Escaped(ps) == FlattenSeq([k \in DOMAIN ps |-> IF ps[k].name = "(" THEN Escaped(ps[k].parts) ELSE <<ps[k]>>])

\* parse_tuple, called by parseSignature once for the parameters and once for the results
ParseTuple(ps) ==
  LET parts == [k \in DOMAIN Escaped(ps) |-> AddToken(Escaped(ps)[k])]
  IN  IF \E k \in DOMAIN parts : parts[k] = Bad THEN Bad
      ELSE [type |-> "tuple", len |-> Len(parts), array |-> 0, parts |-> parts]
-----------------------------------------------------------------------------
(* Sizes *)

WordSize(n) == (n + Word - 1) \div Word

IsDynamicType(t) == t.array < 0 \/ (t.len = 0 /\ t.type \in {"string", "bytes"})
IsDynamic(t) == IsDynamicType(t) \/ (t.type = "tuple" /\ \E k \in DOMAIN t.parts : IsDynamicType(t.parts[k]))

\* head_size of a part (single = false)
HeadSize(t) ==
  IF IsDynamic(t) THEN Word
  ELSE (IF t.type \in {"bytes", "string"} THEN WordSize(t.len) * Word ELSE Word) * (IF t.array > 0 THEN t.array ELSE 1)
\* head_size of the tuple itself (single = true)
TupleHeadSize(t) == FoldLeft(LAMBDA n, p : n + HeadSize(p), 0, t.parts)
-----------------------------------------------------------------------------
(* Encoding.  A state is [buf, head]; positions count from 0 as in the code. *)

\* check_buffer: the buffer reaches up to pos.
CheckBuffer(buf, pos) == IF pos > Len(buf) THEN buf \o Zeros(pos - Len(buf)) ELSE buf
Put(buf, p, s) == [k \in 1 .. Len(CheckBuffer(buf, p + Len(s))) |->
                     IF k \in p + 1 .. p + Len(s) THEN s[k - p] ELSE CheckBuffer(buf, p + Len(s))[k]]
Written(s, bytes) == [s EXCEPT !.buf = Put(@, s.head, bytes), !.head = @ + Len(bytes)]

\* write_uint256
WriteUint(s, v) == Written(s, Bytes(Word, v))
\* write_right, write_left: a whole number of words, filled up with zeros
WriteRight(s, data) ==
  LET l == IF data = <<>> THEN Word ELSE WordSize(Len(data)) * Word
  IN  Written(s, Zeros(l - Len(data)) \o data)
WriteLeft(s, data) == Written(s, data \o Zeros((WordSize(Len(data)) * Word) - Len(data)))

\* twos_complement: the bits above the lowest one that is set are toggled.
Bits(s) == [k \in 0 .. (8 * Len(s)) - 1 |-> (s[(k \div 8) + 1] \div 2^(k % 8)) % 2]
OfBits(n, bits) == [i \in 1 .. n |-> FoldSet(LAMBDA k, v : v + bits[(8 * (i - 1)) + k] * 2^k, 0, 0 .. 7)]
TwosComplement(s) ==
  LET bits == Bits(s)
      lowest == {k \in DOMAIN bits : bits[k] = 1 /\ \A j \in 0 .. k - 1 : bits[j] = 0}
  IN  Reverse(OfBits(Len(s), [k \in DOMAIN bits |-> IF \E j \in lowest : k > j THEN 1 - bits[k] ELSE bits[k]]))
\* encode's A_INT for a string "-n"
EncodeNegative(n) == TwosComplement(Reverse(Bytes(Word, n)))

\* encode's switch
EncodeValue(s, t, d) ==
  IF t.type \in {"bytes", "string"}
  THEN WriteLeft(IF t.len = 0 THEN WriteUint(s, Len(d)) ELSE s, d)
  ELSE WriteRight(s, d)
EncodeArray(s, t, d) == FoldLeft(LAMBDA r, x : EncodeValue(r, t, x), s, d)
\* encode of a value whose place is s.head: its count if it is dynamic, then its elements
EncodeHere(s, t, d) ==
  IF t.array < 0 THEN EncodeArray(WriteUint(s, Len(d)), t, d)
  ELSE IF t.array > 0 THEN EncodeArray(s, t, d) ELSE EncodeValue(s, t, d)
WrongSize(t, d) == t.array > 0 /\ Len(d) # t.array

\* encode of a part: a dynamic one is put at the tail and its offset at the head.
EncodePart(s, t, d, tail) ==
  IF IsDynamic(t)
  THEN [buf |-> EncodeHere([WriteUint(s, tail - Selector) EXCEPT !.head = tail], t, d).buf, head |-> s.head + Word]
  ELSE EncodeHere(s, t, d)

\* set_data: the tuple of the arguments behind the function's hash; <<>> if they do not fit.
Encode(tuple, args) ==
  LET start == Selector + TupleHeadSize(tuple)
      part(s, k) == EncodePart(s, tuple.parts[k], args[k], IF Len(s.buf) > start THEN Len(s.buf) ELSE start)
  IN  IF Len(args) # tuple.len \/ \E k \in DOMAIN args : WrongSize(tuple.parts[k], args[k]) THEN <<>>
      ELSE FoldLeft(part, [buf |-> CheckBuffer(Zeros(Selector), start), head |-> Selector],
                    [k \in 1 .. Len(args) |-> k]).buf
-----------------------------------------------------------------------------
(* Decoding: get_data at an offset gives [value, next] *)

\* Nothing checks that the data is long enough; a byte behind it counts as zero here.
At(data, p, n) == [k \in 1 .. n |-> IF p + k <= Len(data) THEN data[p + k] ELSE 0]
Optimized(s) == LET used == {k \in 1 .. Len(s) : s[k] # 0} IN SubSeq(s, IF used = {} THEN Len(s) ELSE Min(used), Len(s))

GetValue(t, data, p) ==
  LET word == At(data, p, Word)
      place == Number(word)
      dynamic == t.len = 0 /\ t.type \in {"string", "bytes"}
  IN  CASE t.type = "uint" -> [value |-> Optimized(word), next |-> p + Word]
        [] t.type = "bool" -> [value |-> IF Optimized(word) = <<0>> THEN <<0>> ELSE <<1>>, next |-> p + Word]
        [] t.type = "address" -> [value |-> At(data, p + Word - Address, Address), next |-> p + Word]
        [] t.type \in {"string", "bytes"} ->
             IF dynamic THEN [value |-> At(data, place + Word, Number(At(data, place, Word))), next |-> p + Word]
             ELSE [value |-> At(data, p, t.len), next |-> p + (WordSize(t.len) * Word)]
\* A_INT: the number below zero that the word stands for is -n; the upper bytes (24 of 32) are
\* not read.
DecodeNegative(word) == 1 + Number(Reverse(At(TwosComplement(word), 0, Word - 1)))

GetList(ts, data, p) ==
  FoldLeft(LAMBDA r, t : LET v == GetValue(t, data, r.next) IN [value |-> Append(r.value, v.value), next |-> v.next],
           [value |-> <<>>, next |-> p], ts)
\* Mutant of GetData: an array's elements are counted but not passed over.
GetDataInPlace(t, data, p) ==
  LET list == GetList([k \in 1 .. t.array |-> [t EXCEPT !.array = 0]], data, p)
      place == Number(At(data, p, Word))
  IN  CASE t.array = 0 -> GetValue(t, data, p)
        [] t.array > 0 -> [list EXCEPT !.next = p + Word]
        [] t.array < 0 ->
             [GetList([k \in 1 .. Number(At(data, place, Word)) |-> [t EXCEPT !.array = 0]], data, place + Word) EXCEPT !.next = p + Word]
GetData(t, data, p) ==
  LET place == Number(At(data, p, Word))
      element == [t EXCEPT !.array = 0]
  IN  CASE t.array = 0 -> GetValue(t, data, p)
        [] t.array > 0 -> GetList([k \in 1 .. t.array |-> element], data, p)
        [] t.array < 0 ->
             [GetList([k \in 1 .. Number(At(data, place, Word)) |-> element], data, place + Word) EXCEPT !.next = p + Word]

\* req_parse_result: the values of the tuple of results
ParseResult(tuple, data) ==
  FoldLeft(LAMBDA r, t : LET v == GetData(t, data, r.next) IN [value |-> Append(r.value, v.value), next |-> v.next],
           [value |-> <<>>, next |-> 0], tuple.parts).value
-----------------------------------------------------------------------------
(* What the encoding has to be: the contract ABI, stated without a buffer *)

Fill(s) == Zeros((WordSize(Len(s)) * Word) - Len(s))
AbiValue(t, d) ==
  IF t.type \in {"bytes", "string"} THEN (IF t.len = 0 THEN Bytes(Word, Len(d)) ELSE <<>>) \o d \o Fill(d)
  ELSE Zeros(Word - Len(d)) \o d
AbiBody(t, d) ==
  CASE t.array = 0 -> AbiValue(t, d)
    [] t.array > 0 -> FlattenSeq([k \in DOMAIN d |-> AbiValue(t, d[k])])
    [] t.array < 0 -> Bytes(Word, Len(d)) \o FlattenSeq([k \in DOMAIN d |-> AbiValue(t, d[k])])
Abi(tuple, args) ==
  LET body == [k \in DOMAIN args |-> AbiBody(tuple.parts[k], args[k])]
      dynamic == {k \in DOMAIN args : IsDynamicType(tuple.parts[k])}
      size(ks) == FoldSet(LAMBDA k, n : n + Len(body[k]), 0, ks)
      heads == size(DOMAIN args \ dynamic) + (Word * Cardinality(dynamic))
      head(k) == IF k \in dynamic THEN Bytes(Word, heads + size({j \in dynamic : j < k})) ELSE body[k]
  IN  FlattenSeq([k \in DOMAIN args |-> head(k)])
        \o FlattenSeq([k \in DOMAIN args |-> IF k \in dynamic THEN body[k] ELSE <<>>])

\* The data of a call is the ABI's encoding of its arguments behind the function's hash, here
\* zeros (abi.c, encode).
CallIsAbi(params, args) ==
  LET tuple == ParseTuple(params) IN tuple # Bad => Encode(tuple, args) = Zeros(Selector) \o Abi(tuple, args)
\* What a contract returns is decoded to the values it returned (abi.c, get_data).
ResultIsItsValues(params, args) ==
  LET tuple == ParseTuple(params) IN tuple # Bad => ParseResult(tuple, Abi(tuple, args)) = args
\* A number below zero is encoded to its two's complement and decoded from it.
NegativesAreKept(n) == /\ Number(EncodeNegative(n)) = 256^Word - n
                       /\ n < 256^(Word - 1) => DecodeNegative(Bytes(Word, 256^Word - n)) = n
=============================================================================
