------------------------------- MODULE In3Json -------------------------------
(***************************************************************************)
(* in3-c's tokens (core/util/data.c): JSON text and the binary format are   *)
(* parsed into one flat list of tokens, where a container is followed by    *)
(* everything in it; the accessors d_get, d_get_at, d_next walk this list,  *)
(* and d_to_bytes, d_int and d_long convert the value of one token.         *)
(*                                                                         *)
(* A text is a sequence of lexemes: brackets, "," and ":", "str", "hex" and  *)
(* "num" with their content, the words true, false and null, and "bad" for  *)
(* any other character.  A key is its name; that two names may have one     *)
(* 16-bit hash is not modelled.                                             *)
(***************************************************************************)
EXTENDS Integers, Sequences, SequencesExt, FiniteSets

CONSTANT DepthMax      \* DATA_DEPTH_MAX

Types == {"bytes", "string", "array", "object", "boolean", "integer", "null"}
Container(t) == t.type \in {"array", "object"}
IntLimit == 2^28       \* an integer token keeps its value beside its type in 32 bits

BytesOf(n, v) == [k \in 1 .. n |-> (v \div 256^(n - k)) % 256]
MinBytesLen(v) == CHOOSE n \in 0 .. 4 : (n = 4 \/ v < 256^n) /\ \A m \in 0 .. n - 1 : v >= 256^m
NumberOf(base, digits) == FoldLeft(LAMBDA v, d : v * base + d, 0, digits)
Token(type, key, len, data) == [type |-> type, key |-> key, len |-> len, data |-> data]
-----------------------------------------------------------------------------
(* Parsing JSON *)

\* parse_string of "0x...": up to seven digits are an integer, more are bytes, and so are
\* digits that begin with 00.
HexToken(key, digits) ==
  LET odd == Len(digits) % 2
      byte(k) == IF odd = 1 THEN (IF k = 1 THEN digits[1] ELSE digits[2 * k - 2] * 16 + digits[2 * k - 1])
                 ELSE digits[2 * k - 1] * 16 + digits[2 * k]
  IN  CASE digits = <<>> -> Token("bytes", key, 0, <<>>)
        [] Len(digits) \in 1 .. 7 /\ ~(Len(digits) > 1 /\ digits[1] = 0 /\ digits[2] = 0) ->
             Token("integer", key, NumberOf(16, digits), <<>>)
        [] OTHER -> Token("bytes", key, (Len(digits) + odd) \div 2,
                          [k \in 1 .. (Len(digits) + odd) \div 2 |-> byte(k)])

\* parse_number: a negative number becomes a string, a large one bytes, what follows "." is
\* skipped, and twenty digits are too many.
NumToken(key, neg, digits) ==
  LET v == NumberOf(10, digits)
  IN  CASE neg -> Token("string", key, Len(digits) + 1, <<"-">> \o digits)
        [] ~neg /\ v < IntLimit -> Token("integer", key, v, <<>>)
        [] ~neg /\ v >= IntLimit -> Token("bytes", key, MinBytesLen(v), BytesOf(MinBytesLen(v), v))

\* parsed_next_item
Added(p, parent, token) ==
  [p EXCEPT !.tokens = Append(IF parent = 0 THEN @ ELSE [@ EXCEPT ![parent].len = @ + 1], token),
            !.at = @ + 1]
Failed(p, code) == [p EXCEPT !.res = code]
Lexeme(p) == IF p.at > Len(p.text) THEN [lex |-> "end"] ELSE p.text[p.at]

RECURSIVE ParseValue(_, _, _)

RECURSIVE ParseProps(_, _)
\* The loop of parse_object over the properties of one object; one "," may come before "}".
ParseProps(p, self) ==
  LET colon == Lexeme([p EXCEPT !.at = @ + 1]).lex = ":"
      q == ParseValue([p EXCEPT !.at = @ + 2], self, Lexeme(p).data)
  IN  CASE Lexeme(p).lex = "}" -> [p EXCEPT !.at = @ + 1, !.depth = @ - 1]
        [] Lexeme(p).lex = "str" /\ colon ->
             IF q.res < 0 THEN q
             ELSE CASE Lexeme(q).lex = "," -> ParseProps([q EXCEPT !.at = @ + 1], self)
                    [] Lexeme(q).lex = "}" -> [q EXCEPT !.at = @ + 1, !.depth = @ - 1]
                    [] OTHER -> Failed(q, -2)
        [] OTHER -> Failed(p, -2)

RECURSIVE ParseItems(_, _)
\* The loop over the elements of one array.
ParseItems(p, self) ==
  LET q == ParseValue(p, self, p.tokens[self].len)
  IN  IF q.res < 0 THEN q
      ELSE CASE Lexeme(q).lex = "," -> ParseItems([q EXCEPT !.at = @ + 1], self)
             [] Lexeme(q).lex = "]" -> [q EXCEPT !.at = @ + 1, !.depth = @ - 1]
             [] OTHER -> Failed(q, -2)

\* parse_object
ParseValue(p, parent, key) ==
  LET l == Lexeme(p)
      self == Len(p.tokens) + 1
      scalar(token) == Added(p, parent, token)
      open(type) == [Added(p, parent, Token(type, key, 0, p.at)) EXCEPT !.depth = @ + 1]
      array == open("array")
  IN  CASE p.depth > DepthMax -> Failed(p, -3)
        [] p.depth <= DepthMax /\ l.lex = "{" -> ParseProps(open("object"), self)
        [] p.depth <= DepthMax /\ l.lex = "[" ->
             IF Lexeme(array).lex = "]" THEN [array EXCEPT !.at = @ + 1, !.depth = @ - 1]
             ELSE ParseItems(array, self)
        [] p.depth <= DepthMax /\ l.lex = "str" -> scalar(Token("string", key, Len(l.data), l.data))
        [] p.depth <= DepthMax /\ l.lex = "hex" -> scalar(HexToken(key, l.data))
        [] p.depth <= DepthMax /\ l.lex = "num" ->
             IF Len(l.data) >= 20 THEN Failed(p, -2) ELSE scalar(NumToken(key, l.neg, l.data))
        [] p.depth <= DepthMax /\ l.lex \in {"true", "false"} ->
             scalar(Token("boolean", key, IF l.lex = "true" THEN 1 ELSE 0, <<>>))
        [] p.depth <= DepthMax /\ l.lex = "null" -> scalar(Token("null", key, 0, <<>>))
        [] OTHER -> Failed(p, -2)

\* parse_json; what follows the first value is not looked at.
ParseJson(text) == ParseValue([text |-> text, at |-> 1, tokens |-> <<>>, depth |-> 0, res |-> 0], 0, 0)
-----------------------------------------------------------------------------
(* Walking the tokens *)

\* d_token_size
RECURSIVE TokenSize(_, _)
TokenSize(ts, i) ==
  IF ~Container(ts[i]) THEN 1
  ELSE FoldLeft(LAMBDA c, k : c + TokenSize(ts, i + c), 1, [k \in 1 .. ts[i].len |-> k])
\* d_next
NextOf(ts, i) == i + TokenSize(ts, i)
\* Where the children of the container at i are, as d_iter and d_iter_next go through them.  (On a
\* token that is no container the code takes its value for the number of children.)
Children(ts, i) ==
  IF ~Container(ts[i]) \/ ts[i].len = 0 THEN <<>>
  ELSE FoldLeft(LAMBDA c, k : Append(c, NextOf(ts, Last(c))), <<i + 1>>, [k \in 1 .. ts[i].len - 1 |-> k])
\* d_get, d_get_at, d_get_or: 0 if there is none.
Get(ts, i, key) == LET c == SelectSeq(Children(ts, i), LAMBDA j : ts[j].key = key) IN IF c = <<>> THEN 0 ELSE c[1]
GetAt(ts, i, index) == LET c == Children(ts, i) IN IF index < Len(c) THEN c[index + 1] ELSE 0
GetOr(ts, i, key, other) ==
  LET c == SelectSeq(Children(ts, i), LAMBDA j : ts[j].key = other)
  IN  IF Get(ts, i, key) # 0 THEN Get(ts, i, key) ELSE IF c = <<>> THEN 0 ELSE Last(c)

\* d_eq: the set of what it may return.  The length that two strings are compared with still
\* has the type's bits, so equal strings are read far beyond their ends.
RECURSIVE TokenEq(_, _, _, _)
TokenEq(ts, i, us, j) ==
  LET all(rs) == IF rs = {} THEN {TRUE} ELSE {\A r \in DOMAIN f : f[r] : f \in {g \in [rs -> BOOLEAN] : \A r \in rs : g[r] \in r}}
      cs == Children(ts, i)
      ds == Children(us, j)
      at(k) == IF ts[i].type = "array" THEN ds[k] ELSE Get(us, j, ts[cs[k]].key)
      leaf == IF ts[i].type = "string" /\ ts[i].data = us[j].data THEN BOOLEAN
              ELSE {ts[i].type \notin {"string", "bytes"} \/ ts[i].data = us[j].data}
  IN  IF ts[i].type # us[j].type \/ ts[i].len # us[j].len THEN {FALSE}
      ELSE IF ~Container(ts[i]) THEN leaf
      ELSE all({IF at(k) = 0 THEN {FALSE} ELSE TokenEq(ts, cs[k], us, at(k)) : k \in DOMAIN cs})

\* find_end, d_to_json: a container's text is cut where the brackets balance, those in a string
\* included; a string says how many more it opens than it closes.
FindEnd(text, at) ==
  LET opens(l) == CASE l.lex \in {"{", "["} -> 1 [] l.lex \in {"}", "]"} -> -1
                    [] l.lex = "str" -> l.braces [] OTHER -> 0
      level(k) == FoldLeft(LAMBDA n, l : n + opens(l), 0, SubSeq(text, at, k))
      ends == {k \in at .. Len(text) : level(k) <= 0}
  IN  IF ends = {} THEN Len(text) ELSE CHOOSE k \in ends : \A m \in ends : k <= m
ToJson(p, i) == SubSeq(p.text, p.tokens[i].data, FindEnd(p.text, p.tokens[i].data))
-----------------------------------------------------------------------------
(* The value of a token *)

\* bytes_to_int of the first four bytes, bytes_to_long of all
IntOf(t, default) ==
  CASE t.type \in {"integer", "boolean"} -> t.len
    [] t.type = "bytes" -> NumberOf(256, SubSeq(t.data, 1, IF t.len < 4 THEN t.len ELSE 4))
    [] t.type = "string" -> IF t.data # <<>> /\ t.data[1] = "-" THEN -NumberOf(10, Tail(t.data)) ELSE 0
    [] OTHER -> default
LongOf(t, default) ==
  CASE t.type = "integer" -> t.len
    [] t.type = "bytes" -> NumberOf(256, t.data)
    [] OTHER -> default

\* d_to_bytes, d_bytes_to with four bytes: nothing for the integer 0
ToBytes(t) ==
  CASE t.type \in {"bytes", "string"} -> t.data
    [] t.type = "integer" -> BytesOf(MinBytesLen(t.len), t.len)
    [] t.type = "boolean" -> <<t.len>>
    [] OTHER -> <<>>

\* d_bytesl: the bytes, filled up from the left.
BytesL(t, l) == [k \in 1 .. (IF t.len >= l THEN t.len ELSE l) |->
                   IF t.len >= l THEN t.data[k] ELSE IF k <= l - t.len THEN 0 ELSE t.data[k - (l - t.len)]]

\* json_create_int of high * 2^28 + low: the value is put beside the type 5 as it is, so from
\* 2^28 on its upper bits get lost in the type or change it; beyond 15 * 2^28 it becomes bytes.
CreateInt(high, low) ==
  IF high = 15 /\ low > 0
  THEN Token("bytes", 0, 4, <<240 + low \div 256^3, (low \div 256^2) % 256, (low \div 256) % 256, low % 256>>)
  ELSE Token(IF high \in {0, 1, 4, 5} THEN "integer" ELSE "none", 0, low, <<>>)
-----------------------------------------------------------------------------
(* The binary format.  A head is the type and the length, in one to five    *)
(* bytes; here it is one element.                                          *)

Head_(type, len) == [type |-> type, len |-> len, size |-> IF len < 28 THEN 1 ELSE 1 + MinBytesLen(len)]

RECURSIVE WriteToken(_, _)
\* write_token
WriteToken(ts, i) ==
  LET t == ts[i]
      children == Children(ts, i)
  IN  <<Head_(t.type, t.len)>>
        \o CASE t.type = "array" -> FlattenSeq([k \in DOMAIN children |-> WriteToken(ts, children[k])])
             [] t.type = "object" ->
                  FlattenSeq([k \in DOMAIN children |-> <<[key |-> ts[children[k]].key]>> \o WriteToken(ts, children[k])])
             [] t.type \in {"bytes", "string"} -> <<[raw |-> t.data]>>
             [] OTHER -> <<>>
\* d_serialize_binary
SerializeBinary(ts) == <<Head_("null", TokenSize(ts, 1))>> \o WriteToken(ts, 1)

\* What read_token's loop does to the token it has just read.
ReadKey(r, at, key) == [r EXCEPT !.tokens[at].key = key]

RECURSIVE ReadToken(_, _)
\* read_token: the tokens and the rest of the data.
ReadToken(data, tokens) ==
  LET h == data[1]
      self == [tokens |-> Append(tokens, Token(h.type, 0, h.len, <<>>)), rest |-> Tail(data)]
      child(r, k) ==
        LET named == h.type = "object"
            key == IF named THEN r.rest[1].key ELSE k - 1
        IN  ReadKey(ReadToken(IF named THEN Tail(r.rest) ELSE r.rest, r.tokens), Len(r.tokens) + 1, key)
  IN  CASE h.type \in {"array", "object"} -> FoldLeft(child, self, [k \in 1 .. h.len |-> k])
        [] h.type \in {"bytes", "string"} ->
             [tokens |-> [self.tokens EXCEPT ![Len(tokens) + 1].data = self.rest[1].raw], rest |-> Tail(self.rest)]
        [] h.type = "boolean" /\ h.len > 1 ->          \* a reference to an earlier token
             [tokens |-> Append(tokens, tokens[h.len - 1]), rest |-> Tail(data)]
        [] h.type = "null" /\ h.len > 0 -> [tokens |-> tokens, rest |-> Tail(data)]
        [] OTHER -> self

RECURSIVE ParseBinary(_, _)
\* parse_binary
ParseBinary(data, tokens) ==
  IF data = <<>> THEN tokens ELSE LET r == ReadToken(data, tokens) IN ParseBinary(r.rest, r.tokens)
-----------------------------------------------------------------------------
(* What a text should be parsed to.  A value is a leaf, an array or an       *)
(* object; its text and its tokens follow its structure.                   *)

Lex(l) == [lex |-> l]
Leaf(lexeme) == [kind |-> "leaf", lexeme |-> lexeme]
Array(items) == [kind |-> "array", items |-> items]
Object(props) == [kind |-> "object", props |-> props]     \* <<[name, value], ...>>

Separated(parts) == FlattenSeq([k \in DOMAIN parts |-> IF k = 1 THEN parts[k] ELSE <<Lex(",")>> \o parts[k]])
RECURSIVE Text(_)
Text(v) ==
  CASE v.kind = "leaf" -> <<v.lexeme>>
    [] v.kind = "array" -> <<Lex("[")>> \o Separated([k \in DOMAIN v.items |-> Text(v.items[k])]) \o <<Lex("]")>>
    [] v.kind = "object" ->
         <<Lex("{")>>
           \o Separated([k \in DOMAIN v.props |->
                <<[lex |-> "str", data |-> v.props[k].name, braces |-> 0], Lex(":")>> \o Text(v.props[k].value)])
           \o <<Lex("}")>>

RECURSIVE Depth(_)
Depth(v) ==
  CASE v.kind = "leaf" -> 0
    [] v.kind = "array" -> 1 + Max({0} \union {Depth(v.items[k]) : k \in DOMAIN v.items})
    [] v.kind = "object" -> 1 + Max({0} \union {Depth(v.props[k].value) : k \in DOMAIN v.props})

\* The value that the token at i and those in it stand for.
RECURSIVE ValueAt(_, _)
ValueAt(ts, i) ==
  LET c == Children(ts, i)
  IN  CASE ts[i].type = "array" -> Array([k \in DOMAIN c |-> ValueAt(ts, c[k])])
        [] ts[i].type = "object" -> Object([k \in DOMAIN c |-> [name |-> ts[c[k]].key, value |-> ValueAt(ts, c[k])]])
        [] OTHER -> Leaf([type |-> ts[i].type, len |-> ts[i].len, data |-> ts[i].data])
RECURSIVE Meaning(_)
Meaning(v) ==
  LET t == ParseJson(<<v.lexeme>>).tokens[1]
  IN  CASE v.kind = "leaf" -> Leaf([type |-> t.type, len |-> t.len, data |-> t.data])
        [] v.kind = "array" -> Array([k \in DOMAIN v.items |-> Meaning(v.items[k])])
        [] v.kind = "object" ->
             Object([k \in DOMAIN v.props |-> [name |-> v.props[k].name, value |-> Meaning(v.props[k].value)]])
-----------------------------------------------------------------------------
(* Properties of one value v, of one text and of one number's digits *)

\* A text is parsed to its value: every token lies in its container, in order and under its
\* key, the accessors find it there, and writing the tokens in the binary format and reading
\* them back gives the same tokens (data.c parse_object, d_get, d_serialize_binary, read_token).
JsonIsItsValue(v) ==
  LET p == ParseJson(Text(v))
      ts == p.tokens
      plain == [k \in DOMAIN ts |-> IF Container(ts[k]) THEN [ts[k] EXCEPT !.data = <<>>] ELSE ts[k]]
  IN  Depth(v) <= DepthMax =>
        /\ p.res = 0 /\ p.at = Len(p.text) + 1 /\ p.depth = 0
        /\ TokenSize(ts, 1) = Len(ts)
        /\ ValueAt(ts, 1) = Meaning(v)
        /\ \A k \in DOMAIN Children(ts, 1) :
             LET c == Children(ts, 1)[k] 
             IN  /\ GetAt(ts, 1, k - 1) = c /\ ts[Get(ts, 1, ts[c].key)].key = ts[c].key
                 /\ ts[1].type = "object" => GetOr(ts, 1, <<"absent">>, ts[c].key) # 0
                                             /\ GetOr(ts, 1, ts[c].key, <<"absent">>) = Get(ts, 1, ts[c].key)
        /\ ParseBinary(SerializeBinary(ts), <<>>) = plain

\* A container's own text is found again, whatever surrounds it, unless a string in it has
\* brackets that do not balance (find_end).
SourceIsItsOwn(v) ==
  LET p == ParseJson(Text(v))
  IN  (p.res = 0 /\ \A k \in DOMAIN p.text : p.text[k].lex = "str" => p.text[k].braces = 0) =>
        \A i \in {k \in DOMAIN p.tokens : Container(p.tokens[k])} :
          LET q == ParseJson(ToJson(p, i)) IN q.res = 0 /\ ValueAt(q.tokens, 1) = ValueAt(p.tokens, i)

\* Whatever is accepted, the tokens fit into each other: no accessor leaves the list.
AcceptedTokensNest(text) ==
  LET p == ParseJson(text) IN p.res = 0 => p.tokens # <<>> /\ TokenSize(p.tokens, 1) = Len(p.tokens)

\* The value of a hexadecimal number survives as an integer or bytes, and comes back as bytes
\* without leading zeros; d_int is right for up to four bytes.  A number that the client itself
\* puts into a document is found there, below 2^28 (json_create_int).
HexIsItsNumber(digits) ==
  LET t == HexToken(0, digits)
      n == NumberOf(16, digits)
  IN  /\ LongOf(t, 0) = n
      /\ NumberOf(256, ToBytes(t)) = n
      /\ t.len <= 4 \/ t.type = "integer" => IntOf(t, 0) = n
      /\ n < IntLimit => IntOf(CreateInt(0, n), 0) = n
      /\ t.type = "integer" => (n < IntLimit /\ (ToBytes(t) = <<>> \/ ToBytes(t)[1] # 0))
      /\ NumberOf(256, BytesL([t EXCEPT !.len = Len(ToBytes(t)), !.data = ToBytes(t)], 32)) = n
=============================================================================
