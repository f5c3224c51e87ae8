----------------------------- MODULE In3Buffers ------------------------------
(***************************************************************************)
(* The growing buffers of in3-c: strings (util/stringbuilder.c), bytes       *)
(* (util/bytes.c) and sets of bits (util/bitset.c).  A buffer is its content *)
(* and the size of its allocation; Fits says whether a write stays inside.   *)
(* The allocations begin at MinSize; half a byte has Nibble values; a set of *)
(* bits is kept in a word of WordBits until a position beyond it is touched, *)
(* then in bytes of ByteBits each.                                         *)
(***************************************************************************)
EXTENDS Integers, Sequences, FiniteSets, SequencesExt

CONSTANTS MinSize, Nibble, WordBits, ByteBits

\* Doubled until there is room behind the content and what is to be added.  A buffer of no
\* size is never made: bb_newl and sb_new are called with constants.
Grown(size, needed) ==
  LET doublings == CHOOSE k \in 0 .. needed + 1 : size * 2 ^ k > needed /\ (k = 0 \/ size * 2 ^ (k - 1) <= needed)
  IN  size * 2 ^ doublings

CheckSize(b, len) ==
  IF len = 0 \/ Len(b.data) + len < b.size THEN b ELSE [b EXCEPT !.size = Grown(b.size, Len(b.data) + len)]

\* What is written and the last place written to; fits: nothing went past the allocation.
Written(b, reserved, content, last) ==
  LET room == CheckSize(b, reserved)
  IN  [data |-> b.data \o content, size |-> room.size, fits |-> b.fits /\ Len(b.data) + last <= room.size]
-----------------------------------------------------------------------------
(* Strings: every write leaves a NUL behind the content                      *)

NewString == [data |-> <<>>, size |-> MinSize, fits |-> TRUE]
Quoted(s) == <<"quote">> \o s \o <<"quote">>

AddChars(b, s) == IF s = <<>> THEN b ELSE Written(b, Len(s), s, Len(s) + 1)
AddRange(b, s, from, len) == Written(b, len, SubSeq(s, from + 1, from + len), len + 1)

\* A key and its value, with quotes if it is a string; an empty value adds nothing.
AddKeyValue(b, key, value, asString) ==
  LET text == Quoted(key) \o <<"colon">> \o (IF asString THEN Quoted(value) ELSE value)
  IN  IF value = <<>> THEN b
      ELSE Written(b, (IF asString THEN 2 ELSE 0) + Len(key) + 3 + Len(value), text, Len(text) + 1)

\* Byte strings in hexadecimal, with commas, quotes and brackets.
Hex(bytes) == Quoted(<<"0", "x">> \o [k \in 1 .. 2 * Len(bytes) |-> bytes[(k + 1) \div 2]])
AddBytes(b, prefix, items, asArray) ==
  LET parts == FlattenSeq([k \in DOMAIN items |-> (IF k > 1 THEN <<"comma">> ELSE <<>>) \o Hex(items[k])])
      text == prefix \o (IF asArray THEN <<"open">> \o parts \o <<"close">> ELSE parts)
      reserved == FoldSeq(LAMBDA item, sum : sum + 2 * Len(item) + 4, 0, items)
                    + (IF Len(items) > 1 THEN Len(items) - 1 ELSE 0) + Len(prefix) + (IF asArray THEN 2 ELSE 0)
  IN  Written(b, reserved, text, Len(text) + 1)

\* A number of one, two, four or eight bytes, without leading zeros.
AddHexUint(b, number, len) ==
  LET value == number % Nibble ^ (2 * len)
      digits == CHOOSE n \in 1 .. 2 * len : value < Nibble ^ n /\ (n = 1 \/ value >= Nibble ^ (n - 1))
      text == <<"0", "x">> \o [k \in 1 .. digits |-> (value \div Nibble ^ (digits - k)) % Nibble]
  IN  IF len \notin {1, 2, 4, 8} THEN b ELSE Written(b, Len(text), text, Len(text) + 1)
-----------------------------------------------------------------------------
(* Bytes                                                                   *)

NewBytes(size) == [data |-> <<>>, size |-> size, fits |-> TRUE]
WriteRaw(b, bytes) == Written(b, Len(bytes), bytes, Len(bytes))
WriteChars(b, chars) == Written(b, Len(chars) + 1, Append(chars, 0), Len(chars) + 1)

\* Big endian, cut to len bytes.
WriteLong(b, number, len) ==
  Written(b, len, [k \in 1 .. len |-> (number \div (Nibble * Nibble) ^ (len - k)) % (Nibble * Nibble)], len)

\* bytes[offset, offset + deleted) become the given ones.
Replace(b, offset, deleted, bytes) ==
  LET room == CheckSize(b, Len(bytes) - deleted)
      data == SubSeq(b.data, 1, offset) \o bytes \o SubSeq(b.data, offset + deleted + 1, Len(b.data))
  IN  IF deleted = 0 /\ bytes = <<>> THEN b
      ELSE [data |-> data, size |-> room.size, fits |-> b.fits /\ Len(data) <= room.size]
-----------------------------------------------------------------------------
(* Sets of bits: a word, or bytes; each is the set of the places that are 1  *)

AlignUp(n) == ((n + ByteBits - 1) \div ByteBits) * ByteBits
OnHeap(s) == s.len > WordBits
Bytes(len, at(_)) == [k \in 0 .. len \div ByteBits - 1 |-> at(k)]

NewBits(len) ==
  IF len > WordBits THEN [len |-> AlignUp(len), bits |-> Bytes(AlignUp(len), LAMBDA k : {})]
  ELSE [len |-> WordBits, bits |-> {}]

GrownLen(pos) == AlignUp(pos + 1)

\* bs_growp, and the copy out of the word before it
GrownBits(s, pos) ==
  LET old(k) == IF OnHeap(s) THEN (IF k \in DOMAIN s.bits THEN s.bits[k] ELSE {})
                ELSE {r \in 0 .. ByteBits - 1 : k * ByteBits + r \in s.bits}
  IN  IF pos < WordBits \/ (OnHeap(s) /\ s.len > pos) THEN s
      ELSE [len |-> GrownLen(pos), bits |-> Bytes(GrownLen(pos), old)]

Changed(set, op, r) ==
  CASE op = "set" -> set \union {r}
    [] op = "clear" -> set \ {r}
    [] op = "toggle" -> IF r \in set THEN set \ {r} ELSE set \union {r}

Modify(s, pos, op) ==
  LET t == GrownBits(s, pos)
  IN  IF OnHeap(t) THEN [t EXCEPT !.bits[pos \div ByteBits] = Changed(@, op, pos % ByteBits)]
      ELSE [t EXCEPT !.bits = Changed(@, op, pos)]

IsSet(s, pos) ==
  pos < s.len /\ (IF OnHeap(s) THEN pos % ByteBits \in s.bits[pos \div ByteBits] ELSE pos \in s.bits)
IsEmpty(s) == IF OnHeap(s) THEN \A k \in DOMAIN s.bits : s.bits[k] = {} ELSE s.bits = {}
FromNumber(number, len) ==
  FoldLeftDomain(LAMBDA s, j : IF (number \div 2 ^ (j - 1)) % 2 = 1 THEN Modify(s, j - 1, "set") ELSE s,
                 NewBits(len), [j \in 1 .. WordBits |-> j])
-----------------------------------------------------------------------------
(* What they promise                                                       *)

Place(b, write) ==
  CASE write[1] = "chars" -> AddChars(b, write[2])
    [] write[1] = "range" -> AddRange(b, write[2], write[3], write[4])
    [] write[1] = "pair" -> AddKeyValue(b, write[2], write[3], write[4])
    [] write[1] = "bytes" -> AddBytes(b, write[2], write[3], write[4])
    [] write[1] = "hex" -> AddHexUint(b, write[2], write[3])
    [] write[1] = "raw" -> WriteRaw(b, write[2])
    [] write[1] = "cstring" -> WriteChars(b, write[2])
    [] write[1] = "long" -> WriteLong(b, write[2], write[3])
    [] write[1] = "replace" -> IF Len(b.data) < write[2] + write[3] THEN b ELSE Replace(b, write[2], write[3], write[4])

\* After any writes nothing went past an allocation, and there is always a place left
\* behind the content, where a string has its NUL.
BufferHolds(start, writes) ==
  LET end == FoldLeft(Place, start, writes)
  IN  end.fits /\ Len(end.data) < end.size

\* A set of bits is the set of numbers its changes make, wherever it is kept.
BitsAreNumbers(len, changes) ==
  LET bits == FoldLeft(LAMBDA s, c : Modify(s, c.pos, c.op), NewBits(len), changes)
      numbers == FoldLeft(LAMBDA s, c : Changed(s, c.op, c.pos), {}, changes)
  IN  /\ \A pos \in 0 .. 4 * WordBits : IsSet(bits, pos) <=> pos \in numbers
      /\ IsEmpty(bits) <=> numbers = {}

\* Every number of a word is read back from its bits.
NumberIsItsBits(number, len) ==
  \A pos \in 0 .. 2 * WordBits : IsSet(FromNumber(number, len), pos) <=> pos < WordBits /\ (number \div 2 ^ pos) % 2 = 1
=============================================================================
