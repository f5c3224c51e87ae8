------------------------------- MODULE In3Trie -------------------------------
(***************************************************************************)
(* in3-c's encodings of what a block commits to: RLP (nano/rlp.c), the      *)
(* serialization of accounts, transactions, receipts and headers            *)
(* (nano/serialize.c), the Merkle-Patricia trie (basic/trie.c) and the      *)
(* check of a proof taken from it (nano/merkle.c).                          *)
(*                                                                         *)
(* RLP works on real bytes.  A node of the trie is a record; its hash is    *)
(* the node itself, so that two nodes have the same hash exactly if they    *)
(* have the same encoding, and its size in bytes is computed, because a     *)
(* node of less than 32 bytes is embedded in its parent.                    *)
(***************************************************************************)
EXTENDS Integers, Sequences, SequencesExt, FiniteSets

CONSTANTS ProofDepth,    \* MERKLE_DEPTH_MAX
          Empty     \* no node, no value

Repeat(n, b) == [k \in 1 .. n |-> b]
BigEndian(n, v) == [k \in 1 .. n |-> (v \div 256^(n - k)) % 256]
-----------------------------------------------------------------------------
(* RLP *)

\* rlp_add_length
LengthHeader(len, offset) ==
  IF len < 56 THEN <<offset + len>>
  ELSE LET n == IF len < 256 THEN 1 ELSE IF len < 65536 THEN 2 ELSE IF len < 16777216 THEN 3 ELSE 4
       IN  <<offset + 55 + n>> \o BigEndian(n, len)

\* rlp_encode_item, rlp_encode_to_item
EncodeItem(s) == IF Len(s) = 1 /\ s[1] < 128 THEN s ELSE LengthHeader(Len(s), 128) \o s
\* rlp_encode_list, rlp_encode_to_list
EncodeList(s) == LengthHeader(Len(s), 192) \o s

\* What one item's first bytes say: kind 1 is an item, 2 a list; head bytes, then len.
\* The length is too long where it would have to be read behind the buffer.
HeadAt(s, i) ==
  LET c == s[i]
      number(n) == IF i + n > Len(s) THEN Len(s) + 1
                   ELSE FoldLeft(LAMBDA v, b : v * 256 + b, 0, SubSeq(s, i + 1, i + n))
  IN  CASE c < 128 -> [kind |-> 1, head |-> 0, len |-> 1]
        [] c \in 128 .. 183 -> [kind |-> 1, head |-> 1, len |-> c - 128]
        [] c \in 184 .. 191 -> [kind |-> 1, head |-> 1 + c - 183, len |-> number(c - 183)]
        [] c \in 192 .. 247 -> [kind |-> 2, head |-> 1, len |-> c - 192]
        [] c > 247 -> [kind |-> 2, head |-> 1 + c - 247, len |-> number(c - 247)]

\* The items one after the other; the last may reach beyond the end.
RECURSIVE ItemsFrom(_, _)
ItemsFrom(s, i) ==
  IF i > Len(s) THEN [items |-> <<>>, next |-> i]
  ELSE LET h == HeadAt(s, i)
           rest == ItemsFrom(s, i + h.head + h.len)
       IN  [rest EXCEPT !.items = <<[kind |-> h.kind, at |-> i + h.head, len |-> h.len]>> \o @]
Items(s) == ItemsFrom(s, 1)

\* rlp_decode with an index: the kind and the bytes, -1 if they reach beyond the end and 0 if
\* there is no such item.
Decode(s, index) ==
  LET all == Items(s)
      item == all.items[index + 1]
  IN  IF index < Len(all.items)
      THEN IF item.at + item.len - 1 > Len(s) THEN [kind |-> -1, data |-> <<>>]
           ELSE [kind |-> item.kind, data |-> SubSeq(s, item.at, item.at + item.len - 1)]
      ELSE [kind |-> IF all.next > Len(s) + 1 THEN -1 ELSE 0, data |-> <<>>]
\* rlp_decode_len
DecodeLen(s) == IF Items(s).next = Len(s) + 1 THEN Len(Items(s).items) ELSE -3
\* rlp_decode_in_list
DecodeInList(s, index) ==
  IF Decode(s, 0).kind # 2 THEN [kind |-> 0, data |-> <<>>] ELSE Decode(Decode(s, 0).data, index)
-----------------------------------------------------------------------------
(* Serialization.  A field is [type, bytes]; type is "null", "integer",    *)
(* "bytes" or another one, which adds nothing.                             *)

\* An UINT has a width of 0, BYTES of -1, an ADDRESS of -20, a HASH of 32.
Strip(s) ==
  LET keep == {k \in 1 .. Len(s) : s[k] # 0}
  IN  IF keep = {} THEN <<>> ELSE SubSeq(s, CHOOSE k \in keep : \A j \in keep : k <= j, Len(s))

\* rlp_add_bytes
AddBytes(s, width) ==
  LET b == IF width = 0 THEN Strip(s) ELSE s
      w == IF width < 0 THEN (IF s = <<>> THEN 0 ELSE -width) ELSE width
  IN  EncodeItem(Repeat(w - Len(b), 0) \o b)

\* rlp_add: an integer has up to four bytes without leading zeros.
AddField(f, width) ==
  CASE f.type = "null" -> AddBytes(<<>>, width)
    [] f.type = "integer" -> AddBytes(Strip(f.bytes), width)
    [] f.type = "bytes" -> AddBytes(f.bytes, width)
    [] OTHER -> <<>>

Serialized(fields, widths) ==
  EncodeList(FoldLeft(LAMBDA s, k : s \o AddField(fields[k], widths[k]), <<>>, [k \in DOMAIN widths |-> k]))

\* serialize_account: nonce, balance, storageHash, codeHash
SerializeAccount(a) == Serialized(a, <<0, 0, 32, 32>>)
\* serialize_tx: nonce, gasPrice, gas, to, value, input, v, r, s
SerializeTx(tx) == Serialized(tx, <<0, 0, 0, -20, 0, -1, 0, 0, 0>>)
\* serialize_tx_raw leaves the last three out of what is signed without a chain.
SerializeTxRaw(tx) ==
  IF Strip(tx[7].bytes) = <<>> THEN Serialized(tx, <<0, 0, 0, -20, 0, -1>>) ELSE SerializeTx(tx)
\* serialize_block_header, with the two fields of a proof of work or the sealed fields as they are
SerializeHeader(h, sealed) ==
  EncodeList(FoldLeft(LAMBDA s, k : s \o AddField(h[k], <<32, 32, -20, 32, 32, 32, 256, 0, 0, 0, 0, 0, -1>>[k]),
                      <<>>, [k \in 1 .. 13 |-> k])
             \o IF sealed # Empty THEN FlattenSeq(sealed)
                ELSE AddField(h[14], 32) \o AddField(h[15], -1))
\* serialize_tx_receipt: [fields, logs], the fields being status, cumulativeGasUsed and logsBloom
SerializeReceipt(r) ==
  LET topics(l) == EncodeList(FoldLeft(LAMBDA s, t : s \o AddField(t, 32), <<>>, l.topics))
      log(l) == EncodeList(AddField(l.address, -20) \o topics(l) \o AddField(l.data, -1))
  IN  EncodeList((IF r.fields[1].type = "null" THEN <<>> ELSE AddField(r.fields[1], 0))
                 \o AddField(r.fields[2], 0) \o AddField(r.fields[3], 256)
                 \o EncodeList(FoldLeft(LAMBDA s, l : s \o log(l), <<>>, r.logs)))

\* create_tx_path
TxPath(index) == EncodeItem(Strip(BigEndian(4, index)))
-----------------------------------------------------------------------------
(* Paths *)

\* trie_path_to_nibbles: with a prefix the first nibble tells whether the number of nibbles is
\* odd; if so the second one is the first of the path.
Nibbles(s) == FoldLeft(LAMBDA p, b : p \o <<b \div 16, b % 16>>, <<>>, s)
PathOf(s, prefix) ==
  IF ~prefix \/ s = <<>> THEN Nibbles(s)
  ELSE SubSeq(Nibbles(s), IF (s[1] \div 16) % 2 = 1 THEN 2 ELSE 3, 2 * Len(s))

\* trie_node_value_from_nibbles
PathBytes(leaf, path) ==
  LET odd == Len(path) % 2
      rest == SubSeq(path, odd + 1, Len(path))
      flag == (IF leaf THEN 2 ELSE 0) + odd
  IN  <<flag * 16 + (IF odd = 1 THEN path[1] ELSE 0)>>
        \o [k \in 1 .. Len(rest) \div 2 |-> rest[2 * k - 1] * 16 + rest[2 * k]]

\* trie_matching_nibbles
Matching(p, q) ==
  LET n == IF Len(p) < Len(q) THEN Len(p) ELSE Len(q)
      differ == {k \in 1 .. n : p[k] # q[k]}
  IN  IF differ = {} THEN n ELSE (CHOOSE k \in differ : \A j \in differ : k <= j) - 1
From(p, k) == SubSeq(p, k, Len(p))
-----------------------------------------------------------------------------
(* The trie *)

Slots == 0 .. 15
Leaf(path, value) == [type |-> "leaf", path |-> path, value |-> value, more |-> <<>>]
Ext(path, target) == [type |-> "ext", path |-> path, target |-> target]
Branch(value) == [type |-> "branch", kids |-> [k \in Slots |-> Empty], value |-> value]
\* What is read where the code's pointers lead behind a node.
Garbage == [type |-> "garbage"]

Wrapped(len) == len + Len(LengthHeader(len, 192))
RECURSIVE Size(_)
\* The length of trie_node_t.data.
Size(n) ==
  LET child(c) == IF c = Empty THEN 1 ELSE IF Size(c) < 32 THEN Size(c) ELSE 33
      item(v) == IF v = Empty THEN 1 ELSE Len(EncodeItem(v))
  IN  CASE n.type = "leaf" -> Wrapped(item(PathBytes(TRUE, n.path)) + item(n.value)
                                       + (IF n.more = <<>> THEN 0 ELSE item(n.more[1])))
        [] n.type = "ext" -> Wrapped(item(PathBytes(FALSE, n.path)) + child(n.target))
        [] n.type = "branch" -> Wrapped(item(n.value) + MapThenSumSet(LAMBDA k : child(n.kids[k]), Slots))
        [] n.type = "garbage" -> 32
\* A node that its parent holds itself, not its hash.
Embedded(n) == n # Empty /\ Size(n) < 32

\* get_node_target looks for an embedded node behind the item before it, and the first slot has none.
KidOf(n, k) == IF Embedded(n.kids[k]) /\ k = 0 THEN Garbage ELSE n.kids[k]

\* The rest of a leaf or extension becomes a child of the branch that comes after m nibbles.
Split(n, m, b) ==
  [b EXCEPT !.kids[n.path[m + 1]] =
     IF n.type = "ext" /\ Len(n.path) = m + 1 THEN n.target ELSE [n EXCEPT !.path = From(n.path, m + 2)]]

RECURSIVE HandleNode(_, _, _)

\* handle_node where the path ends.
HandleEnd(n, value) ==
  CASE n.type = "branch" -> [n EXCEPT !.value = value]
    [] n.type = "leaf" /\ n.path = <<>> -> [n EXCEPT !.more = <<value>>]      \* item 2 of a node with two
    [] n.type \in {"leaf", "ext"} -> Split(n, 0, Branch(value))

\* handle_node in a leaf or extension.
HandlePath(n, path, value) ==
  LET m == Matching(n.path, path)
      rest == From(path, m + 1)
      with(b) == IF rest = <<>> THEN [b EXCEPT !.value = value]
                 ELSE [b EXCEPT !.kids[rest[1]] = Leaf(Tail(rest), value)]
      below(b) == IF m = 0 THEN b ELSE Ext(SubSeq(n.path, 1, m), b)
  IN  CASE m < Len(n.path) -> below(Split(n, m, with(Branch(Empty))))
        [] m = Len(n.path) /\ n.type = "ext" -> [n EXCEPT !.target = HandleNode(n.target, rest, value)]
        [] m = Len(n.path) /\ n.type = "leaf" ->
             IF rest = <<>> THEN [n EXCEPT !.value = value] ELSE below(with(Branch(n.value)))

\* handle_node.  An embedded node of three items gets no type when it is read again.
HandleNode(n, path, value) ==
  CASE n = Empty -> Leaf(path, value)
    [] n = Garbage -> Garbage
    [] n \notin {Empty, Garbage} ->
         IF n.type = "leaf" /\ n.more # <<>> /\ Embedded(n) THEN Garbage
         ELSE IF path = <<>> THEN HandleEnd(n, value)
         ELSE IF n.type = "branch"
         THEN [n EXCEPT !.kids[path[1]] = HandleNode(KidOf(n, path[1]), Tail(path), value)]
         ELSE HandlePath(n, path, value)

\* trie_set_value
SetValue(root, key, value) ==
  IF value = <<>> \/ Len(key) > 32 THEN root ELSE HandleNode(root, PathOf(key, FALSE), value)
-----------------------------------------------------------------------------
(* The check of a proof *)

\* A value that is the hash of a node, and no value the trie holds.
AHash == <<-1>>

\* What one node of a proof may lead to: ok, the rest of the key, the last value, the next
\* hash; more than one if the code reads behind the key.
RECURSIVE CheckNode(_, _, _, _, _)
CheckNode(n, key, absent, last, at) ==
  LET here == [at EXCEPT !.depth = @ + 1, !.key = key]
      fail == {[here EXCEPT !.ok = FALSE]}
      mismatch == {[here EXCEPT !.ok = absent /\ last]}
      \* is_last_node of an embedded node: one nibble is left of the key, or what is behind it.
      lastBelow(rest) == IF rest = <<>> THEN BOOLEAN ELSE {Len(rest) = 1}
      m == Matching(n.path, key)
      rest == From(key, m + 1)
  IN  IF here.depth > ProofDepth THEN fail
      ELSE IF n = Empty THEN mismatch
      ELSE IF n = Garbage THEN {[here EXCEPT !.ok = b] : b \in BOOLEAN}
      ELSE IF n.type = "branch"
      THEN IF key = <<>>
           THEN IF ~last THEN fail ELSE {[here EXCEPT !.value = IF n.value = Empty THEN <<>> ELSE n.value]}
           ELSE IF Embedded(n.kids[key[1]])
           THEN UNION {CheckNode(KidOf(n, key[1]), Tail(key), absent, b, here) : b \in lastBelow(Tail(key))}
           ELSE {[here EXCEPT !.key = Tail(key), !.next = n.kids[key[1]]]}
      ELSE IF n.type = "leaf" /\ n.more # <<>> THEN mismatch
      ELSE IF m < Len(n.path) THEN mismatch
      ELSE IF n.type = "ext" /\ Embedded(n.target)
      THEN UNION {CheckNode(n.target, rest, absent, b, here) : b \in BOOLEAN}
      ELSE IF rest = <<>> /\ (~last \/ (absent /\ n.type = "leaf")) THEN fail
      ELSE IF rest # <<>> /\ ~absent /\ n.type = "leaf" THEN fail
      ELSE {[here EXCEPT !.key = rest, !.value = IF n.type = "leaf" THEN n.value ELSE AHash,
                         !.next = IF n.type = "leaf" THEN Empty ELSE n.target]}

\* Mutant of CheckProof: the nodes need not follow from each other.
CheckProofLoose(proof, absent, runs) ==
  LET step(rs, k) ==
        UNION {IF ~r.ok THEN {r}
               ELSE CheckNode(proof[k], r.key, absent, k = Len(proof), r) : r \in rs}
  IN  FoldLeft(step, runs, [k \in DOMAIN proof |-> k])

\* The loop of trie_verify_proof over the nodes.
CheckProof(proof, absent, runs) ==
  LET step(rs, k) ==
        UNION {IF ~r.ok THEN {r}
               ELSE IF r.next # proof[k] THEN {[r EXCEPT !.ok = FALSE]}
               ELSE CheckNode(proof[k], r.key, absent, k = Len(proof), r) : r \in rs}
  IN  FoldLeft(step, runs, [k \in DOMAIN proof |-> k])

\* trie_verify_proof: what it may return for the value expected, Empty for none.
VerifyProof(root, key, proof, expected) ==
  LET start == [ok |-> TRUE, key |-> PathOf(key, FALSE), value |-> Empty, next |-> root, depth |-> 0]
  IN  {r.ok /\ (expected = Empty \/ r.value = expected) : r \in CheckProof(proof, expected = Empty, {start})}
-----------------------------------------------------------------------------
(* A trie that values are set in, and what it should hold *)

CONSTANTS TrieKeys, Values, Changes

VARIABLES trie, content, changes,
          spoiled     \* the trie once held Garbage, or an empty path that was set twice
trieVars == <<trie, content, changes, spoiled>>

RECURSIVE NodesOf(_)
NodesOf(n) ==
  CASE n = Empty -> {}
    [] n # Empty -> {n} \union (CASE n.type = "ext" -> NodesOf(n.target)
                                  [] n.type = "branch" -> UNION {NodesOf(n.kids[k]) : k \in Slots}
                                  [] n.type \in {"leaf", "garbage"} -> {})
Broken(root) == \E n \in NodesOf(root) : n.type = "garbage" \/ (n.type = "leaf" /\ n.more # <<>>)

TrieInit == trie = Empty /\ content = <<>> /\ changes = 0 /\ spoiled = FALSE
TrieSet ==
  /\ changes < Changes
  /\ \E k \in TrieKeys, v \in Values :
       /\ trie' = SetValue(trie, k, v)
       /\ content' = [q \in DOMAIN content \union {k} |-> IF q = k THEN v ELSE content[q]]
  /\ changes' = changes + 1
  /\ spoiled' = (spoiled \/ Broken(trie'))
-----------------------------------------------------------------------------
(* What the trie should be: a leaf for one entry, an extension over what    *)
(* all entries have in common, or a branch.  An entry is <<path, value>>.   *)

RECURSIVE TrieOf(_)
TrieOf(entries) ==
  LET some == CHOOSE e \in entries : TRUE
      common == CHOOSE m \in 0 .. Len(some[1]) :
                  /\ \A e \in entries : Matching(some[1], e[1]) >= m
                  /\ \E e \in entries : Matching(some[1], e[1]) = m
      under(k) == {<<Tail(e[1]), e[2]>> : e \in {f \in entries : f[1] # <<>> /\ f[1][1] = k}}
      here == {e[2] : e \in {f \in entries : f[1] = <<>>}}
  IN  CASE entries = {} -> Empty
        [] Cardinality(entries) = 1 -> Leaf(some[1], some[2])
        [] Cardinality(entries) > 1 /\ common > 0 ->
             Ext(SubSeq(some[1], 1, common), TrieOf({<<From(e[1], common + 1), e[2]>> : e \in entries}))
        [] Cardinality(entries) > 1 /\ common = 0 ->
             [type |-> "branch", kids |-> [k \in Slots |-> TrieOf(under(k))],
              value |-> IF here = {} THEN Empty ELSE CHOOSE v \in here : TRUE]

\* The nodes from n along the path.
RECURSIVE Along(_, _)
Along(n, path) ==
  CASE n = Empty -> <<>>
    [] n # Empty ->
         <<n>> \o CASE n.type = "branch" /\ path # <<>> -> Along(n.kids[path[1]], Tail(path))
                    [] n.type = "ext" /\ Matching(n.path, path) = Len(n.path) ->
                         Along(n.target, From(path, Len(n.path) + 1))
                    [] OTHER -> <<>>

\* What the node that has the trie sends: the root and each node along the path that has a hash of its own.
ProofOf(root, key) ==
  LET nodes == Along(root, PathOf(key, FALSE))
  IN  [k \in 1 .. Cardinality({i \in DOMAIN nodes : i = 1 \/ ~Embedded(nodes[i])}) |->
        nodes[CHOOSE i \in DOMAIN nodes :
                /\ i = 1 \/ ~Embedded(nodes[i])
                /\ k = Cardinality({j \in 1 .. i : j = 1 \/ ~Embedded(nodes[j])})]]

\* Where check_node depends on what is behind the key, or wants the path to end at the extension.
Awkward(root, key) ==
  LET nodes == Along(root, PathOf(key, FALSE))
      used(k) == FoldLeft(LAMBDA t, n : t + (IF n.type = "ext" THEN Len(n.path) ELSE 1), 0, SubSeq(nodes, 1, k))
  IN  \/ \E k \in 2 .. Len(nodes) : Embedded(nodes[k])
      \/ \E k \in DOMAIN nodes : nodes[k].type = "ext" /\ used(k) = 2 * Len(key)

\* The trie built value by value, with its leaves split, extensions shortened and small nodes
\* embedded, is the trie of its content: the order of the values leaves no trace, so the root is
\* the one that the block header commits to.  Only an empty path that is set twice, and an
\* embedded node in a branch's first slot (trie.c get_node_target), spoil it.
TrieIsItsContent ==
  ~spoiled =>
    trie = TrieOf({<<PathOf(k, FALSE), content[k]>> : k \in DOMAIN content})

\* The proof that an honest node takes from the trie is accepted, for what a key holds and for
\* the absence of a key (merkle.c trie_verify_proof), except where Awkward.
HonestProofIsAccepted ==
  (trie # Empty /\ ~spoiled) =>
    \A k \in TrieKeys : ~Awkward(trie, k) =>
      VerifyProof(trie, k, ProofOf(trie, k), IF k \in DOMAIN content THEN content[k] ELSE Empty) = {TRUE}

\* No sequence of the trie's nodes, in any order, proves a value that the trie does not hold
\* under the key, whatever is read behind the key.
ProvedIsContent ==
  (trie # Empty /\ ~spoiled) =>
    \A k \in TrieKeys, v \in Values :
      \A proof \in UNION {[1 .. n -> NodesOf(trie)] : n \in 0 .. 3} :
        TRUE \in VerifyProof(trie, k, proof, v) => (k \in DOMAIN content /\ content[k] = v)
-----------------------------------------------------------------------------
(* Properties of strings, paths and encoded fields *)

\* Items and lists of them, around every length at which the header changes, are decoded to
\* what was encoded, one by one, and a string that is cut off is not (rlp.c).
RlpRoundTrip(s, t) ==
  LET list == EncodeList(EncodeItem(s) \o EncodeList(EncodeItem(t)) \o EncodeItem(t))
      item(i) == DecodeInList(list, i)
      cut == SubSeq(list, 1, Len(list) - 1)
  IN  /\ item(0) = [kind |-> 1, data |-> s]
      /\ item(1) = [kind |-> 2, data |-> EncodeItem(t)]
      /\ item(2) = [kind |-> 1, data |-> t]
      /\ item(3).kind = 0
      /\ DecodeLen(Decode(list, 0).data) = 3
      /\ Decode(cut, 0).kind = -1

\* The path that a node's first item holds is the one it was made from, odd or even, in a leaf
\* or an extension (trie.c trie_node_value_from_nibbles, merkle.c trie_path_to_nibbles).
PathRoundTrip(path) ==
  \A leaf \in BOOLEAN :
    /\ PathOf(PathBytes(leaf, path), TRUE) = path
    /\ leaf <=> (PathBytes(leaf, path)[1] \div 32) % 2 = 1

(* What is hashed tells its fields: two of a kind are serialized alike exactly *)
(* if their fields mean the same (serialize.c, rlp_add).  Leading zeros of a   *)
(* number or a hash are no difference, the length of other bytes is one.       *)

SameNumber(f, g) == Strip(f.bytes) = Strip(g.bytes)
SameRight(f, g, n) == Repeat(n - Len(f.bytes), 0) \o f.bytes = Repeat(n - Len(g.bytes), 0) \o g.bytes

\* serialize_tx, and serialize_tx_raw, whose last three fields count only if the first of them
\* is there; a contract's creation has no receiver.
TransactionIsKept(x, y) ==
  LET unsigned(t) == Strip(t[7].bytes) = <<>>
      same(numbers) == /\ \A k \in numbers : SameNumber(x[k], y[k])
                       /\ SameRight(x[4], y[4], 20) /\ (x[4].bytes = <<>> <=> y[4].bytes = <<>>)
                       /\ x[6].bytes = y[6].bytes
  IN  /\ (SerializeTx(x) = SerializeTx(y)) <=> same({1, 2, 3, 5, 7, 8, 9})
      /\ (SerializeTxRaw(x) = SerializeTxRaw(y))
           <=> unsigned(x) = unsigned(y) /\ same({1, 2, 3, 5} \union (IF unsigned(x) THEN {} ELSE {7, 8, 9}))

\* serialize_account
AccountIsKept(x, y) ==
  (SerializeAccount(x) = SerializeAccount(y))
    <=> /\ \A k \in {1, 2} : SameNumber(x[k], y[k])
        /\ \A k \in {3, 4} : SameRight(x[k], y[k], 32)

\* serialize_block_header, with a proof of work's two fields or with sealed fields
HeaderIsKept(x, y) ==
  (SerializeHeader(x.fields, x.sealed) = SerializeHeader(y.fields, y.sealed))
    <=> /\ \A k \in 8 .. 12 : SameNumber(x.fields[k], y.fields[k])
        /\ \A k \in {1, 2, 4, 5, 6} : SameRight(x.fields[k], y.fields[k], 32)
        /\ SameRight(x.fields[3], y.fields[3], 20) /\ SameRight(x.fields[7], y.fields[7], 256)
        /\ x.fields[13].bytes = y.fields[13].bytes
        /\ x.sealed = y.sealed

\* serialize_tx_receipt: also whether there is a status, and which topic belongs to which log
ReceiptIsKept(x, y) ==
  (SerializeReceipt(x) = SerializeReceipt(y))
    <=> /\ (x.fields[1].type = "null") = (y.fields[1].type = "null")
        /\ \A k \in {1, 2} : SameNumber(x.fields[k], y.fields[k])
        /\ SameRight(x.fields[3], y.fields[3], 256)
        /\ Len(x.logs) = Len(y.logs)
        /\ \A l \in DOMAIN x.logs :
             /\ SameRight(x.logs[l].address, y.logs[l].address, 20) /\ x.logs[l].data.bytes = y.logs[l].data.bytes
             /\ Len(x.logs[l].topics) = Len(y.logs[l].topics)
             /\ \A t \in DOMAIN x.logs[l].topics : SameRight(x.logs[l].topics[t], y.logs[l].topics[t], 32)

\* No index's path begins another's, so that every transaction has a leaf (create_tx_path).
IndexHasItsLeaf(i, j) == i # j => ~IsPrefix(Nibbles(TxPath(i)), Nibbles(TxPath(j)))
=============================================================================
