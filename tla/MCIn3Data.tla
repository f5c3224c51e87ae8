------------------------------ MODULE MCIn3Data ------------------------------
(***************************************************************************)
(* One run over in3-c's encodings and its checks of answers.  The initial    *)
(* state chooses a topic and, for every topic but the trie, one input; the   *)
(* properties below say what must hold of it.  The trie is built step by     *)
(* step.                                                                   *)
(***************************************************************************)
EXTENDS MCIn3Codecs

W == INSTANCE In3Words WITH Bits <- 2, Width <- 2, Long <- 2
J == INSTANCE In3Json WITH DepthMax <- 2
A == INSTANCE MCIn3Answers WITH None <- Empty
G == INSTANCE In3Buffers WITH MinSize <- 8, Nibble <- 2, WordBits <- 4, ByteBits <- 2

VARIABLES topic, input
vars == <<trieVars, topic, input>>

MCKeys == {<<0>>, <<1>>, <<16>>, <<17>>, <<1, 0>>, <<1, 16>>}
MCValues == {<<1>>, Repeat(33, 7)}
-----------------------------------------------------------------------------
(* Words: two numbers of up to Width bytes, the first one also longer *)

Strings(n) == UNION {[1 .. k -> 0 .. W!Byte - 1] : k \in 1 .. n}
WordInputs == [a : Strings(2 * 2 + 1), b : Strings(2)]
-----------------------------------------------------------------------------
(* JSON: values of up to three levels, texts of up to five lexemes, digits *)

Str(s, braces) == [lex |-> "str", data |-> s, braces |-> braces]
Leaves == {J!Leaf(Str(<<"a">>, 0)), J!Leaf(Str(<<"}">>, -1)), J!Leaf([lex |-> "hex", data |-> Repeat(9, 1)]),
           J!Leaf([lex |-> "num", neg |-> FALSE, data |-> <<2, 8>>]), J!Leaf(J!Lex("null"))}
Small == Leaves \union {J!Array(<<>>), J!Object(<<>>)}
Props(vs) == {<<>>} \union {<<[name |-> <<"a">>, value |-> v]>> : v \in vs}
               \union {<<[name |-> <<"a">>, value |-> v], [name |-> <<"b">>, value |-> w]>> : v \in vs, w \in vs}
Level(vs) == {J!Array(<<v>>) : v \in vs} \union {J!Array(<<v, w>>) : v \in vs, w \in vs}
               \union {J!Object(p) : p \in Props(vs)}
Some == {J!Array(<<J!Leaf(Str(<<"a">>, 0)), J!Leaf(J!Lex("true"))>>),
         J!Object(<<[name |-> <<"b">>, value |-> J!Leaf([lex |-> "num", neg |-> TRUE, data |-> <<1>>])]>>)}
LongString == J!Leaf(Str(Repeat(300, "x"), 0))
JsonInputs == Small \union Level(Small) \union Level(Small \union Some) \union {J!Array(<<LongString>>), J!Array(Repeat(28, LongString))}
Lexemes == {J!Lex("{"), J!Lex("}"), J!Lex("["), J!Lex("]"), J!Lex(","), J!Lex(":"), Str(<<"a">>, 0), J!Lex("bad")}
TextInputs == UNION {[1 .. n -> Lexemes] : n \in 0 .. 5}
DigitInputs == UNION {[1 .. n -> {0, 1, 15}] : n \in 1 .. 7} \union {<<0, 0>> \o d : d \in [1 .. 6 -> {0, 8}]}
-----------------------------------------------------------------------------
\* RLP: around the lengths of a header; paths; the fields of what is hashed

RlpInputs == [s : {<<>>, <<0>>, <<127>>, <<128>>} \union {Repeat(n, 200) : n \in {2, 55, 56, 57, 255, 256}},
              t : {<<>>, <<5>>, <<129>>} \union {Repeat(n, 1) : n \in {54, 55, 56, 255, 256, 300}}]
PathInputs == UNION {[1 .. n -> {0, 1, 15}] : n \in 0 .. 5}
Field(type, bytes) == [type |-> type, bytes |-> bytes]
Txs == {<<Field("integer", n), Field("bytes", p), Field("integer", <<0, 0, 82, 8>>), Field("bytes", to), Field("bytes", <<>>),
          Field("bytes", data), Field("integer", v), Field("bytes", <<9>>), Field("null", <<>>)>> :
          n \in {<<0, 0, 0, 0>>, <<0, 0, 0, 1>>}, p \in {<<0, 1>>, <<1, 0>>},
          to \in {<<>>, <<7>>, Repeat(19, 0) \o <<7>>}, data \in {<<>>, <<0>>, <<0, 0>>}, v \in {<<0>>, <<27>>}}
TxInputs == [x : Txs, y : Txs]
Hashes == {Field("bytes", Repeat(32, 3)), Field("bytes", Repeat(31, 3)), Field("bytes", <<0>> \o Repeat(31, 3))}
Accounts == {<<Field("integer", <<0, 0, 0, 1>>), Field("bytes", balance), storage, code>> :
               balance \in {<<>>, <<0>>, <<1>>, <<1, 0>>}, storage \in Hashes, code \in Hashes}
AccountInputs == [x : Accounts, y : Accounts]
\* Headers of a proof of work, and sealed ones with one or two items
Hash == Field("bytes", Repeat(32, 5))
Works == {[fields |-> <<parent, Hash, Field("bytes", Repeat(20, 6)), Hash, Hash, Hash, Field("bytes", Repeat(256, 0)), Field("integer", <<0, 0, 0, 2>>),
                        Field("integer", <<0, 0, 0, number>>), Hash, Field("integer", used), Field("integer", <<1, 0, 0, 0>>),
                        Field("bytes", extra), Hash, Field("bytes", Repeat(8, 1))>>, sealed |-> sealed] :
            parent \in Hashes, number \in {0, 255}, used \in {<<0, 0, 0, 0>>, <<0, 0, 1, 0>>}, extra \in {<<>>, <<0>>},
            sealed \in {Empty, <<EncodeItem(<<4>>)>>, <<EncodeItem(<<>>), EncodeItem(<<4>>)>>}}
HeaderInputs == [x : Works, y : {w \in Works : w.fields[1] = Field("bytes", Repeat(32, 3))}]
Log(topics, data) == [address |-> Field("bytes", Repeat(20, 2)), topics |-> topics, data |-> Field("bytes", data)]
Topic(b) == Field("bytes", Repeat(32, b))
Receipts == {[fields |-> <<status, Field("bytes", used), Field("bytes", Repeat(256, 0))>>, logs |-> logs] :
               status \in {Field("null", <<>>), Field("integer", <<0, 0, 0, 0>>), Field("integer", <<0, 0, 0, 1>>)}, used \in {<<1>>, <<0, 1>>, <<>>},
               logs \in {<<>>, <<Log(<<Topic(1), Topic(2)>>, <<>>)>>, <<Log(<<Topic(2), Topic(1)>>, <<>>)>>, <<Log(<<Topic(1)>>, Repeat(32, 2))>>,
                         <<Log(<<Topic(1)>>, <<>>), Log(<<Topic(2)>>, <<>>)>>}}
StoredInputs == [x : Receipts, y : Receipts]
Indexes == {0, 1, 15, 16, 127, 128, 129, 255, 256, 257, 4096, 32768, 33024, 65535, 65536}
-----------------------------------------------------------------------------
(* Buffers: up to three writes around the first sizes; sets of bits that     *)
(* begin in a word, at its edge and beyond it                              *)

StringWrites ==
  {<<"chars", Repeat(n, 1)>> : n \in {0, 1, 6, 7, 8}} \union {<<"range", Repeat(9, 1), from, n>> : from \in {0, 1}, n \in {0, 7, 8}}
    \union {<<"pair", <<1>>, Repeat(n, 1), quoted>> : n \in {0, 1, 3, 4}, quoted \in BOOLEAN}
    \union {<<"bytes", Repeat(n, 1), items, array>> : n \in {0, 2}, items \in {<<>>, <<<<1>>>>, <<<<>>, <<1, 2>>>>}, array \in BOOLEAN}
    \union {<<"hex", number, len>> : number \in {0, 3, 300}, len \in {1, 2, 3, 8}}
ByteWrites ==
  {<<"raw", Repeat(n, 1)>> : n \in {0, 1, 7, 8}} \union {<<"cstring", Repeat(n, 1)>> : n \in {0, 6, 7}}
    \union {<<"long", 300, n>> : n \in {1, 4, 8}}
    \union {<<"replace", at, n, Repeat(m, 2)>> : at \in {0, 2}, n \in {0, 3}, m \in {0, 1, 8}}
UpTo(n, writes) == UNION {[1 .. k -> writes] : k \in 1 .. n}
BufferInputs == [start : {G!NewString}, writes : UpTo(3, StringWrites)] \union [start : {G!NewBytes(8), G!NewBytes(1)}, writes : UpTo(3, ByteWrites)]
BitInputs == [len : {0, 4, 5, 7}, changes : UpTo(3, [op : {"set", "clear", "toggle"}, pos : {0, 3, 4, 5, 6, 8}])]
-----------------------------------------------------------------------------
Init ==
  \/ topic = "trie" /\ input = <<>> /\ TrieInit
  \/ /\ trie = Empty /\ content = <<>> /\ changes = 0 /\ spoiled = FALSE
     /\ \/ topic = "words" /\ input \in WordInputs
        \/ topic = "json" /\ input \in JsonInputs
        \/ topic = "text" /\ input \in TextInputs
        \/ topic = "digits" /\ input \in DigitInputs
        \/ topic = "buffer" /\ input \in BufferInputs
        \/ topic = "bits" /\ input \in BitInputs
        \/ topic = "number" /\ input \in [number : 0 .. 15, len : {1, 4, 5}]
        \/ topic = "rlp" /\ input \in RlpInputs
        \/ topic = "path" /\ input \in PathInputs
        \/ topic = "index" /\ input \in Indexes \X Indexes
        \/ topic = "signed" /\ input \in TxInputs
        \/ topic = "state" /\ input \in AccountInputs
        \/ topic = "header" /\ input \in HeaderInputs
        \/ topic = "stored" /\ input \in StoredInputs
        \/ topic = "abi" /\ input \in AbiInputs
        \/ topic = "negative" /\ input \in 1 .. 300
        \/ topic = "spec" /\ input \in SpecInputs
        \/ topic = "puts" /\ input \in PutInputs
        \/ topic = "merkle" /\ input \in MerkleInputs
        \/ topic = "body" /\ input \in BodyInputs
        \/ topic = "btc" /\ input \in BtcInputs
        \/ topic = "btcHonest" /\ input \in HonestInputs
        \/ topic = "ipfs" /\ input \in IpfsInputs
        \/ topic = "tx" /\ input \in A!TxInputs
        \/ topic = "txAt" /\ input \in A!TxAtInputs
        \/ topic = "receipt" /\ input \in A!ReceiptInputs
        \/ topic = "count" /\ input \in A!CountInputs
        \/ topic = "block" /\ input \in A!BlockInputs
        \/ topic = "logs" /\ input \in A!LogInputs
        \/ topic = "account" /\ input \in A!AccountInputs
        \/ topic = "nodes" /\ input \in A!NodeInputs
        \/ topic = "white" /\ input \in A!WhiteInputs
        \/ topic = "offset" /\ input \in A!OffsetInputs

Next == topic = "trie" /\ TrieSet /\ UNCHANGED <<topic, input>>
Spec == Init /\ [][Next]_vars
-----------------------------------------------------------------------------
(* One property for each family of algorithms.  In each the operators named  *)
(* say what they except.                                                    *)

\* A trie built by any sequence of insertions is that of its content; its proofs are accepted,
\* and no sequence of its nodes proves what it does not hold (trie.c, merkle.c).
TriesProveTheirContent == TrieIsItsContent /\ HonestProofIsAccepted /\ ProvedIsContent

\* Arithmetic on words of any length is that of the numbers they hold, with its sign, its width
\* and its shifts (big.c, opcodes.c).
ArithmeticIsExact ==
  topic = "words" => /\ W!ArithmeticIsExact(input.a, input.b)
                     /\ W!SignsAreKept(input.a, input.b)
                     /\ W!ShiftsArePowers(input.a, input.b)

\* What is written, encoded or parsed is read as what it was: JSON of every form, hexadecimal
\* numbers, RLP around each change of its headers, paths, the fields of transactions, accounts,
\* headers and receipts, buffers and bit sets across their growth, and calls and results of contracts (data.c, utils.c, rlp.c,
\* serialize.c, stringbuilder.c, bytes.c, bitset.c, abi.c).
EncodingsAreExact ==
  /\ topic = "json" => J!JsonIsItsValue(input) /\ J!SourceIsItsOwn(input)
  /\ topic = "text" => J!AcceptedTokensNest(input)
  /\ topic = "digits" => J!HexIsItsNumber(input)
  /\ topic = "rlp" => RlpRoundTrip(input.s, input.t)
  /\ topic = "path" => PathRoundTrip(input)
  /\ topic = "index" => IndexHasItsLeaf(input[1], input[2])
  /\ topic = "signed" => TransactionIsKept(input.x, input.y)
  /\ topic = "state" => AccountIsKept(input.x, input.y)
  /\ topic = "header" => HeaderIsKept(input.x, input.y)
  /\ topic = "stored" => ReceiptIsKept(input.x, input.y)
  /\ topic = "buffer" => G!BufferHolds(input.start, input.writes)
  /\ topic = "bits" => G!BitsAreNumbers(input.len, input.changes)
  /\ topic = "number" => G!NumberIsItsBits(input.number, input.len)
  /\ topic = "abi" => CallsAreAbi(input) /\ ResultsAreValues(input)
  /\ topic = "negative" => B!NegativesAreKept(input)

\* An answer is accepted only if it is true of the chain and is about what was asked for, and an
\* honest node's answer is accepted: transactions and receipts with their place, sender and
\* values, blocks and counts, logs that pass the filter, accounts at their block, registered
\* nodes and white lists (eth_getTransaction.c, txreceipt.c, eth_getBlock.c, eth_getLog.c,
\* eth_account.c, registry.c).
AnswersAreOnChain ==
  /\ topic = "tx" => A!TransactionIsTrue(input) /\ A!TransactionIsAccepted(input)
  /\ topic = "txAt" => A!TransactionAtIsTrue(input) /\ A!TransactionAtIsAccepted(input)
  /\ topic = "receipt" => A!ReceiptIsTrue(input) /\ A!ReceiptIsAccepted(input)
  /\ topic = "count" => A!CountIsTrue(input) /\ A!CountIsAccepted(input)
  /\ topic = "block" => A!BlockIsTrue(input) /\ A!BlockIsAccepted(input)
  /\ topic = "logs" => A!LogsAreTrue(input) /\ A!LogsAreAccepted(input)
  /\ topic = "account" => A!AccountIsTrue(input) /\ A!AccountIsAccepted(input)
  /\ topic = "nodes" => A!NodesAreTrue(input) /\ A!NodesAreAccepted(input)
  /\ topic = "white" => A!WhiteListIsTrue(input) /\ A!WhiteListIsAccepted(input)
  /\ topic = "offset" => A!OffsetIsAdded(input)

\* Every chain is judged by its own rules: the EIPs and the consensus in force at each block of
\* a specification, Bitcoin's merkle root, target and finality, IPFS content by its hash
\* (chainspec.c, btc.c, btc_merkle.c, btc_serialize.c, ipfs.c).
ChainRulesAreFollowed ==
  /\ topic = "spec" => S!EipsAreActive(input) /\ S!BinIsItsSpec(input)
  /\ topic = "puts" => S!LastPutIsFound(input)
  /\ topic = "merkle" => O!ProofIsOfItsPlace(input)
  /\ topic = "body" => O!BodyIsItsTransactions(input)
  /\ topic = "btc" => O!BlockIsTrue(input.request, input.block, input.answer)
  /\ topic = "btcHonest" => O!BlockIsAccepted(input.request, input.block, input.final)
  /\ topic = "ipfs" => O!PutIsGot(input)
=============================================================================
