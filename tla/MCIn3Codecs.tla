----------------------------- MODULE MCIn3Codecs -----------------------------
(***************************************************************************)
(* Inputs for the contract calls, the chain specifications and the          *)
(* verifiers of other chains, used by MCIn3Data.                            *)
(***************************************************************************)
EXTENDS In3Trie

B == INSTANCE In3Abi WITH Word <- 3, Address <- 2, Selector <- 2
S == INSTANCE In3Specs WITH Eips <- {0, 3, 9}, Heights <- {0, 4, 5, 6, 129, 130, 131, 199, 200, 255}, Known <- [c \in {1} |-> <<"builtin">>]
O == INSTANCE In3OtherChains WITH MaxTarget <- 16
-----------------------------------------------------------------------------
(* Calls of up to three arguments: every type alone, dynamic and fixed      *)
(* arrays, empty and full words                                            *)

Param(name, digits, array) == [name |-> name, digits |-> digits, array |-> array]
Typed == {<<Param("uint", 0, 0), <<5>>>>, <<Param("uint", 16, 0), <<1, 0>>>>, <<Param("uint", 0, 0), <<0>>>>, <<Param("address", 0, 0), <<0, 7>>>>,
          <<Param("bool", 0, 0), <<1>>>>, <<Param("bytes", 2, 0), <<8, 0>>>>, <<Param("bytes", 4, 0), <<1, 2, 3, 4>>>>,
          <<Param("string", 0, 0), <<>>>>, <<Param("bytes", 0, 0), <<0, 2, 3, 4>>>>, <<Param("uint", 0, -1), <<>>>>,
          <<Param("uint", 8, -1), <<<<7>>, <<9>>>>>>, <<Param("address", 0, 2), <<<<7, 1>>, <<0, 0>>>>>>,
          <<Param("bytes", 4, -1), <<<<1, 2, 3, 4>>>>>>, <<Param("bytes", 4, 2), <<<<1, 2, 3, 4>>, <<0, 0, 0, 9>>>>>>}
Calls == [1 .. 1 -> Typed] \union [1 .. 2 -> Typed] \union [1 .. 3 -> Typed]
AbiInputs == {[params |-> [k \in DOMAIN c |-> c[k][1]], args |-> [k \in DOMAIN c |-> c[k][2]]] : c \in Calls}
\* All but the first parameter in a tuple of their own
Nested(ps) == <<ps[1], [name |-> "(", parts |-> Tail(ps)]>>

CallsAreAbi(x) == B!CallIsAbi(x.params, x.args) /\ B!CallIsAbi(Nested(x.params), x.args)
ResultsAreValues(x) == B!ResultIsItsValues(x.params, x.args)
-----------------------------------------------------------------------------
(* Specifications: EIPs that begin, end, end before they begin or never     *)
(* begin; every engine                                                     *)

Partial(ks, vs) == UNION {[d -> vs] : d \in SUBSET ks}
Engines == {[kind |-> "ethash"], [kind |-> "clique", extra |-> Repeat(32, 1) \o Repeat(60, 9) \o Repeat(65, 2)],
            [kind |-> "aura", entries |-> <<[block |-> 0, list |-> <<>>, contract |-> Repeat(20, 7)]>>],
            [kind |-> "aura", entries |-> <<[block |-> 0, list |-> <<Repeat(20, 8), Repeat(20, 9)>>, contract |-> <<>>],
                                            [block |-> 140, list |-> <<>>, contract |-> Repeat(19, 4)]>>]}
SpecInputs == [network : {1}, nonce : {0}, start : Partial({0, 3, 9}, {0, 5, 130}), end : Partial({3, 9}, {5, 130, 200}), engine : {[kind |-> "ethash"]}]
                \union [network : {0, 300}, nonce : {0, 1048576}, start : Partial({0, 3}, {0, 130}), end : Partial({3}, {130}), engine : Engines]
PutInputs == UNION {[1 .. n -> [chain : {1, 2}, spec : {Empty, <<"a">>, <<"b">>}]] : n \in 1 .. 4}
-----------------------------------------------------------------------------
(* Bitcoin: up to seven transactions; bodies with scripts of two lengths;   *)
(* a chain of five headers, of which one is the requested block's           *)

MerkleInputs == {[k \in 1 .. n |-> <<k>>] : n \in 1 .. 7}
BtcTxs == [ins : {<<0>>, <<1, 3>>, <<300>>}, outs : {<<>>, <<2>>, <<253, 0>>}, lock : {0, 253}]
BodyInputs == {<<t>> : t \in BtcTxs} \union {<<t, u>> : t \in BtcTxs, u \in BtcTxs}

T(n) == <<n>>
BtcTxLists == {<<T(1), T(2)>>, <<T(2), T(1)>>, <<T(1), T(2), T(3)>>, <<T(1), T(2), T(3), T(3)>>, <<T(1)>>}
Header(prev, txs, target, work) == [prev |-> prev, root |-> O!CreateRoot(txs), target |-> target, work |-> work]
Genesis == Header(<<>>, <<>>, 4, 3)
BtcBlocks == {[header |-> Header(Genesis, txs, 4, 3), txs |-> txs] : txs \in {<<T(1), T(2)>>, <<T(1), T(2), T(3)>>}}
Children(h) == {Header(h, <<T(9)>>, 4, 2), Header(h, <<T(9)>>, 2, 3), Header(Genesis, <<T(9)>>, 4, 2)}
Finals(h) == {<<>>} \union {<<c>> : c \in Children(h)} \union {<<c, d>> : c \in Children(h), d \in Children(Header(h, <<T(9)>>, 4, 2)) \union Children(h)}
BtcRequests(block) == [verification : {TRUE, FALSE}, method : {"getblock", "getblockheader"},
                       params : {<<>>, <<block.header, TRUE>>, <<block.header, FALSE>>}, finality : 0 .. 2]
BtcAnswers(block) ==
  [null : {FALSE}, json : BOOLEAN, header : {block.header} \union Children(block.header) \union {[block.header EXCEPT !.work = 5]},
   txs : BtcTxLists, final : Finals(block.header), hash : {block.header, Genesis}, difficulty : {4, 8}, nTx : 2 .. 4]
BtcInputs == UNION {[request : {r \in BtcRequests(b) : r.verification /\ r.method = "getblock" /\ r.params # <<>>}, block : {b}, answer : BtcAnswers(b)] : b \in BtcBlocks}
HonestInputs == UNION {[request : {r \in BtcRequests(b) : r.method = "getblock" /\ r.params # <<>>}, block : {b},
                        final : {<<Header(b.header, <<>>, 4, 1), Header(Header(b.header, <<>>, 4, 1), <<T(4)>>, 4, 4)>>}] : b \in BtcBlocks}
-----------------------------------------------------------------------------
Texts == [O!Encodings -> {"x", "y"}]
IpfsInputs == [putEncoding : {"", "hex", "utf8"}, putText : Texts, getEncoding : {"", "hex", "other"}, getText : Texts, hash : {"x", "y"}]
=============================================================================
