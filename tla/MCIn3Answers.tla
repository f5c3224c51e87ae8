----------------------------- MODULE MCIn3Answers -----------------------------
(***************************************************************************)
(* A small chain for In3Answers, requests, and the answers of nodes: the      *)
(* honest one, and those that differ from it in a few fields.               *)
(***************************************************************************)
EXTENDS Integers, Sequences, SequencesExt

CONSTANT None

TxOf(from, chain) == [from |-> from, key |-> "key of " \o from, chain |-> chain, standardV |-> 0, lowS |-> TRUE]
Transaction == [t1 |-> TxOf("alice", 1), t2 |-> TxOf("bob", 0), t3 |-> TxOf("alice", 1),
                  t4 |-> [TxOf("bob", 1) EXCEPT !.lowS = FALSE]]

LogOf(address, topics, data) == [address |-> address, topics |-> topics, data |-> data]
Quiet == [status |-> 1, logs |-> <<>>]
Loud == [status |-> 1, logs |-> <<LogOf("c1", <<"x">>, "d1"), LogOf("c2", <<"x", "y">>, "d2")>>]
Other == [status |-> 0, logs |-> <<LogOf("c1", <<"y">>, "d3")>>]

AccountOf(balance, nonce, code, storage) == [balance |-> balance, nonce |-> nonce, code |-> code, storage |-> storage]
NodeAt(address) == [address |-> address, url |-> address]
HashOf(listed) == <<"hash", listed>>
RegistryStorage == [k \in {<<0>>, <<0, 4>>, <<0, 9>>, <<0, 14>>} |->
                      CASE k = <<0>> -> <<"number", 3>> [] k = <<0, 4>> -> HashOf(NodeAt("n0"))
                        [] k = <<0, 9>> -> HashOf(NodeAt("n1")) [] k = <<0, 14>> -> HashOf(NodeAt("n2"))]
WhiteStorage == [k \in {<<0>>} |-> HashOf(<<"n0", "n2">>)]
State(balance) ==
  [alice |-> AccountOf(balance, 1, "empty", <<>>),
   code |-> AccountOf(0, 1, "code1", [k \in {1, 2} |-> 10 * k]),
   zero |-> AccountOf(0, 0, "empty", <<>>),
   registry |-> AccountOf(0, 1, "code2", RegistryStorage),
   white |-> AccountOf(0, 1, "code3", WhiteStorage)]

BlockOf(number, txs, receipts, uncles, state) ==
  [number |-> number, txs |-> txs, receipts |-> receipts, uncles |-> uncles, author |-> "miner", state |-> state]
Block == [a |-> BlockOf(1, <<"t1", "t2">>, <<Loud, Other>>, <<>>, State(5)),
            b |-> BlockOf(2, <<"t3">>, <<Loud>>, <<"u1">>, State(6)),
            c |-> BlockOf(3, <<>>, <<>>, <<>>, State(6)),
            f |-> BlockOf(2, <<"t1", "t4">>, <<Quiet, Quiet>>, <<>>, State(9))]
Chain == {"a", "b", "c"}

Registry == "registry"
Latest == 3

INSTANCE In3Answers
-----------------------------------------------------------------------------
(* alternatives: for some fields of a record, the values they may be changed to *)

Once(r, alternatives) == UNION {{[r EXCEPT ![f] = v] : v \in alternatives[f]} : f \in DOMAIN alternatives}
Upto1(r, alternatives) == {r} \union Once(r, alternatives)
Upto2(r, alternatives) == UNION {Upto1(q, alternatives) : q \in Upto1(r, alternatives)}

MerkleOf(tree, path) == [tree |-> tree, path |-> path, cut |-> FALSE]
Merkles(tree) == {None} \union {[tree |-> tree, path |-> p, cut |-> b] : p \in 0 .. 2, b \in BOOLEAN}
Places == {<<h, i>> \in {"a", "b"} \X (0 .. 1) : i < Len(Block[h].txs)}
-----------------------------------------------------------------------------
(* Transactions and receipts *)

HonestTx(h, i) ==
  LET t == Block[h].txs[i + 1]
  IN  [data |-> t, hash |-> t, raw |-> t, standardV |-> 0, chainId |-> Transaction[t].chain,
       publicKey |-> Transaction[t].key, from |-> Transaction[t].from, blockHash |-> h,
       blockNumber |-> Block[h].number, index |-> i, object |-> TRUE]
TxFields == [data |-> {"t1", "t3"}, hash |-> {"t1", "t3"}, raw |-> {None, "t2"}, standardV |-> {None, 1}, chainId |-> {None, 7},
             publicKey |-> {None, "key of bob"}, from |-> {None, "bob"}, blockHash |-> {None, "a", "f"},
             blockNumber |-> {1, 2}, index |-> {0, 1}]
TxProof(h, i) == [header |-> h, txIndex |-> i, merkle |-> MerkleOf(TxTree(h), i)]
TxProofs(h, i) == Upto2(TxProof(h, i), [header |-> {"a", "f"}, txIndex |-> {0, 1, 2}, merkle |-> Merkles(TxTree(h))])
TxInputs ==
  UNION {[hash : {"t1", "t3"}, t : {None} \union Upto1(HonestTx(p[1], p[2]), TxFields), proof : TxProofs(p[1], p[2])] : p \in Places}
    \union UNION {[hash : {HonestTx(p[1], p[2]).hash}, t : Upto2(HonestTx(p[1], p[2]), TxFields), proof : {TxProof(p[1], p[2])}] : p \in Places}
BlockRequests == {[hash |-> None, number |-> n] : n \in {None, 0, 1, 2}} \union {[hash |-> h, number |-> None] : h \in {"a", "b"}}
TxAtInputs ==
  UNION {[block : BlockRequests, index : 0 .. 2, t : {None} \union Upto1(HonestTx(p[1], p[2]), TxFields),
          proof : {TxProof(p[1], p[2])} \union Once(TxProof(p[1], p[2]), [header |-> {"a", "f"}, txIndex |-> {0, 1, 2}, merkle |-> Merkles(TxTree(p[1]))])
                    \union {[TxProof(p[1], p[2]) EXCEPT !.txIndex = 2, !.merkle = MerkleOf(TxTree(p[1]), 2)]}] : p \in Places}

HonestReceipt(h, i) ==
  LET r == Block[h].receipts[i + 1]
      before == IF i = 0 THEN 0 ELSE Len(Block[h].receipts[1].logs)
  IN  [data |-> r, blockHash |-> h, blockNumber |-> Block[h].number, index |-> i, txHash |-> Block[h].txs[i + 1],
       logs |-> [k \in DOMAIN r.logs |-> [blockNumber |-> Block[h].number, blockHash |-> h, logIndex |-> before + k - 1,
                                          txHash |-> Block[h].txs[i + 1], index |-> i]]]
ReceiptFields(r) ==
  [data |-> {Quiet, Other}, blockHash |-> {None, "a", "f"}, blockNumber |-> {1, 2}, index |-> {0, 1}, txHash |-> {"t1", "t3"},
   logs |-> {[r.logs EXCEPT ![k] = l] : k \in DOMAIN r.logs,
             l \in Once(r.logs[1], [blockNumber |-> {1, 2}, blockHash |-> {"a", "f"}, logIndex |-> {1}, txHash |-> {"t1", "t2"}, index |-> {0, 1}])}]
ReceiptProof(h, i) == [header |-> h, txIndex |-> i, merkle |-> MerkleOf(ReceiptTree(h), i), txProof |-> MerkleOf(TxTree(h), i)]
ReceiptProofs(h, i) ==
  Upto1(ReceiptProof(h, i), [header |-> {"a", "f"}, txIndex |-> {0, 1}, merkle |-> Merkles(ReceiptTree(h)), txProof |-> Merkles(TxTree(h))])
ReceiptInputs ==
  UNION {[hash : {"t1", "t3"}, t : {None} \union Upto2(HonestReceipt(p[1], p[2]), ReceiptFields(HonestReceipt(p[1], p[2]))),
          proof : ReceiptProofs(p[1], p[2]), full : {TRUE, FALSE}] : p \in Places}
-----------------------------------------------------------------------------
(* Blocks *)

RawTx(t) == [raw |-> t, object |-> FALSE]
CountInputs ==
  UNION {[block : BlockRequests, count : 0 .. 2,
          proof : [header : {h, "f"}, txs : {None, <<>>, Block[h].txs, <<"t1">>, <<"t2", "t1">>}]] : h \in {"a", "b", "c"}}
BlockTxs(h) ==
  LET honest == [k \in DOMAIN Block[h].txs |-> HonestTx(h, k - 1)]
  IN  {<<>>, honest, [k \in DOMAIN honest |-> RawTx(honest[k].data)], [k \in DOMAIN honest |-> RawTx("t1")]}
        \union {[honest EXCEPT ![k] = t] : k \in DOMAIN honest, t \in IF honest = <<>> THEN {} ELSE Once(honest[1], TxFields)}
HonestBlock(h, txs) == [header |-> h, hash |-> h, author |-> "miner", miner |-> "miner", txs |-> txs, uncles |-> Block[h].uncles]
Blocks(h, txs) == Upto1(HonestBlock(h, txs), [header |-> {"a", "f"}, hash |-> {"a", "f"}, author |-> {None, "other"}, uncles |-> {<<>>, <<"u1">>}])
BlockInputs ==
  UNION {[block : BlockRequests, full : {TRUE, FALSE}, includeTx : {FALSE},
          b : Blocks(h, Block[h].txs) \union {HonestBlock(h, <<"t1">>)},
          proof : [txs : {None} \union BlockTxs(h), uncles : {Block[h].uncles, <<"u2">>}]] : h \in {"a", "b", "c"}}
    \union
  UNION {[block : BlockRequests, full : {TRUE, FALSE}, includeTx : {TRUE}, b : UNION {Blocks(h, txs) : txs \in BlockTxs(h)},
          proof : [txs : {None}, uncles : {Block[h].uncles}]] : h \in {"a", "b", "c"}}
-----------------------------------------------------------------------------
(* Logs *)

HonestLog(h, i, k) ==
  LET l == Block[h].receipts[i + 1].logs[k + 1]
  IN  [address |-> l.address, topics |-> l.topics, data |-> l.data, blockNumber |-> Block[h].number, blockHash |-> h,
       txHash |-> Block[h].txs[i + 1], index |-> i, logIndexInTx |-> k, removed |-> FALSE]
LogFields == [address |-> {"c1", "c2"}, topics |-> {<<"y">>, <<"x", "y">>}, data |-> {"d1"}, blockNumber |-> {1, 2}, blockHash |-> {"a", "f"},
              txHash |-> {"t1", "t2"}, index |-> {0, 1}, logIndexInTx |-> {0, 1, 2}, removed |-> {TRUE}]
LogPlaces == {<<"a", 0, 0>>, <<"a", 0, 1>>, <<"a", 1, 0>>, <<"b", 0, 0>>, <<"b", 0, 1>>}
LogReceipt(h, i) == [txHash |-> Block[h].txs[i + 1], txIndex |-> i, txProof |-> MerkleOf(TxTree(h), i), proof |-> MerkleOf(ReceiptTree(h), i)]
LogReceipts(h, i) ==
  Upto1(LogReceipt(h, i), [txHash |-> {"t1", "t3"}, txIndex |-> {0, 1}, txProof |-> Merkles(TxTree(h)), proof |-> Merkles(ReceiptTree(h))])
LogProof(h, receipts) == [number |-> Block[h].number, key |-> Block[h].number, header |-> h, receipts |-> receipts]
AnyFilter == [addresses |-> None, from |-> None, to |-> None, blockHash |-> None, topics |-> None]
Filters == Upto2(AnyFilter, [addresses |-> {{"c1"}, {"c1", "c2"}}, from |-> {2, Newest}, to |-> {1, Newest}, blockHash |-> {"a", "b"},
                             topics |-> {<<>>, <<{"x"}>>, <<None, {"y", "z"}>>}])
Passing(filter, places) == SelectSeq([k \in DOMAIN places |-> HonestLog(places[k][1], places[k][2], places[k][3])],
                                     LAMBDA l : MatchesFilter(filter, l))
AllPlaces == <<<<"a", 0, 0>>, <<"a", 0, 1>>, <<"a", 1, 0>>, <<"b", 0, 0>>, <<"b", 0, 1>>>>
FullProof == <<LogProof("a", <<LogReceipt("a", 0), LogReceipt("a", 1)>>), LogProof("b", <<LogReceipt("b", 0)>>)>>
\* The proof of an honest node: the blocks and receipts that the logs are from.
ProofFor(logs) ==
  LET receipts(h) == SelectSeq(<<0, 1>>, LAMBDA i : \E k \in DOMAIN logs : logs[k].blockHash = h /\ logs[k].index = i)
  IN  SelectSeq([k \in 1 .. 2 |-> LET h == <<"a", "b">>[k] IN LogProof(h, [j \in DOMAIN receipts(h) |-> LogReceipt(h, receipts(h)[j])])],
                LAMBDA p : p.receipts # <<>>)
LogInputs ==
  {[filter |-> f, logs |-> Passing(f, AllPlaces), proofs |-> ProofFor(Passing(f, AllPlaces))] : f \in Filters}
    \union UNION {[filter : Filters, logs : {<<l>> : l \in Upto1(HonestLog(p[1], p[2], p[3]), LogFields)},
                   proofs : {<<LogProof(p[1], <<LogReceipt(p[1], p[2])>>)>>}] : p \in LogPlaces}
    \union UNION {[filter : {AnyFilter}, logs : {<<l>> : l \in Upto1(HonestLog(p[1], p[2], p[3]), LogFields)},
                   proofs : {<<>>} \union {<<[LogProof(p[1], <<r>>) EXCEPT !.key = n, !.header = h]>> : n \in 1 .. 2, h \in {p[1], "f"}, r \in LogReceipts(p[1], p[2])}] : p \in LogPlaces}
    \union {[filter |-> f, logs |-> <<HonestLog(p[1], p[2], p[3]), HonestLog(q[1], q[2], q[3]), HonestLog("a", 0, 0)>>, proofs |-> FullProof] : f \in Filters, p \in LogPlaces, q \in LogPlaces}
-----------------------------------------------------------------------------
(* Accounts *)

StateTree(h) == Block[h].state
SlotOf(a, key) == [key |-> key, value |-> ValueAt(a.storage, key, 0), proof |-> IF a.storage = <<>> THEN None ELSE MerkleOf(a.storage, key)]
AccountProof(h, address, slots) ==
  LET a == AccountAt(h, address)
  IN  [address |-> address, balance |-> a.balance, nonce |-> a.nonce, code |-> a.code, storage |-> a.storage,
       proof |-> MerkleOf(StateTree(h), address), slots |-> [k \in DOMAIN slots |-> SlotOf(a, slots[k])]]
Addresses == {"alice", "code", "zero", "nobody"}
Keys == {1, 3}
Methods == {"eth_getBalance", "eth_getTransactionCount", "eth_getCode", "eth_getStorageAt", "eth_call"}
AccountFields(h, a) ==
  [address |-> {"alice", "code"}, balance |-> {0, 7}, nonce |-> {0, 7}, code |-> {"empty", "code9"}, storage |-> {<<>>, [k \in {1} |-> 30]},
   proof |-> {None, MerkleOf(StateTree("f"), a.address), [a.proof EXCEPT !.cut = TRUE], [a.proof EXCEPT !.path = "nobody"], [a.proof EXCEPT !.path = "code"]},
   slots |-> {<<>>} \union {[a.slots EXCEPT ![1] = s] : s \in IF a.slots = <<>> THEN {} ELSE
                Once(a.slots[1], [key |-> {1, 3}, value |-> {0, 30},
                                  proof |-> {None} \union {[tree |-> a.storage, path |-> k, cut |-> b] : k \in Keys, b \in BOOLEAN}])}]
Results(method) == IF method = "eth_getCode" THEN {"empty", "code1", "code9"} ELSE {0, 1, 5, 6, 7, 10, 30}
AccountInputs ==
  UNION {LET honest == AccountProof(h, ad, <<key>>) IN
         [request : [method : {m}, address : {ad}, key : {key}, number : {None, 1, 2}], result : Results(m),
          proof : [header : {h}, accounts : {<<>>, <<AccountProof(h, "code", <<>>), honest>>} \union {<<a>> : a \in Upto1(honest, AccountFields(h, honest))}]]
         : h \in {"b", "f"}, ad \in Addresses, key \in Keys, m \in Methods}
-----------------------------------------------------------------------------
(* The registry *)

NodeToken(i) == [index |-> i, content |-> RegistryStorage[<<0, 5 * i + 4>>][2]]
Altered == [index |-> 0, content |-> NodeAt("n9")]
NodeLists == UNION {[1 .. n -> {NodeToken(0), NodeToken(1), NodeToken(2), Altered}] : n \in 1 .. 3}
RegistrySlots == <<<<0>>, <<0, 4>>, <<0, 9>>, <<0, 14>>>>
RegistryProof(h, contract, slots) ==
  [header |-> h, accounts |-> <<[AccountProof(h, contract, <<>>) EXCEPT !.slots =
      [k \in DOMAIN slots |-> [key |-> slots[k], value |-> ValueAt(AccountAt(h, contract).storage, slots[k], None),
                               proof |-> MerkleOf(AccountAt(h, contract).storage, slots[k])]]]>>]
RegistryProofs == {RegistryProof(h, "registry", s) : h \in {"b", "f"}, s \in {RegistrySlots, <<<<0>>, <<0, 4>>>>, <<<<0, 4>>, <<0, 9>>>>}}
                    \union {RegistryProof("b", "white", <<<<0>>>>)}
                    \union {[RegistryProof("b", "registry", RegistrySlots) EXCEPT !.accounts[1].slots[k] = s] : k \in 1 .. 2,
                              s \in Once(RegistryProof("b", "registry", RegistrySlots).accounts[1].slots[2],
                                         [value |-> {None, HashOf(NodeAt("n9"))}, key |-> {<<0, 9>>, <<0, 19>>}])}
NodeInputs ==
  [request : [limit : {0, 2, 3}, first : 0 .. 2, steps : {<<1, 1>>, <<3, 2>>}, required : {<<>>, <<"n1">>, <<"n2", "n1">>}],
   result : [nodes : NodeLists, total : {3}, contract : {"registry"}, lastBlock : {1, 3}],
   proof : {RegistryProof("b", "registry", RegistrySlots)}]
    \union
  [request : [limit : {0, 2}, first : {1}, steps : {<<1, 1>>}, required : {<<>>}],
   result : [nodes : {<<NodeToken(0), NodeToken(1), NodeToken(2)>>, <<NodeToken(1), NodeToken(2)>>, <<NodeToken(0), NodeToken(1), Altered>>},
             total : {2, 3}, contract : {"registry", "white"}, lastBlock : {1}],
   proof : RegistryProofs]
WhiteInputs ==
  [contract : {None, "white", "registry"},
   result : [nodes : {<<"n0">>, <<"n0", "n2">>, <<"n2", "n0">>}, total : {1, 2}, contract : {"white", "registry"}, lastBlock : {1, 3}],
   proof : {RegistryProof(h, "white", <<<<0>>>>) : h \in {"b", "f"}} \union {RegistryProof("b", "white", <<>>)}]

OffsetInputs == [a : [1 .. 4 -> {0, 1, 255}], b : [1 .. 4 -> {0, 1, 255}]]
-----------------------------------------------------------------------------
(* What is accepted is true, and what an honest node answers is accepted *)

TransactionIsTrue(x) ==
  (x.t # None /\ VerifyTransaction(x.hash, x.t, x.proof)) => IsTransaction(x.hash, x.t, x.proof.header)
\* Known: the index of a transaction that does not exist is the one in the proof, and a proof that
\* is cut short proves that there is none.
TransactionAtIsTrue(x) ==
  VerifyTransactionByBlock(x.block, x.index, x.t, x.proof) =>
    /\ IsRequested(x.block, x.proof.header)
    /\ IF x.t # None THEN IsTransaction(x.t.hash, x.t, x.proof.header) /\ x.t.index = x.index
       ELSE (x.proof.txIndex = x.index /\ ~x.proof.merkle.cut) => x.index \notin DOMAIN TxTree(x.proof.header)
ReceiptIsTrue(x) ==
  (x.t # None /\ VerifyReceipt(x.hash, x.t, x.proof, x.full)) =>
    LET h == x.proof.header
    IN  /\ h \in Chain /\ x.t.txHash = x.hash /\ Block[h].txs[x.t.index + 1] = x.hash
        /\ Block[h].receipts[x.t.index + 1] = x.t.data /\ x.t.blockNumber = Number(h) /\ x.t.blockHash \in {None, h}
        /\ \A k \in DOMAIN x.t.logs : x.t.logs[k].txHash = x.hash /\ x.t.logs[k].blockNumber = Number(h)
CountIsTrue(x) ==
  VerifyTransactionCount(x.block, x.count, x.proof) =>
    /\ x.count = Len(Block[x.proof.header].txs)
    /\ x.proof.header \in Chain /\ x.block.hash \in {None, x.proof.header}
BlockIsTrue(x) ==
  VerifyBlock(x.block, x.full, x.includeTx, x.b, x.proof) =>
    /\ x.block.number # 0 => IsRequested(x.block, x.b.header)
    /\ IF x.includeTx
       THEN /\ Len(x.b.txs) = Len(Block[x.b.header].txs)
            /\ \A k \in DOMAIN x.b.txs :
                 IF x.b.txs[k].object
                 THEN \E i \in {k - 1} : IsTransaction(Block[x.b.header].txs[k], [x.b.txs[k] EXCEPT !.index = i, !.blockNumber = Number(x.b.header)], x.b.header)
                                        /\ x.b.txs[k].index = i /\ x.b.txs[k].blockNumber = Number(x.b.header)
                 ELSE x.b.txs[k].raw = Block[x.b.header].txs[k]
       ELSE x.b.txs = Block[x.b.header].txs
    /\ x.full => x.b.uncles = Block[x.b.header].uncles
LogsAreTrue(x) == VerifyLogs(x.filter, x.logs, x.proofs) => \A k \in DOMAIN x.logs : IsLog(x.filter, x.logs[k])
AccountIsTrue(x) ==
  VerifyAccountAnswer(x.request, x.result, x.proof) => IsAccountAnswer(x.request, x.result, x.proof.header)
NodesAreTrue(x) ==
  VerifyNodeList(x.request, x.result, x.proof) =>
    /\ AreRegistered("registry", x.result, x.proof.header)
    /\ \A k \in DOMAIN x.request.required : x.request.limit \in 1 .. 2 => \E j \in DOMAIN x.result.nodes : x.result.nodes[j].content.address = x.request.required[k]
    /\ x.request.limit \in 1 .. 2 => \A j, k \in DOMAIN x.result.nodes : j # k => x.result.nodes[j] # x.result.nodes[k]
WhiteListIsTrue(x) ==
  VerifyWhiteList(x.contract, x.result, x.proof) =>
    Hash(x.result.nodes) = WhiteStorage[<<0>>] /\ x.proof.header \in Chain /\ x.contract \in {None, "white"}

Value(s) == FoldLeft(LAMBDA v, b : v * 256 + b, 0, s)
\* Known: an offset of three or four bytes is added in part.
OffsetIsAdded(x) ==
  LET v == Value(SubSeq(x.b, 3, 4))
      sum == Value(SubSeq(x.a, 2, 4)) + v
  IN  (x.b[1] = 0 /\ x.b[2] = 0) => Value(SubSeq(AddOffset(x.a, x.b), 2, 4)) = sum % 256^3
-----------------------------------------------------------------------------
(* What an honest node answers is accepted, but for the cases named *)

TransactionIsAccepted(x) ==
  \A p \in Places : (x.t = HonestTx(p[1], p[2]) /\ x.proof = TxProof(p[1], p[2]) /\ x.hash = x.t.hash) =>
    VerifyTransaction(x.hash, x.t, x.proof)
\* Known: block 0 is never accepted.
TransactionAtIsAccepted(x) ==
  \A p \in Places :
    (/\ IsRequested(x.block, p[1]) /\ x.proof.header = p[1]
     /\ \/ x.t = HonestTx(p[1], p[2]) /\ x.index = p[2] /\ x.proof = TxProof(p[1], p[2])
        \/ x.t = None /\ x.index = 2 /\ x.proof.txIndex = 2 /\ x.proof.merkle = MerkleOf(TxTree(p[1]), 2)) =>
      VerifyTransactionByBlock(x.block, x.index, x.t, x.proof)
\* Known: with a full proof, a receipt with logs is only accepted if no log comes before them in the block.
ReceiptIsAccepted(x) ==
  \A p \in Places :
    (/\ x.t = HonestReceipt(p[1], p[2]) /\ x.proof = ReceiptProof(p[1], p[2]) /\ x.hash = x.t.txHash
     /\ x.full => p[2] = 0) =>
      VerifyReceipt(x.hash, x.t, x.proof, x.full)
\* Known: "latest" is compared with the number 0.
CountIsAccepted(x) ==
  \A h \in Chain :
    (/\ IsRequested(x.block, h) /\ x.block # [hash |-> None, number |-> None]
     /\ x.proof = [header |-> h, txs |-> Block[h].txs] /\ x.count = Len(Block[h].txs)) =>
      VerifyTransactionCount(x.block, x.count, x.proof)
BlockIsAccepted(x) ==
  \A h \in Chain :
    LET objects == [k \in DOMAIN Block[h].txs |-> HonestTx(h, k - 1)]
    IN  (/\ IsRequested(x.block, h)
         /\ IF x.includeTx THEN x.b = HonestBlock(h, objects)
            ELSE x.b = HonestBlock(h, Block[h].txs) /\ x.proof.txs = objects
         /\ x.proof.uncles = Block[h].uncles) =>
          VerifyBlock(x.block, x.full, x.includeTx, x.b, x.proof)
LogsAreAccepted(x) ==
  (/\ x.logs = Passing(x.filter, AllPlaces) /\ x.proofs = ProofFor(x.logs)
   /\ x.filter.blockHash # None \/ Newest \notin {x.filter.from, x.filter.to}) =>
    VerifyLogs(x.filter, x.logs, x.proofs)
\* Known: an account that exists and is empty is taken for one that does not.
AccountIsAccepted(x) ==
  LET h == x.proof.header
  IN  (/\ IsAccountAnswer(x.request, x.result, h) /\ x.request.address # "zero"
       /\ x.proof.accounts = <<AccountProof(h, x.request.address, <<x.request.key>>)>>) =>
        VerifyAccountAnswer(x.request, x.result, x.proof)
NodesAreAccepted(x) ==
  LET r == x.request
      given == [k \in DOMAIN r.required |-> IF r.required[k] = "n1" THEN 1 ELSE 2]
      indexes == IF r.limit \in 1 .. 2 THEN RandomIndexes(3, r.limit, r.steps, r.first, given) ELSE <<0, 1, 2>>
  IN  (/\ x.result.nodes = [k \in DOMAIN indexes |-> NodeToken(indexes[k])] /\ x.result.total = 3
       /\ x.result.contract = "registry" /\ x.result.lastBlock <= 2 /\ x.proof = RegistryProof("b", "registry", RegistrySlots)) =>
        VerifyNodeList(x.request, x.result, x.proof)
WhiteListIsAccepted(x) ==
  (/\ x.contract \in {None, "white"} /\ x.proof = RegistryProof("b", "white", <<<<0>>>>)
   /\ x.result = [nodes |-> <<"n0", "n2">>, total |-> 2, contract |-> "white", lastBlock |-> 1]) =>
    VerifyWhiteList(x.contract, x.result, x.proof)
=============================================================================
