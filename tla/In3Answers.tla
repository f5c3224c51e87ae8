------------------------------ MODULE In3Answers ------------------------------
(***************************************************************************)
(* What in3-c accepts as the answer to a request (verifier/eth1: basic/      *)
(* eth_getTransaction.c, eth_getBlock.c, eth_getLog.c, eth_account.c; nano/  *)
(* txreceipt.c, registry.c): the checks that tie every field of a result to  *)
(* a block header and Merkle proofs.                                        *)
(*                                                                         *)
(* Hashing is taken to be injective: a block, a transaction, a code or a     *)
(* storage stands for its own hash, a tree (a function from paths to         *)
(* values) for its own root.  Which headers are accepted is the matter of    *)
(* In3Headers, which nodes a Merkle proof must have that of In3Trie: here a  *)
(* header is accepted if it is on the Chain, and a proof is                  *)
(* [tree, path, cut], where a proof that is cut short stops above its value. *)
(***************************************************************************)
EXTENDS Integers, Sequences, FiniteSets, SequencesExt

CONSTANTS
  Block,          \* hash |-> [number, txs, receipts, uncles, author, state]
  Chain,          \* the hashes of the blocks that are on the chain
  Transaction,    \* hash |-> [from, key, chain, standardV, lowS]
  Registry,       \* chain->contract
  Latest,         \* vc->currentBlock
  None

Number(h) == Block[h].number
Tree(s) == [i \in 0 .. Len(s) - 1 |-> s[i + 1]]
TxTree(h) == Tree(Block[h].txs)
ReceiptTree(h) == Tree(Block[h].receipts)

\* eth_verify_blockheader
VerifyHeader(header, hash) == header \in Chain /\ hash \in {None, header}
-----------------------------------------------------------------------------
(* trie_verify_proof *)

Fits(proof, tree, path) == proof # None /\ proof.tree = tree /\ proof.path = path
Reached(proof) == IF proof = None \/ proof.cut \/ proof.path \notin DOMAIN proof.tree THEN None ELSE proof.tree[proof.path]

\* expectedValue is NULL: no value, or not reached.
Absent(proof, tree, path) == Fits(proof, tree, path) /\ Reached(proof) = None
\* expectedValue->data is NULL: the value is to be returned, and is not if the proof is cut.
Obtained(proof, tree, path) == Fits(proof, tree, path) /\ (proof.cut \/ path \in DOMAIN tree)
\* expectedValue is a value.
Proved(proof, tree, path, value) == Fits(proof, tree, path) /\ Reached(proof) = value
-----------------------------------------------------------------------------
(* eth_getTransaction.c.  A transaction in a result has the fields of data,   *)
(* which it is serialised from, and others beside them.                     *)

\* eth_verify_tx_values.  Another message than the one that was signed recovers another key.
TxValues(t, raw) ==
  LET signed == Transaction[t.data]
  IN  /\ raw # None
      /\ t.hash = raw
      /\ t.raw \in {None, raw}
      /\ t.standardV \in {None, signed.standardV}
      /\ t.chainId \in {None, signed.chain}
      /\ signed.lowS
      /\ t.data = raw \/ (t.publicKey = None /\ t.from = None)
      /\ t.publicKey \in {None, signed.key}
      /\ t.from \in {None, signed.from}

\* The checks that both kinds of requests share once the transaction is proved.
TxPlace(t, proof, raw) ==
  /\ TxValues(t, raw)
  /\ t.index = proof.txIndex
  /\ t.blockNumber = Number(proof.header)
  /\ t.data = raw

\* eth_verify_eth_getTransaction; a null result is accepted before it is called.
VerifyTransaction(hash, t, proof) ==
  t # None =>
    LET raw == Reached(proof.merkle)
    IN  /\ VerifyHeader(proof.header, t.blockHash)
        /\ Obtained(proof.merkle, TxTree(proof.header), proof.txIndex)
        /\ raw = hash
        /\ TxPlace(t, proof, raw)

\* The block of a request is [hash, number]; both are None for "latest".
RequestedBlock(block, header, blockHash, blockNumber) ==
  /\ block.hash # None => blockHash \in {None, block.hash} /\ header = block.hash
  /\ block.number # None =>
       block.number # 0 /\ blockNumber \in {None, block.number} /\ Number(header) = block.number

\* eth_verify_eth_getTransactionByBlock.  That there is no transaction is proved for the index in
\* the proof, whatever was requested.
VerifyTransactionByBlock(block, index, t, proof) ==
  LET tree == TxTree(proof.header)
      field(f) == IF t = None THEN None ELSE f
  IN  /\ RequestedBlock(block, proof.header, field(t.blockHash), field(t.blockNumber))
      /\ field(t.index) \in {None, index}
      /\ VerifyHeader(proof.header, field(t.blockHash))
      /\ IF t = None THEN Absent(proof.merkle, tree, proof.txIndex)
         ELSE /\ Obtained(proof.merkle, tree, proof.txIndex)
              /\ TxPlace(t, proof, Reached(proof.merkle))
-----------------------------------------------------------------------------
(* txreceipt.c.  A receipt's data is what it is serialised from. *)

\* eth_verify_eth_getTransactionReceipt.  With a full proof the index of a log in its block is
\* compared with its position in the receipt.
VerifyReceipt(hash, r, proof, full) ==
  LET header == proof.header
  IN  r # None =>
        /\ VerifyHeader(header, r.blockHash)
        /\ Number(header) = r.blockNumber
        /\ Proved(proof.merkle, ReceiptTree(header), proof.txIndex, r.data)
        /\ Obtained(proof.txProof, TxTree(header), proof.txIndex)
        /\ Reached(proof.txProof) = hash
        /\ r.index = proof.txIndex
        /\ r.txHash = hash
        /\ \A k \in DOMAIN r.logs :
             /\ r.logs[k].blockNumber = r.blockNumber
             /\ r.logs[k].blockHash = r.blockHash
             /\ full => r.logs[k].logIndex = k - 1
             /\ r.logs[k].txHash = hash
             /\ r.logs[k].index = proof.txIndex
-----------------------------------------------------------------------------
(* eth_getBlock.c.  A block in a result has the header its fields are         *)
(* serialised to, and hash, author and miner beside them.                    *)

\* eth_verify_eth_getBlockTransactionCount.  That the transactions are missing is an error
\* message, but not the end.
VerifyTransactionCount(block, count, proof) ==
  LET txs == IF proof.txs = None THEN <<>> ELSE proof.txs
  IN  /\ VerifyHeader(proof.header, block.hash)
      /\ block.hash = None => Number(proof.header) = (IF block.number = None THEN 0 ELSE block.number)
      /\ Len(txs) = count
      /\ Tree(txs) = TxTree(proof.header)

\* eth_verify_uncles
VerifyUncles(header, hashes, headers) == hashes = headers /\ headers = Block[header].uncles

\* One transaction of a block: the raw one, or an object that is serialised.
Raw(t) == IF t.object THEN t.data ELSE t.raw
TxOfBlock(b, t, i) ==
  t.object => /\ TxValues(t, t.data)
              /\ t.blockHash \in {None, b.hash}
              /\ t.blockNumber \in {None, Number(b.header)}
              /\ t.index \in {None, i}

\* eth_verify_eth_getBlock; the number 0 is not compared.
VerifyBlock(block, full, includeTx, b, proof) ==
  LET txs == IF includeTx THEN b.txs ELSE proof.txs
      raws == [k \in DOMAIN txs |-> Raw(txs[k])]
  IN  /\ block.hash \in {None, b.hash}
      /\ block.number \in {None, 0, Number(b.header)}
      /\ VerifyHeader(b.header, b.hash)
      /\ b.miner # None /\ b.author # None => b.miner = b.author
      /\ txs # None
      /\ ~includeTx => raws = b.txs
      /\ \A k \in DOMAIN txs : TxOfBlock(b, txs[k], k - 1)
      /\ Tree(raws) = TxTree(b.header)
      /\ full => VerifyUncles(b.header, b.uncles, proof.uncles)
-----------------------------------------------------------------------------
(* eth_getLog.c.  A filter is [addresses, from, to, blockHash, topics]; from  *)
(* and to are numbers, the word "latest" or None.                           *)

Newest == -1        \* "latest"

\* matches_filter_address, matches_filter_from_to, matches_filter_range, matches_filter_topics
MatchesAddress(filter, log) == filter.addresses = None \/ log.address \in filter.addresses
MatchesRange(filter, log) ==
  IF filter.blockHash # None THEN log.blockHash = filter.blockHash
  ELSE /\ filter.from # None /\ filter.from # Newest => log.blockNumber >= filter.from
       /\ filter.to # None /\ filter.to # Newest => log.blockNumber <= filter.to
\* A position of the filter's topics is a set of alternatives; None matches every topic.
MatchesTopics(filter, log) ==
  \/ filter.topics = None \/ filter.topics = <<>>
  \/ /\ Len(filter.topics) <= Len(log.topics) /\ Len(log.topics) <= 4
     /\ \A k \in DOMAIN filter.topics : filter.topics[k] = None \/ log.topics[k] \in filter.topics[k]
MatchesFilter(filter, log) == MatchesAddress(filter, log) /\ MatchesRange(filter, log) /\ MatchesTopics(filter, log)

\* filter_from_equals_to compares strings and bytes only: numbers as large as that are not modelled.
FromEqualsTo(filter) == filter.from = filter.to /\ filter.from = Newest

\* filter_check_latest
Near(n) == n - Latest \in -1 .. 1
CheckLatest(filter, n, last) ==
  LET above == filter.from = None \/ n >= filter.from
  IN  \/ filter.blockHash # None
      \/ filter.from = Newest /\ Near(n)
      \/ filter.from # Newest /\ filter.to = Newest /\ above /\ (IF last THEN Near(n) ELSE n <= Latest + 1)
      \/ filter.from # Newest /\ filter.to # Newest

\* The receipts the proof holds, in its order: one [tx, header, index, logs] each.
Receipts(proofs) ==
  LET of(p) == [k \in DOMAIN p.receipts |->
                  [tx |-> Reached(p.receipts[k].txProof), header |-> p.header, index |-> p.receipts[k].txIndex,
                   logs |-> Reached(p.receipts[k].proof)]]
  IN  FlattenSeq([k \in DOMAIN proofs |-> of(proofs[k])])

\* One receipt of the proof of one block.
VerifyLogReceipt(header, r) ==
  /\ Obtained(r.txProof, TxTree(header), r.txIndex)
  /\ r.txHash = Reached(r.txProof)
  /\ Obtained(r.proof, ReceiptTree(header), r.txIndex)

\* Mutant of LogIsProved: the log is one of the receipt, not the one at the index.
LogIsProvedAnywhere(log, r) ==
  /\ \E k \in DOMAIN r.logs.logs : r.logs.logs[k] = [address |-> log.address, topics |-> log.topics, data |-> log.data]
  /\ log.blockNumber = Number(r.header) /\ log.blockHash = r.header /\ ~log.removed /\ log.index = r.index

\* One log against the receipt found for its transaction; which log of the block it is is not compared.
LogIsProved(log, r) ==
  /\ r.logs # None /\ log.logIndexInTx + 1 \in DOMAIN r.logs.logs
  /\ r.logs.logs[log.logIndexInTx + 1] = [address |-> log.address, topics |-> log.topics, data |-> log.data]
  /\ log.blockNumber = Number(r.header)
  /\ log.blockHash = r.header
  /\ ~log.removed
  /\ log.index = r.index

\* eth_verify_eth_getLog.  prev_blk is set by the first log only.
VerifyLogs(filter, logs, proofs) ==
  LET receipts == Receipts(proofs)
      receiptOf(log) == SelectSeq(receipts, LAMBDA r : r.tx = log.txHash)
  IN  logs # <<>> =>
        /\ Len(proofs) <= Len(logs) /\ Len(receipts) <= Len(logs)
        /\ \A k \in DOMAIN proofs :
             /\ proofs[k].number = proofs[k].key
             /\ VerifyHeader(proofs[k].header, None)
             /\ \A j \in DOMAIN proofs[k].receipts : VerifyLogReceipt(proofs[k].header, proofs[k].receipts[j])
        /\ \A k \in DOMAIN logs :
             /\ receiptOf(logs[k]) # <<>>
             /\ LogIsProved(logs[k], receiptOf(logs[k])[1])
             /\ MatchesFilter(filter, logs[k])
             /\ FromEqualsTo(filter) => logs[k].blockNumber = logs[1].blockNumber
             /\ logs[1].blockNumber <= logs[k].blockNumber
             /\ CheckLatest(filter, logs[k].blockNumber, k = Len(logs))
-----------------------------------------------------------------------------
(* eth_account.c.  An account of a proof is [address, balance, nonce, code,   *)
(* storage, proof, slots], a slot [key, value, proof].                       *)

NoCode == "empty"
NoStorage == <<>>
Content(a) == [balance |-> a.balance, nonce |-> a.nonce, code |-> a.code, storage |-> a.storage]
Nothing == [balance |-> 0, nonce |-> 0, code |-> NoCode, storage |-> NoStorage]

\* is_not_existened
NotExisting(a) == Content(a) = Nothing

\* The storage proofs in verify_proof; for an empty storage the proof is the empty node alone.
VerifySlot(a, s) ==
  IF a.storage = NoStorage THEN s.value = 0 /\ s.proof = None
  ELSE IF s.value = 0 THEN Absent(s.proof, a.storage, s.key)
  ELSE Proved(s.proof, a.storage, s.key, s.value)

\* verify_proof
VerifyAccount(header, a) ==
  /\ IF NotExisting(a) THEN Absent(a.proof, Block[header].state, a.address)
     ELSE Proved(a.proof, Block[header].state, a.address, Content(a))
  /\ \A k \in DOMAIN a.slots : VerifySlot(a, a.slots[k])

\* eth_verify_account_proof; that eth_call gives the result is then left to the EVM (In3Evm).
VerifyAccountAnswer(request, result, proof) ==
  LET own == SelectSeq(proof.accounts, LAMBDA a : a.address = request.address)
      slot == SelectSeq(own[1].slots, LAMBDA s : s.key = request.key)
  IN  /\ VerifyHeader(proof.header, None)
      /\ request.number \in {None, Number(proof.header)}
      /\ \A k \in DOMAIN proof.accounts : VerifyAccount(proof.header, proof.accounts[k])
      /\ own # <<>>
      /\ CASE request.method = "eth_getBalance" -> result = own[1].balance
           [] request.method = "eth_getTransactionCount" -> result = own[1].nonce
           [] request.method = "eth_getCode" -> result = own[1].code
           [] request.method = "eth_getStorageAt" -> slot # <<>> /\ result = slot[1].value
           [] request.method = "eth_call" -> TRUE
-----------------------------------------------------------------------------
(* registry.c *)

\* big_add: a's bytes plus those of b without leading zeros; the loop adds one byte of b, or two if
\* it has exactly two.
AddOffset(a, b) ==
  LET len == IF \A k \in DOMAIN b : b[k] = 0 THEN 1 ELSE 1 + Len(b) - (CHOOSE k \in DOMAIN b : b[k] # 0 /\ \A j \in 1 .. k - 1 : b[j] = 0)
      added == IF len = 2 THEN 2 ELSE 1
      byte(s, k) == s[Len(s) + 1 - k]        \* the k-th byte from the right
      carry[k \in 0 .. Len(a)] ==
        IF k = 0 THEN 0 ELSE (byte(a, k) + (IF k <= added THEN byte(b, k) ELSE 0) + carry[k - 1]) \div 256
      sum(k) == (byte(a, k) + (IF k <= added THEN byte(b, k) ELSE 0) + carry[k - 1]) % 256
  IN  [k \in DOMAIN a |-> sum(Len(a) + 1 - k)]

\* A 32-byte word of the storage: as_bytes32 of a number, create_node_hash and sha3 of what is listed.
Word(number) == <<"number", number>>
Hash(listed) == <<"hash", listed>>

\* get_storage_array_key: slot pos itself, or a field of an element of the array there.
StorageKey(pos, index, size, field) == IF size = 0 THEN <<pos>> ELSE <<pos, index * size + field>>

\* check_storage, get_storage_value: the first proof of that key has that value.
CheckStorage(slots, key, value) ==
  LET found == SelectSeq(slots, LAMBDA s : s.key = key) IN found # <<>> /\ found[1].value = value

\* create_random_indexes: steps[k] is the step after the k-th hash of the seed.
RandomIndexes(total, limit, steps, first, given) ==
  LET Walk[n \in 0 .. 4 * limit * total] ==
        IF n = 0 THEN [indexes |-> given, pos |-> first % total, hashed |-> 0]
        ELSE LET w == Walk[n - 1]
                 again == \E k \in DOMAIN w.indexes : w.indexes[k] = w.pos
                 hashed == IF again THEN w.hashed + 1 ELSE w.hashed
             IN  IF Len(w.indexes) >= limit THEN w
                 ELSE [indexes |-> IF again THEN w.indexes ELSE Append(w.indexes, w.pos),
                       pos |-> (w.pos + steps[(hashed % Len(steps)) + 1]) % total, hashed |-> hashed]
  IN  Walk[4 * limit * total].indexes

\* verify_account.  A registry that has no value at a key is proved to have none.
VerifyRegistry(contract, result, proof) ==
  LET a == proof.accounts[1]
  IN  /\ VerifyHeader(proof.header, None)
      /\ contract \in {None, result.contract}
      /\ Number(proof.header) >= result.lastBlock
      /\ Len(proof.accounts) = 1
      /\ a.address = result.contract
      /\ Proved(a.proof, Block[proof.header].state, a.address, Content(a))
      /\ \A k \in DOMAIN a.slots :
           LET s == a.slots[k]
           IN  IF s.value = None THEN Absent(s.proof, a.storage, s.key) ELSE Proved(s.proof, a.storage, s.key, s.value)

\* A part of the list: the required nodes, then those that the seed determines, in this order.
VerifyPart(request, result) ==
  LET nodeOf(adr) == SelectSeq(result.nodes, LAMBDA n : n.content.address = adr)
      given == [k \in DOMAIN request.required |-> nodeOf(request.required[k])[1].index]
  IN  /\ Len(result.nodes) = request.limit
      /\ \A k \in DOMAIN request.required : nodeOf(request.required[k]) # <<>>
      /\ LET indexes == RandomIndexes(result.total, request.limit, request.steps, request.first, given)
         IN  \A k \in DOMAIN result.nodes : result.nodes[k].index = indexes[k]

\* eth_verify_in3_nodelist, verify_nodelist_data
VerifyNodeList(request, result, proof) ==
  LET slots == proof.accounts[1].slots
  IN  /\ VerifyRegistry(Registry, result, proof)
      /\ CheckStorage(slots, StorageKey(0, 0, 0, 0), Word(result.total))
      /\ IF request.limit # 0 /\ request.limit < result.total THEN VerifyPart(request, result)
         ELSE Len(result.nodes) = result.total
      /\ \A k \in DOMAIN result.nodes :
           CheckStorage(slots, StorageKey(0, result.nodes[k].index, 5, 4), Hash(result.nodes[k].content))

\* eth_verify_in3_whitelist, verify_whitelist_data
VerifyWhiteList(contract, result, proof) ==
  /\ VerifyRegistry(contract, result, proof)
  /\ result.total = Len(result.nodes)
  /\ CheckStorage(proof.accounts[1].slots, StorageKey(0, 1, 0, 0), Hash(result.nodes))
-----------------------------------------------------------------------------
(* What an accepted answer must be *)

\* t is the transaction with the hash, in the place it says, and its other fields are its own.
IsTransaction(hash, t, header) ==
  /\ t.data = hash /\ t.hash = hash
  /\ header \in Chain /\ Block[header].txs[t.index + 1] = hash
  /\ t.blockNumber = Number(header) /\ t.blockHash \in {None, header}
  /\ t.raw \in {None, hash} /\ t.standardV \in {None, Transaction[hash].standardV}
  /\ t.chainId \in {None, Transaction[hash].chain}
  /\ t.publicKey \in {None, Transaction[hash].key} /\ t.from \in {None, Transaction[hash].from}

IsRequested(block, header) ==
  header \in Chain /\ block.hash \in {None, header} /\ block.number \in {None, Number(header)}

\* A log is the one its receipt has at its place, and it passes the filter.
IsLog(filter, log) ==
  /\ log.blockHash \in Chain /\ log.blockNumber = Number(log.blockHash)
  /\ Block[log.blockHash].txs[log.index + 1] = log.txHash
  /\ Block[log.blockHash].receipts[log.index + 1].logs[log.logIndexInTx + 1]
       = [address |-> log.address, topics |-> log.topics, data |-> log.data]
  /\ MatchesFilter(filter, log)

AccountAt(header, address) == IF address \in DOMAIN Block[header].state THEN Block[header].state[address] ELSE Nothing
ValueAt(storage, key, default) == IF key \in DOMAIN storage THEN storage[key] ELSE default
IsAccountAnswer(request, result, header) ==
  LET a == AccountAt(header, request.address)
  IN  /\ header \in Chain /\ request.number \in {None, Number(header)}
      /\ CASE request.method = "eth_getBalance" -> result = a.balance
           [] request.method = "eth_getTransactionCount" -> result = a.nonce
           [] request.method = "eth_getCode" -> result = a.code
           [] request.method = "eth_getStorageAt" -> result = ValueAt(a.storage, request.key, 0)
           [] OTHER -> TRUE

\* Every node is the one registered at its index.
AreRegistered(contract, result, header) ==
  LET storage == Block[header].state[contract].storage
  IN  /\ header \in Chain /\ Number(header) >= result.lastBlock
      /\ Word(result.total) = storage[StorageKey(0, 0, 0, 0)]
      /\ \A k \in DOMAIN result.nodes :
           storage[StorageKey(0, result.nodes[k].index, 5, 4)] = Hash(result.nodes[k].content)
=============================================================================
