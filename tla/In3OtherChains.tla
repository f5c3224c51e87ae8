--------------------------- MODULE In3OtherChains ---------------------------
(***************************************************************************)
(* in3-c's verifiers for chains other than Ethereum: Bitcoin (verifier/btc) *)
(* and IPFS (verifier/ipfs).                                               *)
(*                                                                         *)
(* A hash is the term that was hashed, so that two are equal exactly if     *)
(* their contents are; a transaction's is a tuple of one, an inner node's   *)
(* of the Merkle tree a pair.  What proof of work says of a header is a     *)
(* number, its work, that must not exceed the header's target.  The bytes   *)
(* of a block's transactions are real ones, with real lengths.              *)
(***************************************************************************)
EXTENDS Integers, Sequences, SequencesExt, FiniteSetsExt

CONSTANT MaxTarget     \* 0xFFFF000000000000, the difficulty of 1

Filler(n, b) == [k \in 1 .. n |-> b]
-----------------------------------------------------------------------------
(* Merkle trees: indexes count from 0 as in the code *)

\* create_proofs: one level, the last node paired with itself if it is alone
Reduced(hs) == [k \in 1 .. (Len(hs) + 1) \div 2 |-> <<hs[2 * k - 1], hs[IF 2 * k > Len(hs) THEN 2 * k - 1 ELSE 2 * k]>>]

Sibling(hs, index) ==
  IF index % 2 = 1 THEN hs[index] ELSE IF index + 1 = Len(hs) THEN hs[index + 1] ELSE hs[index + 2]

RECURSIVE RootFrom(_), ProofFrom(_, _)
\* A level is always reduced, also one of a single hash.
RootFrom(hs) == IF Len(Reduced(hs)) > 1 THEN RootFrom(Reduced(hs)) ELSE Reduced(hs)[1]
ProofFrom(hs, index) ==
  <<Sibling(hs, index)>> \o IF Len(Reduced(hs)) > 1 THEN ProofFrom(Reduced(hs), index \div 2) ELSE <<>>

\* btc_merkle_create_root
CreateRoot(hs) == IF hs = <<>> THEN <<>> ELSE RootFrom(hs)
\* btc_merkle_create_proof
CreateProof(hs, index) == ProofFrom(hs, index)
\* btc_merkle_verify_proof: it ends as soon as the root is met.
VerifyMerkleProof(root, proof, index, start) ==
  LET up(s, p) == IF s.hash = root THEN s
                  ELSE [hash |-> IF s.index % 2 = 1 THEN <<p, s.hash>> ELSE <<s.hash, p>>, index |-> s.index \div 2]
  IN  FoldLeft(up, [hash |-> start, index |-> index], proof).hash = root
-----------------------------------------------------------------------------
(* The bytes of a block, after its 80 bytes of header *)

LittleEndian(s) == FoldRight(LAMBDA b, v : v * 256 + b, s, 0)

\* decode_var_int at position p
VarInt(s, p) ==
  CASE s[p] = 253 -> [value |-> LittleEndian(SubSeq(s, p + 1, p + 2)), len |-> 3]
    [] s[p] = 254 -> [value |-> LittleEndian(SubSeq(s, p + 1, p + 4)), len |-> 5]
    [] OTHER -> [value |-> s[p], len |-> 1]

\* btc_get_txinput, btc_get_txoutput: where the next one begins
InputEnd(s, p) == p + 40 + VarInt(s, p + 36).len + VarInt(s, p + 36).value
OutputEnd(s, p) == p + 8 + VarInt(s, p + 8).len + VarInt(s, p + 8).value

\* Goes over as many parts as the number at p says.
PastAll(end(_, _), s, p) ==
  FoldLeft(LAMBDA q, k : end(s, q), p + VarInt(s, p).len, [k \in 1 .. VarInt(s, p).value |-> k])

\* btc_get_transaction: version, inputs, outputs, lock time
TransactionEnd(s, p) == PastAll(OutputEnd, s, PastAll(InputEnd, s, p + 4)) + 4

\* btc_get_transaction_count, btc_get_transactions
GetTransactions(s) ==
  FoldLeft(LAMBDA r, k : LET e == TransactionEnd(s, r.next) IN [txs |-> Append(r.txs, SubSeq(s, r.next, e - 1)), next |-> e],
           [txs |-> <<>>, next |-> 1 + VarInt(s, 1).len], [k \in 1 .. VarInt(s, 1).value |-> k]).txs

\* What a Bitcoin node writes
WriteVarInt(n) == IF n < 253 THEN <<n>> ELSE <<253, n % 256, n \div 256>>
WriteTransaction(tx) ==
  Filler(4, 1) \o WriteVarInt(Len(tx.ins)) \o FlattenSeq([k \in DOMAIN tx.ins |-> Filler(36, 9) \o WriteVarInt(tx.ins[k]) \o Filler(tx.ins[k] + 4, 7)])
    \o WriteVarInt(Len(tx.outs)) \o FlattenSeq([k \in DOMAIN tx.outs |-> Filler(8, 5) \o WriteVarInt(tx.outs[k]) \o Filler(tx.outs[k], 253)])
    \o Filler(4, tx.lock)
WriteBody(txs) == WriteVarInt(Len(txs)) \o FlattenSeq([k \in DOMAIN txs |-> WriteTransaction(txs[k])])
-----------------------------------------------------------------------------
(* btc.c.  A header is [prev, root, target, work]; an answer is [method,    *)
(* json, header, txs, difficulty, hash, nTx, final], txs being hashes if it *)
(* is JSON.                                                                *)

\* btc_verify_header
VerifyHeader(h) == h.work <= h.target

\* btc_check_finality: the requested number of headers, each the child of the one before
CheckFinality(block, finality, final) ==
  /\ Len(final) >= finality
  /\ \A k \in 1 .. finality : final[k].prev = (IF k = 1 THEN block ELSE final[k - 1]) /\ VerifyHeader(final[k])

\* btc_verify_block
VerifyBlock(hash, finality, a) ==
  /\ VerifyHeader(a.header) /\ a.header = hash
  /\ CreateRoot(a.txs) = a.header.root
  /\ a.json => (MaxTarget \div a.header.target) \div 4 = a.difficulty \div 4 /\ a.hash = hash /\ a.nTx = Len(a.txs)
  /\ CheckFinality(hash, finality, a.final)

\* in3_verify_btc: a request is [verification, method, params, finality], its params the hash
\* and whether JSON is requested, or <<>> if they are none.
VerifyBtc(r, a) ==
  \/ ~r.verification
  \/ a.null
  \/ r.method = "getblock" /\ r.params # <<>> /\ r.params[2] = a.json /\ VerifyBlock(r.params[1], r.finality, a)
-----------------------------------------------------------------------------
(* ipfs.c.  A text is what each encoding makes of it; a hash is the content *)
(* it was taken of.                                                        *)

Encodings == {"hex", "utf8", "base64"}
\* ipfs_verify_hash with ipfs_create_hash
VerifyHash(text, encoding, hash) == encoding \in Encodings /\ hash = text[encoding]

\* in3_verify_ipfs: a request is [verification, method, encoding] with the text to put or the hash
\* to get, "" being no encoding; an answer has the hash or the text.
VerifyIpfs(r, a) ==
  LET encoding == IF r.encoding = "" THEN "base64" ELSE r.encoding
  IN  \/ ~r.verification
      \/ a.kind = "none"
      \/ r.method = "in3_nodeList"
      \/ a.kind = "string" /\ r.method = "ipfs_get" /\ VerifyHash(a.text, encoding, r.hash)
      \/ a.kind = "string" /\ r.method = "ipfs_put" /\ VerifyHash(r.text, encoding, a.hash)
-----------------------------------------------------------------------------
\* The proof of every transaction is accepted for it and, in its place, for no other
\* (btc_merkle.c).
ProofIsOfItsPlace(hs) ==
  \A i, j \in DOMAIN hs :
    VerifyMerkleProof(CreateRoot(hs), CreateProof(hs, i - 1), i - 1, hs[j]) <=> hs[j] = hs[i]

\* A block's transactions are cut out of its bytes as they were written (btc_serialize.c).
BodyIsItsTransactions(txs) == GetTransactions(WriteBody(txs)) = [k \in DOMAIN txs |-> WriteTransaction(txs[k])]

\* An accepted block is the requested one with all of its transactions in their order, unless the
\* answer repeats some; its number of transactions and difficulty are its own; and the requested
\* number of headers have been built upon it (btc.c).
BlockIsTrue(r, block, a) ==
  (r.verification /\ ~a.null /\ VerifyBtc(r, a)) =>
    /\ a.header = block.header
    /\ IsInjective(a.txs) => a.txs = block.txs
    /\ a.json => a.nTx = Len(a.txs) /\ a.hash = block.header
    /\ \A k \in 1 .. r.finality : a.final[k].work <= a.final[k].target /\ a.final[k].prev = (IF k = 1 THEN block.header ELSE a.final[k - 1])

\* What is got under the hash that a put answered is the content that was put, in whatever
\* encodings the two were made (ipfs.c).
PutIsGot(x) ==
  LET used(e) == IF e = "" THEN "base64" ELSE e
      put == [verification |-> TRUE, method |-> "ipfs_put", encoding |-> x.putEncoding, text |-> x.putText]
      get == [verification |-> TRUE, method |-> "ipfs_get", encoding |-> x.getEncoding, hash |-> x.hash]
  IN  VerifyIpfs(put, [kind |-> "string", hash |-> x.hash]) /\ VerifyIpfs(get, [kind |-> "string", text |-> x.getText])
      => x.getText[used(x.getEncoding)] = x.putText[used(x.putEncoding)]

\* What an honest node answers is accepted, if the block has more than one transaction.
BlockIsAccepted(r, block, final) ==
  LET a == [null |-> FALSE, json |-> r.params[2], header |-> block.header, txs |-> block.txs, final |-> final, hash |-> block.header,
            difficulty |-> MaxTarget \div block.header.target, nTx |-> Len(block.txs)]
  IN  Len(block.txs) > 1 => VerifyBtc(r, a)
=============================================================================
