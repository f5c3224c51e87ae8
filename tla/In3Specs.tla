------------------------------ MODULE In3Specs ------------------------------
(***************************************************************************)
(* in3-c's chain specifications (nano/chainspec.c): read from a JSON file,  *)
(* they say which EIPs are active and which consensus holds at a block.     *)
(* They are kept in a compact binary form and in a list by chain.           *)
(*                                                                         *)
(* The JSON is [network, nonce, start, end, engine]: start and end are the  *)
(* blocks of an EIP's transition and of its end.  An EIP's name is its bit. *)
(***************************************************************************)
EXTENDS In3Trie, FiniteSetsExt

CONSTANTS Eips,     \* EIPS
          Heights,  \* the blocks at which a specification is asked for
          Known     \* the chains whose specification is built in


-----------------------------------------------------------------------------
\* Mutant of FillTransition: the end of an EIP is no transition.
FillTransitionOnce(json, b) ==
  LET moments == {json.start[e] : e \in DOMAIN json.start}
      later == {n \in moments : n > b}
  IN  [eips |-> {e \in DOMAIN json.start : json.start[e] <= b /\ ~(e \in DOMAIN json.end /\ json.end[e] <= b)},
       next |-> IF later = {} THEN b ELSE Min(later)]

\* fill_transition: what is active at block b, and the next block where that may change
FillTransition(json, b) ==
  LET moments == {json.start[e] : e \in DOMAIN json.start} \union {json.end[e] : e \in DOMAIN json.end}
      later == {n \in moments : n > b}
  IN  [eips |-> {e \in DOMAIN json.start : json.start[e] <= b /\ ~(e \in DOMAIN json.end /\ json.end[e] <= b)},
       next |-> IF later = {} THEN b ELSE Min(later)]

RECURSIVE TransitionsFrom(_, _)
TransitionsFrom(json, b) ==
  LET t == FillTransition(json, b)
  IN  <<[block |-> b, eips |-> t.eips]>> \o IF t.next > b THEN TransitionsFrom(json, t.next) ELSE <<>>

\* fill_aura: the validators' list or, without one, their contract; an address is filled up on
\* its left.  A single entry begins at block 0.
Filled(a) == Repeat(20 - Len(a), 0) \o a
FillAura(entry) ==
  [block |-> entry.block, type |-> 2, validators |-> FlattenSeq([k \in DOMAIN entry.list |-> Filled(entry.list[k])]),
   contract |-> IF entry.contract = <<>> THEN <<>> ELSE Filled(entry.contract)]

\* chainspec_create_from_json.  The signers of a clique are what its genesis block's extra data
\* holds between the vanity and the seal.
CreateFromJson(json) ==
  [network |-> json.network, nonce |-> json.nonce, eips |-> TransitionsFrom(json, 0),
   consensus |-> CASE json.engine.kind = "ethash" -> <<[block |-> 0, type |-> 1, validators |-> <<>>, contract |-> <<>>]>>
                   [] json.engine.kind = "aura" -> [k \in DOMAIN json.engine.entries |-> FillAura(json.engine.entries[k])]
                   [] json.engine.kind = "clique" ->
                        <<[block |-> 0, type |-> 3, validators |-> SubSeq(json.engine.extra, 33, Len(json.engine.extra) - 65),
                           contract |-> <<>>]>>]

\* chainspec_get_eip, chainspec_get_consensus: the last entry that has begun, or else the first
LastBegun(entries, n) ==
  LET begun == {k \in DOMAIN entries : entries[k].block <= n} IN entries[IF begun = {} THEN 1 ELSE Max(begun)]
GetEip(spec, n) == LastBegun(spec.eips, n).eips
GetConsensus(spec, n) == LastBegun(spec.consensus, n)
-----------------------------------------------------------------------------
(* The binary form *)

\* eip_t, one bit for each EIP
EipBytes(eips) == BigEndian(2, SumSet({2^e : e \in eips}))
EipsOf(s) == {e \in Eips : ((s[1] * 256 + s[2]) \div 2^e) % 2 = 1}

\* add_rlp
AddNumber(v) == EncodeItem(Strip(BigEndian(4, v)))

\* chainspec_to_bin
ToBin(spec) ==
  LET eip(t) == AddNumber(t.block) \o EncodeItem(EipBytes(t.eips))
      consensus(t) == AddNumber(t.block) \o AddNumber(t.type) \o EncodeItem(t.validators) \o EncodeItem(t.contract)
  IN  EncodeList(AddNumber(1) \o AddNumber(spec.network) \o AddNumber(spec.nonce)
                 \o EncodeList(FlattenSeq([k \in DOMAIN spec.eips |-> eip(spec.eips[k])]))
                 \o EncodeList(FlattenSeq([k \in DOMAIN spec.consensus |-> consensus(spec.consensus[k])])))

NumberOf(s) == FoldLeft(LAMBDA v, b : v * 256 + b, 0, s)
\* The parts of a list, in their order
Parts(list) == [k \in 1 .. DecodeLen(list) |-> Decode(list, k - 1).data]

EipsFrom(parts) ==
  [k \in 1 .. Len(parts) \div 2 |-> [block |-> NumberOf(parts[2 * k - 1]), eips |-> EipsOf(parts[2 * k])]]
ConsensusAt(parts, k) ==
  [block |-> NumberOf(parts[4 * k - 3]), type |-> NumberOf(parts[4 * k - 2]), validators |-> parts[4 * k - 1], contract |-> parts[4 * k]]

ConsensusFrom(parts) == [k \in 1 .. Len(parts) \div 4 |-> ConsensusAt(parts, k)]

\* chainspec_from_bin; Empty if the data is not a list or has another version
FromParts(p) ==
  IF p[1] # <<1>> THEN Empty
  ELSE [network |-> NumberOf(p[2]), nonce |-> NumberOf(p[3]), eips |-> EipsFrom(Parts(p[4])), consensus |-> ConsensusFrom(Parts(p[5]))]
FromBin(raw) == IF Decode(raw, 0).kind # 2 THEN Empty ELSE FromParts(Parts(Decode(raw, 0).data))
-----------------------------------------------------------------------------
(* The list: entries [chain, spec], the newest first *)

Entry(specs, chain) == CHOOSE k \in DOMAIN specs : specs[k].chain = chain /\ \A j \in 1 .. k - 1 : specs[j].chain # chain
Has(specs, chain) == \E k \in DOMAIN specs : specs[k].chain = chain

\* chainspec_put
PutSpec(specs, chain, spec) ==
  IF Has(specs, chain) THEN [specs EXCEPT ![Entry(specs, chain)].spec = spec]
  ELSE <<[chain |-> chain, spec |-> spec]>> \o specs
\* chainspec_get: the list after it; a chain's built-in specification is unpacked once
GetSpec(specs, chain) ==
  IF ~Has(specs, chain) /\ chain \in DOMAIN Known THEN <<[chain |-> chain, spec |-> Known[chain]]>> \o specs ELSE specs
Found(specs, chain) == IF Has(specs, chain) THEN specs[Entry(specs, chain)].spec ELSE Empty
-----------------------------------------------------------------------------
\* At every block the EIPs are active that have begun there and have not ended
\* (chainspec.c, fill_transition and chainspec_get_eip), and the validators are those of the last
\* list or contract that has begun (chainspec_get_consensus).
EipsAreActive(json) ==
  \A n \in Heights :
    /\ json.engine.kind = "aura" =>
         GetConsensus(CreateFromJson(json), n).block
           = Max({json.engine.entries[k].block : k \in {i \in DOMAIN json.engine.entries : json.engine.entries[i].block <= n}})
    /\ GetEip(CreateFromJson(json), n) = {e \in DOMAIN json.start : json.start[e] <= n /\ (e \in DOMAIN json.end => n < json.end[e])}

\* A specification is read back from its binary form as it was: every block has the same EIPs and
\* the same consensus (chainspec.c, chainspec_to_bin and chainspec_from_bin).
BinIsItsSpec(json) == LET spec == CreateFromJson(json) IN FromBin(ToBin(spec)) = spec

\* After any puts and gets, a chain has the specification that was put last or, if none was, the
\* built-in one (chainspec.c, chainspec_get and chainspec_put).  An operation is [chain, spec],
\* and a get has Empty for its spec.
LastPutIsFound(ops) ==
  LET done == FoldLeft(LAMBDA s, o : IF o.spec = Empty THEN GetSpec(s, o.chain) ELSE PutSpec(s, o.chain, o.spec), <<>>, ops)
      puts(c) == SelectSeq(ops, LAMBDA o : o.chain = c /\ o.spec # Empty)
  IN  \A c \in {ops[k].chain : k \in DOMAIN ops} :
        Found(GetSpec(done, c), c) = IF puts(c) # <<>> THEN puts(c)[Len(puts(c))].spec
                                     ELSE IF c \in DOMAIN Known THEN Known[c] ELSE Empty
=============================================================================
