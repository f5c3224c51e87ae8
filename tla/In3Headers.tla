------------------------------ MODULE In3Headers ------------------------------
(***************************************************************************)
(* How in3-c decides that a block header is part of the chain               *)
(* (verifier/eth1/nano: blockheader.c, vhist.c, signature.c).               *)
(*                                                                         *)
(* With signers configured, every one of them must have signed the header;  *)
(* the numbers and hashes so verified are kept in verified_hashes, which    *)
(* lasts as long as the client.  Without signers a proof-of-authority chain *)
(* is checked by its seals: each block by the validator whose turn it was,  *)
(* and enough blocks after it.  Who the validators are is kept in a history *)
(* (vhist_t) saved in the storage, which starts from the chain's            *)
(* specification and is updated from a node's in3_validatorList.            *)
(*                                                                         *)
(* A header is its hash: Header[h] holds the fields the code decodes.       *)
(***************************************************************************)
EXTENDS In3None, Integers, Sequences, FiniteSets, SequencesExt

CONSTANTS
  Header,       \* hash |-> [number, parent, step, author]; author: whom the seal recovers
  Signers,      \* whom a request may ask for signatures
  Signatures,   \* the [by, over] the signer nodes may make
  Askable,      \* the sequences of signers that may be asked
  MaxHashes,          \* max_verified_hashes
  Finality,     \* percent of the validators
  SpecStates,   \* the states of the chain's specification
  TrueStates,   \* the states an honest node answers with
  LoggedLists,       \* hash |-> the validators the contract logged in that block, or None
  SignedHeads,  \* the headers a node may answer with when signatures are asked for
  HeaderAnswers,    \* the [header, finality] a node may answer in3 with
  ValidatorAnswers, \* the states a node may answer in3_validatorList with, None if it fails
  LastChanges       \* the blocks a node may say the validators last changed in

Hashes == DOMAIN Header
Number(h) == Header[h].number
Slots == 1 .. MaxHashes
Empty == [number |-> 0, hash |-> None]      \* _calloc

\* Every header has a number, and every state of the validators a block; None, which stands for
\* NULL, is no header, no entry of verified_hashes and nobody who signs.
HeadersConstants ==
  /\ \A h \in Hashes : h # None /\ Number(h) \in Nat /\ None # [number |-> Number(h), hash |-> h]
  /\ None # Empty
  /\ MaxHashes \in Nat \ {0}
  /\ None \notin Signers /\ Signatures \subseteq [by : Signers, over : Hashes] /\ Askable \subseteq Seq(Signers)
  /\ SignedHeads \subseteq Hashes /\ \A a \in HeaderAnswers : a.header \in Hashes
  /\ \A states \in {SpecStates} \union (ValidatorAnswers \ {None}) :
       states \in Seq(Range(states)) /\ \A k \in DOMAIN states : states[k].block \in Nat

ASSUME HeadersAssumption == HeadersConstants

VARIABLES
  signed,     \* the [by, over] the signers have made
  verified,   \* chain->verified_hashes, or None
  history,    \* the validator history in the storage: [states, last], or None
  rewritten,  \* history has taken states it did not verify
  outcome     \* what the last eth_verify_blockheader returned

headerVars == <<signed, verified, history, rewritten, outcome>>

-----------------------------------------------------------------------------
(* vhist.c *)

\* vh_add_state: a state holds from the block the specification says, or else from the last
\* of the finality blocks of its proof.
StateEntry(state) ==
  [block |-> IF state.bypass # None THEN state.bypass
             ELSE IF state.proof # None /\ state.proof.finality # <<>>
             THEN Number(Last(state.proof.finality))
             ELSE state.block,
   engine |-> state.engine, list |-> state.list]

\* vh_init_spec, vh_init_nodelist
HistoryOf(states) ==
  [states |-> [k \in DOMAIN states |-> StateEntry(states[k])],
   last |-> IF states = <<>> THEN 0 ELSE Last(states).block]

\* vh_find_block: the state before the first one that begins after the block.
FindBlock(h, n) ==
  LET later == {k \in DOMAIN h.states : h.states[k].block > n}
  IN  IF later = {} THEN Len(h.states) ELSE (CHOOSE k \in later : \A j \in later : k <= j) - 1

\* vh_get_validators_for_block
Validators(h, n) == IF FindBlock(h, n) = 0 THEN <<>> ELSE h.states[FindBlock(h, n)].list
\* vh_get_engine_for_block reads in front of the history if no state holds.
Engines(h, n) == IF FindBlock(h, n) = 0 THEN {"aura", "unknown"} ELSE {h.states[FindBlock(h, n)].engine}
-----------------------------------------------------------------------------
(* Seals *)

\* eth_get_validator: whose turn it was.
Proposer(h, b) ==
  LET vs == Validators(h, Number(b)) IN vs[(Header[b].step % Len(vs)) + 1]

\* The blocks given to eth_verify_authority: the NULL that ends the array is put over the last
\* of the finality blocks, so this one is never looked at.
Merged(b, finality) ==
  IF finality = None THEN <<b>> ELSE SubSeq(<<b>> \o finality, 1, Len(finality))

Linked(blocks) == \A k \in 1 .. Len(blocks) - 1 : Header[blocks[k + 1]].parent = blocks[k]
Enough(passed, all) == (passed * 100) \div all >= Finality

\* eth_verify_authority: a header without validators is a division by zero.
VerifyAuthority(h, blocks) ==
  LET wrong == {k \in DOMAIN blocks : \/ Validators(h, Number(blocks[k])) = <<>>
                                      \/ Header[blocks[k]].author # Proposer(h, blocks[k])
                                      \/ k > 1 /\ Header[blocks[k]].parent # blocks[k - 1]}
      first == CHOOSE k \in wrong : \A j \in wrong : k <= j
  IN  IF blocks = <<>> THEN "error"
      ELSE IF wrong # {}
      THEN IF Validators(h, Number(blocks[first])) = <<>> THEN "crash" ELSE "error"
      ELSE IF Enough(Len(blocks), Len(Validators(h, Number(blocks[1])))) THEN "ok" ELSE "error"
-----------------------------------------------------------------------------
(* The update of the history: add_aura_validators *)

\* What checking one state may end in.  The list of validators is freed before it is compared
\* (bb_free in the loop), and freed again for every further block: what it then holds, and
\* whether the process survives, is left to the allocator.
VerifyState(h, last, s) ==
  LET curr == Validators(h, s.block)
      blocks == Merged(s.proof.header, s.proof.finality)
      sealed == \A k \in DOMAIN blocks :
                  Header[blocks[k]].author = curr[(Header[blocks[k]].step % Len(curr)) + 1]
      proved == /\ sealed /\ Linked(blocks) /\ Enough(Len(blocks), Len(curr))
                /\ s.proof.receipt
                /\ LoggedLists[s.proof.header] = s.list
  IN  IF s.block <= last THEN {"known"}
      ELSE IF s.proof = None THEN {"error"}
      ELSE IF Number(s.proof.header) # s.block THEN {"error"}
      ELSE IF curr = <<>> THEN {"crash"}
      ELSE {IF proved THEN "ok" ELSE "error"}
             \union (IF blocks = <<>> THEN {} ELSE {"error"})
             \union (IF Len(blocks) > 1 THEN {"crash"} ELSE {})

\* Mutant of AddAuraValidators: a state without proof is taken.
AddAuraValidatorsTrusting(h, states) ==
  {IF states = None THEN [history |-> h, res |-> "error"] ELSE [history |-> HistoryOf(states), res |-> "ok"]}

\* Only the states after the last known change are checked.
Checks(h, states) ==
  LET step(runs, s) ==
        UNION {IF r.res # "ok" THEN {r}
               ELSE {[history |-> IF v = "ok" THEN [r.history EXCEPT !.states = Append(@, StateEntry(s))]
                                  ELSE r.history,
                      res |-> IF v = "known" THEN "ok" ELSE v] : v \in VerifyState(r.history, h.last, s)}
               : r \in runs}
  IN  FoldLeft(step, {[history |-> h, res |-> "ok"]}, states)

\* add_aura_validators: the history is then made anew from all of them.
AddAuraValidators(h, states) ==
  IF states = None THEN {[history |-> h, res |-> "error"]}
  ELSE {IF r.res = "ok" THEN [history |-> HistoryOf(states), res |-> "ok"] ELSE r : r \in Checks(h, states)}

\* The new history is more than the old one and what this update checked.
Rewritten(h, states) ==
  \/ ~IsPrefix(h.states, HistoryOf(states).states)
  \/ \E k \in Len(h.states) + 1 .. Len(states) : states[k].block <= h.last

Known == IF history = None THEN HistoryOf(SpecStates) ELSE history

\* eth_get_engine: an update that fails returns its error in place of the engine, and the
\* header is then not one of an authority chain.
GetEngine(b, lastChange, answer) ==
  IF lastChange <= Known.last
  THEN {[engine |-> e, history |-> Known, rewritten |-> rewritten] : e \in Engines(Known, Number(b))}
  ELSE UNION {CASE r.res = "ok" -> {[engine |-> e, history |-> r.history,
                                     rewritten |-> rewritten \/ Rewritten(Known, answer)]
                                     : e \in Engines(r.history, Number(b))}
                [] OTHER -> {[engine |-> r.res, history |-> Known, rewritten |-> rewritten]}
              : r \in AddAuraValidators(Known, answer)}
-----------------------------------------------------------------------------
(* verified_hashes *)

\* add_verified: the lowest number makes room, the first of several.
AddVerified(b) ==
  LET cache == IF verified = None THEN [k \in Slots |-> Empty] ELSE verified
      lowest == {k \in Slots : \A j \in Slots : cache[k].number <= cache[j].number}
      oldest == CHOOSE k \in lowest : \A j \in lowest : k <= j
  IN  [cache EXCEPT ![oldest] = [number |-> Number(b), hash |-> b]]

\* The entry found for the number; slots never used hold the number 0.
Cached(b) ==
  LET ks == IF verified = None THEN {} ELSE {k \in Slots : verified[k].number = Number(b)}
  IN  IF ks = {} THEN None ELSE verified[CHOOSE k \in ks : \A j \in ks : k <= j]
-----------------------------------------------------------------------------
(* eth_verify_blockheader.  A signature a node passes on is                *)
(* [by, over, block, hash]: who made it over which header, and what the    *)
(* node says it is for; by is None if no key can be recovered.             *)

\* Only what is said to be for this header is looked at.
Claims(b, s) == s.block = Number(b) /\ s.hash \in {None, b}
\* eth_verify_signature: the bit of the signer; over another header another key is recovered.
Confirmed(b, asked, sigs) ==
  {i \in DOMAIN asked : \E k \in DOMAIN sigs :
     Claims(b, sigs[k]) /\ sigs[k].over = b /\ sigs[k].by = asked[i] /\ \A j \in 1 .. i - 1 : asked[j] # asked[i]}

\* Every bit must be set.
AllSigned(b, asked, sigs) == Len(sigs) >= Len(asked) /\ Confirmed(b, asked, sigs) = DOMAIN asked

Outcome(b, asked, how, complaint) ==
  [header |-> b, asked |-> asked, how |-> how, complaint |-> complaint, seals |-> <<>>]

WrongHash(b, expected, asked) ==
  /\ expected \notin {None, b}
  /\ outcome' = Outcome(b, asked, "error", TRUE)
  /\ UNCHANGED <<verified, history, rewritten>>

VerifyCached(b, expected, asked) ==
  /\ expected \in {None, b}
  /\ Cached(b) # None
  /\ outcome' = IF Cached(b).hash = b THEN Outcome(b, asked, "cached", FALSE) ELSE Outcome(b, asked, "error", TRUE)
  /\ UNCHANGED <<verified, history, rewritten>>

VerifySigned(b, expected, asked, sigs) ==
  /\ expected \in {None, b}
  /\ Cached(b) = None
  /\ asked # <<>>
  /\ IF AllSigned(b, asked, sigs)
     THEN /\ outcome' = Outcome(b, asked, "signed", \E k \in DOMAIN sigs : Claims(b, sigs[k]) /\ sigs[k].by = None)
          /\ verified' = AddVerified(b)
     ELSE /\ outcome' = Outcome(b, asked, "error", TRUE)
          /\ UNCHANGED verified
  /\ UNCHANGED <<history, rewritten>>

\* The process ends; what is not in the storage is gone.
Crash(b) ==
  /\ verified' = None
  /\ outcome' = Outcome(b, <<>>, "crash", FALSE)

\* Without signers: any header of a chain that is not one of authorities is accepted.
VerifySealed(b, expected, finality, lastChange, answer) ==
  /\ expected \in {None, b}
  /\ Cached(b) = None
  /\ \E e \in GetEngine(b, lastChange, answer) :
       /\ history' = e.history
       /\ rewritten' = e.rewritten
       /\ IF e.engine = "crash" THEN Crash(b)
          ELSE IF e.engine = "aura"
          THEN LET res == VerifyAuthority(e.history, Merged(b, finality))
               IN  CASE res = "crash" -> Crash(b)
                     [] res = "ok" -> /\ outcome' = [Outcome(b, <<>>, "sealed", FALSE) EXCEPT !.seals = Merged(b, finality)]
                                      /\ UNCHANGED verified
                     [] res = "error" -> outcome' = Outcome(b, <<>>, "error", TRUE) /\ UNCHANGED verified
          ELSE outcome' = Outcome(b, <<>>, "unsealed", e.engine = "error") /\ UNCHANGED verified
-----------------------------------------------------------------------------
(* The chain and the nodes *)

\* What a node passes on: the signatures it has, said to be for this header or for their own.
Tokens(b) ==
  {[by |-> s.by, over |-> s.over, block |-> Number(h), hash |-> h] : s \in signed, h \in {b}}
  \union {[by |-> s.by, over |-> s.over, block |-> Number(s.over), hash |-> None] : s \in signed}
  \union {[by |-> None, over |-> b, block |-> Number(b), hash |-> None]}

HeadersInit ==
  /\ signed = {}
  /\ verified = None
  /\ history = None
  /\ rewritten = FALSE
  /\ outcome = None

\* A signer signs a block, before or after the chain forked.
SignHeader ==
  /\ outcome = None
  /\ \E s \in Signatures : signed' = signed \union {s}
  /\ UNCHANGED <<verified, history, rewritten, outcome>>

AnsweredSigned ==
  /\ outcome = None
  /\ \E b \in SignedHeads, asked \in Askable :
       \/ \E expected \in SignedHeads : WrongHash(b, expected, asked)
       \/ VerifyCached(b, None, asked)
       \/ \E sigs \in [DOMAIN asked -> Tokens(b)] : VerifySigned(b, b, asked, sigs)
  /\ UNCHANGED signed

AnsweredSealed ==
  /\ outcome = None
  /\ \E a \in HeaderAnswers, v \in ValidatorAnswers, lastChange \in LastChanges :
       \/ VerifyCached(a.header, None, <<>>)
       \/ VerifySealed(a.header, None, a.finality, lastChange, v)
  /\ UNCHANGED signed

\* The caller has taken the outcome.
TakeOutcome ==
  /\ outcome # None
  /\ outcome' = None
  /\ UNCHANGED <<signed, verified, history, rewritten>>

\* The client is freed and made again over the same storage.
Restart ==
  /\ outcome = None
  /\ verified' = None
  /\ UNCHANGED <<signed, history, rewritten, outcome>>

HeadersNext == SignHeader \/ AnsweredSigned \/ AnsweredSealed \/ TakeOutcome \/ Restart
HeadersSpec == HeadersInit /\ [][HeadersNext]_headerVars
-----------------------------------------------------------------------------
(* Properties *)

HeadersTypeOK ==
  /\ signed \subseteq Signatures
  /\ verified = None \/ \A k \in Slots : verified[k] = Empty \/ verified[k] = [number |-> Number(verified[k].hash), hash |-> verified[k].hash]
  /\ history = None \/ history.last \in Nat
  /\ rewritten \in BOOLEAN
  /\ outcome = None \/ outcome.how \in {"cached", "signed", "sealed", "unsealed", "error", "crash"}

\* Whatever the node says its signatures are for, a header accepted for its signatures was signed
\* by each signer that was asked, and one accepted for the cache by some signer before
\* (eth_verify_blockheader).
AcceptedIsSigned ==
  outcome # None =>
    /\ outcome.how = "signed" => \A i \in DOMAIN outcome.asked : [by |-> outcome.asked[i], over |-> outcome.header] \in signed
    /\ outcome.how = "cached" => \E s \in signed : s.over = outcome.header

\* The validators of a block by the changes the client knows: the contract's, not a node's.
TrueList(n, last) ==
  LET ks == {k \in DOMAIN TrueStates : TrueStates[k].block <= last /\ StateEntry(TrueStates[k]).block <= n}
  IN  TrueStates[CHOOSE k \in ks : \A j \in ks : j <= k].list

\* As long as no unchecked state got into the history, a header accepted for its seal and the
\* blocks that follow it were each sealed by the validator whose turn it was among those the
\* contract had logged and that were in force, each the parent of the next, and as many as the
\* finality asks for; a header accepted without a seal comes with an error
\* (eth_verify_authority, vh_find_block, eth_get_engine).
AcceptedIsSealed ==
  (outcome # None /\ ~rewritten /\ history # None) =>
    /\ outcome.how = "sealed" =>
         /\ \A k \in DOMAIN outcome.seals :
              LET b == outcome.seals[k]
                  vs == TrueList(Number(b), history.last)
              IN  Header[b].author = vs[(Header[b].step % Len(vs)) + 1]
         /\ Linked(outcome.seals)
         /\ Enough(Len(outcome.seals), Len(TrueList(Number(outcome.header), history.last)))
    /\ outcome.how = "unsealed" => outcome.complaint

\* The history the storage keeps holds only what the specification says or the contract logged,
\* unless the answer to an update also rewrote what was known before (add_aura_validators).
HistoryIsLogged ==
  (history # None /\ ~rewritten) =>
    \A k \in DOMAIN history.states :
      \/ history.states[k] \in {StateEntry(SpecStates[j]) : j \in DOMAIN SpecStates}
      \/ \E b \in Hashes : LoggedLists[b] = history.states[k].list /\ Number(b) <= history.states[k].block

\* A new entry never takes the place of the highest number that was verified, and no number but
\* that of the empty slots is kept twice (add_verified, with room for two or more).
NewestIsKept ==
  [][(verified # verified' /\ verified # None /\ verified' # None) =>
       /\ \A k \in Slots : (\A j \in Slots : verified[j].number <= verified[k].number) =>
            \E j \in Slots : verified'[j].number >= verified[k].number
       /\ \A j, k \in Slots : verified'[j].number = verified'[k].number => (j = k \/ verified'[j] = Empty)]_headerVars
=============================================================================
