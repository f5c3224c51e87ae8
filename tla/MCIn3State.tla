----------------------------- MODULE MCIn3State -----------------------------
(***************************************************************************)
(* The parts of the in3 client that keep state of their own beside its       *)
(* requests: verified headers and validators (In3Headers), the settings       *)
(* (In3Config), filters (In3Filters), a transaction on its way (In3SendTx),   *)
(* names (In3Ens), rented devices (In3Usn), the frames of an eth_call that is  *)
(* verified by running it (In3Evm) and a request under way to its nodes       *)
(* (In3Transport).  They share no variable, so one run checks each on its own: *)
(* the initial state says which one moves, and the others stay as they began.  *)
(***************************************************************************)
EXTENDS Integers, Sequences, FiniteSets, In3Headers, In3Filters, In3SendTx, In3Ens, In3Transport, In3Usn,
  In3Config

VARIABLES
  topic,
  frames, evmResult, evmProof

evmVars == <<frames, evmResult, evmProof>>
-----------------------------------------------------------------------------
(* Headers: a chain with a fork at block 1, where the validators change      *)

MCBlock(number, parent, step, author) == [number |-> number, parent |-> parent, step |-> step, author |-> author]
MCHeader ==
  [g0 |-> MCBlock(0, None, 0, "v1"), a1 |-> MCBlock(1, "g0", 1, "v1"), a2 |-> MCBlock(2, "a1", 2, "v1"),
   a3 |-> MCBlock(3, "a2", 3, "v2"), a4 |-> MCBlock(4, "a3", 4, "v1"),
   b1 |-> MCBlock(1, "g0", 2, "v2"), b3 |-> MCBlock(3, "a2", 5, "v1")]
MCLogged == [b \in DOMAIN MCHeader |-> IF b = "a1" THEN <<"v1", "v2">> ELSE IF b = "b1" THEN <<"v2">> ELSE None]

State(block, list, proof, bypass) ==
  [block |-> block, list |-> list, proof |-> proof, bypass |-> bypass, engine |-> "aura"]
Proof(b, finality) == [header |-> b, finality |-> finality, receipt |-> TRUE]
MCSpec == <<State(0, <<"v1">>, None, None)>>
ListChange == State(1, <<"v1", "v2">>, Proof("a1", <<"a2", "a3">>), None)
MCTrue == MCSpec \o <<ListChange>>
MCValidatorAnswers ==
  {MCTrue, None,
   MCSpec \o <<[ListChange EXCEPT !.list = <<"v2", "v1">>]>>,
   MCSpec \o <<[ListChange EXCEPT !.proof = None]>>,
   MCSpec \o <<[ListChange EXCEPT !.proof.receipt = FALSE]>>,
   MCSpec \o <<[ListChange EXCEPT !.proof.finality = <<"a3", "a2">>]>>,
   MCSpec \o <<State(1, <<"v2">>, Proof("b1", <<"a2">>), None)>>,
   MCSpec \o <<[ListChange EXCEPT !.block = 2]>>,
   <<State(0, <<"v2">>, None, None), ListChange>>, <<ListChange>>}
MCHeaderAnswers ==
  [header : {"g0", "a1", "b1", "a2"}, finality : {None, <<>>, <<"a2", "a3">>}]
    \union [header : {"a3", "b3"}, finality : {None, <<"a4">>, <<"a4", "b1">>}]
MCSignatures == [by : {"s1"}, over : {"g0", "a1", "a2", "b1"}] \union [by : {"s2"}, over : {"a1", "b1"}]

MCAskable == {<<"s1">>, <<"s1", "s2">>}
-----------------------------------------------------------------------------
(* Settings: a chain with a list fetched from a contract, the local chain,   *)
(* and options that fail on their own or after others were applied           *)

MCDefaults == <<[id |-> "main", contract |-> "c1", nodes |-> <<"x">>, wl |-> "c1"],
                [id |-> "local", contract |-> "c1", nodes |-> <<"y">>, wl |-> None]>>
MCLimitSizes == [requestCount |-> 2, timeout |-> 4]

ServerOption(id, props) == [opt |-> "server", id |-> id, props |-> props]
NumberOption(opt, number) == [opt |-> opt, number |-> number]
WhiteList(list) == [prop |-> "whiteList", list |-> list]
Contract(prop, value) == [prop |-> prop, value |-> value]
Nodes(addresses) ==
  [prop |-> "nodeList",
   entries |-> [i \in DOMAIN addresses |-> IF addresses[i] = "bad" THEN [address |-> "x", url |-> None] ELSE [address |-> addresses[i], url |-> "u1"]]]
MCConfigs ==
  {<<[opt |-> "chainId", id |-> id], NumberOption("signatureCount", 1)>> : id \in {None, "main", "local", "new"}} \union
  {<<NumberOption("replaceLatestBlock", 1), NumberOption("signatureCount", n)>> : n \in {0, 1}} \union
  {<<NumberOption("maxVerifiedHashes", n)>> : n \in {1, 3}} \union
  {<<[opt |-> "limit", name |-> "requestCount", number |-> n]>> : n \in {1, 2}} \union
  {<<ServerOption("local", <<[prop |-> "verifiedHashes", numbers |-> <<7>>]>>), NumberOption("maxVerifiedHashes", 3), [opt |-> "chainId", id |-> "local"]>>} \union
  {<<[opt |-> "rpc", url |-> "u2"]>>, <<[opt |-> "unknown"]>>} \union
  {<<ServerOption("main", <<Nodes(as)>>)>> : as \in {<<"x", "y">>, <<"y">>, <<"y", "bad", "x">>, <<"x", "x">>}} \union
  {<<ServerOption("main", <<WhiteList(as)>>)>> : as \in {<<"x">>, <<"y", "y">>}} \union
  {<<ServerOption("main", <<Contract("whiteListContract", "c1")>>)>>,
   <<ServerOption("main", <<Contract("whiteListContract", "c1"), WhiteList(<<"x">>)>>)>>,
   <<ServerOption("main", <<[prop |-> "needsUpdate", flag |-> FALSE], [prop |-> "verifiedHashes", numbers |-> <<7>>]>>)>>,
   <<ServerOption("main", <<[prop |-> "verifiedHashes", numbers |-> <<7, 8, 9>>]>>)>>,
   <<ServerOption("new", <<Contract("contract", "c1"), Nodes(<<"x">>)>>), [opt |-> "chainId", id |-> "new"]>>,
   <<ServerOption("new", <<Nodes(<<"x">>)>>)>>, <<ServerOption("main", <<[prop |-> "unknown"]>>)>>}
-----------------------------------------------------------------------------
PR == INSTANCE MCEvmPrograms WITH Bits <- 3, Width <- 5, Long <- 3
EvmCalls == PR!MCCalls
EvmAccounts == PR!MCAccounts
EvmHeader == PR!MCHeader
EvmOpOfByte == PR!MCOpOfByte

V == INSTANCE In3Evm WITH
  result <- evmResult, proof <- evmProof, Bits <- 3, Width <- 5, Long <- 3, 
  StackLimit <- 12, MemLimit <- 1000, GasWrap <- 1073741824,
  Calls <- EvmCalls, Accounts <- EvmAccounts, Header <- EvmHeader, OpOfByte <- EvmOpOfByte,
  Sha3 <- PR!MCSha3, NewAddress <- PR!MCNewAddress, Recovered <- PR!MCRecovered
-----------------------------------------------------------------------------
(* Requests: up to three urls, two at a time; HTTP answers that are whole,    *)
(* of the buffer's size, without success or headers, or with a NUL           *)

Ok(body) == <<"HTTP", "200", "header", "blank">> \o body
MCPieces == {"HTTP", "200", "500", "header", "blank", "nul", "a", "b", "c"}
MCCurlSends == {<<<<"a">>, <<"b", "c">>>>, <<<<"a">>, <<"b">>, <<"c">>>>}
MCHttpSends == {<<Ok(<<"a">>), Ok(<<"b">>)>>, <<Ok(<<"a", "b">>), Ok(<<"c">>)>>, <<<<"HTTP", "500", "header", "blank">>, Ok(<<"c">>)>>,
                <<<<"HTTP", "200", "blank", "a">>, Ok(<<"nul">>)>>}
-----------------------------------------------------------------------------
Init ==
  /\ topic \in {"headers", "config", "filters", "send", "ens", "usn", "evm", "transport"}
  /\ HeadersInit /\ FiltersInit /\ UsnInit
  /\ ConfigInit /\ (topic # "config" => Len(client.chains) = 2)
  /\ SendInit /\ (topic # "send" => tx = [nonce |-> None, price |-> None])
  /\ EnsInit /\ (topic # "ens" => \A r \in Registries : records[<<r, "resolver">>] = "s1")
  /\ IF topic = "evm" THEN V!Init ELSE frames = <<>> /\ evmResult = None /\ evmProof = None
  /\ TransportInit /\ (topic # "transport" => via = "curl" /\ Len(sends) = 2 /\ seconds = 0)

Headers == topic = "headers" /\ HeadersNext /\ UNCHANGED <<topic, configVars, filterVars, sendVars, ensVars, usnVars, evmVars, transportVars>>
Config == topic = "config" /\ ConfigNext /\ UNCHANGED <<topic, headerVars, filterVars, sendVars, ensVars, usnVars, evmVars, transportVars>>
Filters == topic = "filters" /\ FiltersNext /\ UNCHANGED <<topic, headerVars, configVars, sendVars, ensVars, usnVars, evmVars, transportVars>>
SendTx == topic = "send" /\ SendNext /\ UNCHANGED <<topic, headerVars, configVars, filterVars, ensVars, usnVars, evmVars, transportVars>>
Ens == topic = "ens" /\ EnsNext /\ UNCHANGED <<topic, headerVars, configVars, filterVars, sendVars, usnVars, evmVars, transportVars>>
Usn == topic = "usn" /\ UsnNext /\ UNCHANGED <<topic, headerVars, configVars, filterVars, sendVars, ensVars, evmVars, transportVars>>
Evm == topic = "evm" /\ V!Next /\ UNCHANGED <<topic, headerVars, configVars, filterVars, sendVars, ensVars, usnVars, transportVars>>
Transport == topic = "transport" /\ TransportNext /\ UNCHANGED <<topic, headerVars, configVars, filterVars, sendVars, ensVars, usnVars, evmVars>>

Next == Headers \/ Config \/ Filters \/ SendTx \/ Ens \/ Usn \/ Evm \/ Transport

vars == <<topic, headerVars, configVars, filterVars, sendVars, ensVars, usnVars, evmVars, transportVars>>

\* usn_update_state is a plain call: once called it goes on.
KeptUsn == UNCHANGED <<topic, headerVars, configVars, filterVars, sendVars, ensVars, evmVars, transportVars>>
UsnStep == topic = "usn" /\ UpdateStep /\ KeptUsn

\* send_curl runs on its caller's thread, and libcurl's timeout ends a transfer.
Kept == UNCHANGED <<topic, headerVars, configVars, filterVars, sendVars, ensVars, usnVars, evmVars>>
CurlStep == topic = "transport" /\ Curl /\ Kept
NetworkStep == topic = "transport" /\ NetworkMoves /\ Kept

Spec == Init /\ [][Next]_vars /\ WF_vars(UsnStep) /\ WF_vars(CurlStep) /\ WF_vars(NetworkStep)
-----------------------------------------------------------------------------
(* One property for each part: what its callers rely on, and the shape of    *)
(* its variables.  In each the part's own module says what it excepts.       *)

\* However nodes answer, a header is accepted for signatures over it or for seals of the
\* validators whose turn it was, by a history the contract logged, and a newer verified hash is
\* never given up for an older one (eth_verify_blockheader, eth_verify_authority,
\* add_aura_validators, add_verified).
HeadersAreTrue ==
  /\ [](HeadersTypeOK /\ AcceptedIsSigned /\ AcceptedIsSealed /\ HistoryIsLogged)
  /\ NewestIsKept

\* Nested calls are atomic: one that fails leaves no trace, one that succeeds hands over exactly
\* what it changed, and neither makes value, gas or a jump into the data of a PUSH
\* (evm_sub_call, copy_state, transfer_value, finalize_subcall_gas, op_jump).
CallsAreAtomic ==
  /\ [](topic = "evm" => V!TypeOK /\ V!OnlyInstructionsRun)
  /\ V!FailedCallLeavesNoTrace
  /\ V!CommitIsExact
  /\ V!NoValueIsMade
  /\ V!NoGasIsMade

\* The loops that work on what others may add to return: usn_update_state over bookings,
\* send_curl over transfers.
LoopsEnd == UpdatesEnd /\ SendReturns
=============================================================================
