------------------------------ MODULE In3SendTx ------------------------------
(***************************************************************************)
(* eth_sendTransaction in the in3 client (verifier/eth1/basic: signer.c and *)
(* eth_basic.c): the transaction's missing nonce and gas price are asked    *)
(* for, the signer signs it, and the request becomes an                     *)
(* eth_sendRawTransaction.                                                 *)
(*                                                                         *)
(* The client executes the request again after every answer: each pass of    *)
(* sign_tx starts from the beginning and finds what it asked for in the      *)
(* chain of required requests, the newest first.  A failed attempt to send   *)
(* executes it once more.                                                   *)
(***************************************************************************)
EXTENDS In3None, Integers, Sequences, SequencesExt

CONSTANTS
  GivenNonces,  \* the nonces a caller may give, None without one
  GivenPrices,
  Prices,       \* the gas prices nodes may answer with
  MaxNonce,     \* bound: transactions of the account
  MaxAttempts   \* max_attempts

\* None stands for no value, so that it is not one; an attempt is made.
SendConstants ==
  /\ None \notin Nat /\ None \notin Prices /\ None \notin {"sent", "failed"}
  /\ GivenNonces \subseteq Nat \union {None}
  /\ MaxNonce \in Nat /\ MaxAttempts \in Nat \ {0}

ASSUME SendAssumption == SendConstants

VARIABLES
  tx,       \* the caller's [nonce, price]
  required, \* the chain of required requests, newest first
  raw,      \* the signed transaction that replaced the request, or None
  attempt,
  result,   \* None, "sent" or "failed"
  count,    \* the account's transaction count
  accepted  \* the raw transactions nodes took
sendVars == <<tx, required, raw, attempt, result, count, accepted>>

Running == result = None

\* ctx_find_required: its place in the chain
Find(method) == SelectInSeq(required, LAMBDA c : c.method = method)
Waiting(method, over) == [method |-> method, state |-> "waiting", value |-> None, over |-> over]
Done(c, value) == [method |-> c.method, state |-> "done", value |-> value, over |-> c.over]
Answered == \A i \in DOMAIN required : required[i].state = "done"

Fail ==
  /\ result' = "failed"
  /\ UNCHANGED <<tx, required, raw, attempt, count, accepted>>

-----------------------------------------------------------------------------
(* sign_tx *)

\* get_from_nodes: nonce and gas price are asked for in one pass
Missing == {m \in {"eth_getTransactionCount"} : tx.nonce = None /\ Find(m) = 0}
             \union {m \in {"eth_gasPrice"} : tx.price = None /\ Find(m) = 0}
Value(given, method) == IF given # None THEN given ELSE required[Find(method)].value
Nonce == Value(tx.nonce, "eth_getTransactionCount")
Price == Value(tx.price, "eth_gasPrice")

AskValues ==
  /\ Running /\ raw = None
  /\ Missing # {}
  /\ LET asked(method) == IF method \in Missing THEN <<Waiting(method, None)>> ELSE <<>>
     IN  required' = asked("eth_gasPrice") \o asked("eth_getTransactionCount") \o required
  /\ UNCHANGED <<tx, raw, attempt, result, count, accepted>>

\* what is signed: the transaction as this pass serializes it
AskSignature ==
  /\ Running /\ raw = None
  /\ Missing = {} /\ Answered /\ Find("sign_ec_hash") = 0
  /\ required' = <<Waiting("sign_ec_hash", <<Nonce, Price>>)>> \o required
  /\ UNCHANGED <<tx, raw, attempt, result, count, accepted>>

\* nonce and price are copies: ctx_remove_required frees the requests they came with
Signed(nonce, price, over) == [nonce |-> nonce, price |-> price, over |-> over]

\* eth_handle_intern puts the raw transaction in the place of the request.
Sign ==
  LET s == Find("sign_ec_hash")
  IN  /\ Running /\ raw = None
      /\ s # 0 /\ Answered
      /\ raw' = Signed(Nonce, Price, required[s].over)
      /\ required' = <<>>
      /\ UNCHANGED <<tx, attempt, result, count, accepted>>

\* The answer to a required request: from a node, or from the signer.  A failed one fails
\* the request.
Answer(i) ==
  LET done(value) == /\ required' = [required EXCEPT ![i] = Done(@, value)]
                     /\ UNCHANGED <<tx, raw, attempt, result, count, accepted>>
  IN  /\ Running /\ required[i].state = "waiting"
      /\ \/ required[i].method = "eth_getTransactionCount" /\ done(count)
         \/ required[i].method = "eth_gasPrice" /\ \E price \in Prices : done(price)
         \/ required[i].method = "sign_ec_hash" /\ done(None)
         \/ Fail
-----------------------------------------------------------------------------
(* Sending *)

\* Mutant of Again: the request is made anew from the caller's transaction.
AgainFromTx == None

\* What the next attempt sends.
Again == raw

\* A node takes the transaction or not, and its answer is verified (the hash is the one of
\* the raw transaction) or not.
Send(took, verified) ==
  /\ Running /\ raw # None
  /\ took => raw.nonce = count
  /\ verified => took \/ raw \in accepted
  /\ accepted' = IF took THEN accepted \union {raw} ELSE accepted
  /\ count' = IF took THEN count + 1 ELSE count
  /\ IF verified THEN result' = "sent" /\ UNCHANGED <<raw, attempt>>
     ELSE /\ attempt' = attempt + 1
          /\ IF attempt' < MaxAttempts THEN raw' = Again /\ UNCHANGED result
             ELSE result' = "failed" /\ UNCHANGED raw
  /\ UNCHANGED <<tx, required>>

\* Another transaction of the account is mined.
OtherTx ==
  /\ count < MaxNonce
  /\ count' = count + 1
  /\ UNCHANGED <<tx, required, raw, attempt, result, accepted>>
-----------------------------------------------------------------------------
SendInit ==
  /\ tx \in [nonce : GivenNonces, price : GivenPrices]
  /\ required = <<>> /\ raw = None /\ attempt = 0 /\ result = None
  /\ count = 0 /\ accepted = {}

SendNext ==
  \/ AskValues
  \/ AskSignature
  \/ Sign
  \/ \E i \in DOMAIN required : Answer(i)
  \/ \E took, verified \in BOOLEAN : Send(took, verified)
  \/ OtherTx

SendSpec == SendInit /\ [][SendNext]_sendVars
-----------------------------------------------------------------------------
(* Properties *)

\* A request is at one place of its way: nothing is required of a signed one, and what was
\* sent was taken by a node.
SendTypeOK ==
  /\ attempt \in 0 .. MaxAttempts /\ count \in 0 .. MaxNonce + MaxAttempts
  /\ raw # None => required = <<>>
  /\ result = "sent" => accepted # {}

\* The transaction sent is the one the signer signed: neither the passes of sign_tx nor the
\* requests it frees in between change a nonce or a price after the signature was asked for.
SentAsSigned ==
  raw # None => raw.over = <<raw.nonce, raw.price>> /\ raw.nonce # None /\ raw.price # None

\* One request makes one transaction, however often it is sent and whatever answers are
\* lost: the account never pays twice.
PaysOnce == \A r, s \in accepted : r = s

\* What a caller of eth_sendTransaction relies on, whatever answers are lost and however often
\* it is tried.
PaysOnceAsSigned == SendTypeOK /\ SentAsSigned /\ PaysOnce
==============================================================================
