--------------------------- MODULE In3SendTxProofs ---------------------------
(***************************************************************************)
(* Proofs about In3SendTx, for every nonce, price and number of attempts.   *)
(***************************************************************************)
EXTENDS In3SendTx, SequenceTheorems, TLAPS

\* The account pays once: nodes only ever took the one raw transaction of the request.
OneRaw == accepted # {} => raw # None /\ accepted = {raw}

LEMMA InitOneRaw == SendInit => OneRaw
  BY DEF SendInit, OneRaw

LEMMA NextOneRaw == OneRaw /\ [SendNext]_sendVars => OneRaw'
<1> SUFFICES ASSUME OneRaw, [SendNext]_sendVars PROVE OneRaw'
  OBVIOUS
<1> USE DEF OneRaw
<1>1. CASE AskValues
  BY <1>1 DEF AskValues
<1>2. CASE AskSignature
  BY <1>2 DEF AskSignature
<1>3. CASE Sign
  BY <1>3 DEF Sign
<1>4. ASSUME NEW i \in DOMAIN required, Answer(i) PROVE OneRaw'
  BY <1>4 DEF Answer, Fail
<1>5. ASSUME NEW took \in BOOLEAN, NEW verified \in BOOLEAN, Send(took, verified) PROVE OneRaw'
  <2>1. raw # None /\ raw' = raw
    BY <1>5 DEF Send, Again
  <2>2. accepted' \in {accepted, accepted \union {raw}}
    BY <1>5 DEF Send
  <2> QED BY <2>1, <2>2
<1>6. CASE OtherTx
  BY <1>6 DEF OtherTx
<1>7. CASE UNCHANGED sendVars
  BY <1>7 DEF sendVars
<1> QED BY <1>1, <1>2, <1>3, <1>4, <1>5, <1>6, <1>7 DEF SendNext

\* However often a request is sent and whatever answers are lost, nodes take at most one
\* transaction of it (in3_send_ctx sends the raw transaction that eth_handle_intern put there).
THEOREM OnePayment == SendSpec => []PaysOnce
<1>1. OneRaw => PaysOnce
  BY DEF OneRaw, PaysOnce
<1> QED BY <1>1, InitOneRaw, NextOneRaw, PTL DEF SendSpec
-----------------------------------------------------------------------------
(* What is sent is what was signed.  While the signature is asked for, the   *)
(* passes of sign_tx find the same nonce and price as the one that asked.   *)

Methods == {"eth_getTransactionCount", "eth_gasPrice", "sign_ec_hash"}
Values == Nat \union Prices \union {None}
Given == Values \union GivenNonces \union GivenPrices
Requests == [method : Methods, state : {"waiting", "done"}, value : Values, over : {None} \union (Given \X Given)]

\* Every method is asked for once, so that it has one place in the chain.
OneEach == \A i, j \in DOMAIN required : required[i].method = required[j].method => i = j

\* What a node answered is a value.
DoneHasValue ==
  \A i \in DOMAIN required :
    (required[i].state = "done" /\ required[i].method # "sign_ec_hash") => required[i].value # None

\* The request for the signature comes when all others are answered, and is over what they
\* answered.
SignsValues ==
  \A s \in DOMAIN required : required[s].method = "sign_ec_hash" =>
    /\ Missing = {}
    /\ \A j \in DOMAIN required : j # s => required[j].state = "done"
    /\ required[s].over = <<Nonce, Price>>

SendInv ==
  /\ tx \in [nonce : GivenNonces, price : GivenPrices]
  /\ required \in Seq(Requests)
  /\ count \in Nat
  /\ OneEach /\ DoneHasValue /\ SignsValues
  /\ SentAsSigned

Place(r, m) == SelectInSeq(r, LAMBDA c : c.method = m)
Distinct(r) == \A i, j \in DOMAIN r : r[i].method = r[j].method => i = j

\* ctx_find_required finds what is there, and nothing else.
LEMMA PlaceIsIt ==
  ASSUME NEW r \in Seq(Requests), Distinct(r), NEW m
  PROVE  /\ \A i \in DOMAIN r : r[i].method = m => Place(r, m) = i
         /\ (\A i \in DOMAIN r : r[i].method # m) => Place(r, m) = 0
<1>1. Place(r, m) = LET I == {i \in 1 .. Len(r) : r[i].method = m} IN IF I # {} THEN Min(I) ELSE 0
  BY DEF Place, SelectInSeq
<1>2. ASSUME NEW i \in DOMAIN r, r[i].method = m PROVE Place(r, m) = i
  <2>1. {k \in 1 .. Len(r) : r[k].method = m} = {i}
    BY <1>2 DEF Distinct
  <2>2. Min({i}) = i
    BY DEF Min
  <2> QED BY <1>1, <2>1, <2>2
<1>3. (\A i \in DOMAIN r : r[i].method # m) => Place(r, m) = 0
  BY <1>1
<1> QED BY <1>2, <1>3

LEMMA FindIsPlace == ASSUME NEW m PROVE Find(m) = Place(required, m)
  BY Zenon DEF Find, Place

LEMMA FindIsPlaceNext == ASSUME NEW m PROVE Find(m)' = Place(required', m)
  BY DEF Find, Place, SelectInSeq

LEMMA FindsIt ==
  ASSUME required \in Seq(Requests), OneEach, NEW m
  PROVE  /\ \A i \in DOMAIN required : required[i].method = m => Find(m) = i
         /\ (\A i \in DOMAIN required : required[i].method # m) => Find(m) = 0
  BY PlaceIsIt, FindIsPlace DEF OneEach, Distinct

LEMMA FindsItNext ==
  ASSUME required' \in Seq(Requests), OneEach', NEW m
  PROVE  /\ \A i \in DOMAIN required' : required'[i].method = m => Find(m)' = i
         /\ (\A i \in DOMAIN required' : required'[i].method # m) => Find(m)' = 0
  BY PlaceIsIt, FindIsPlaceNext DEF OneEach, Distinct

LEMMA InitSendInv == SendInit => SendInv
  BY DEF SendInit, SendInv, OneEach, DoneHasValue, SignsValues, SentAsSigned

\* Missing, the nonce and the price as they are found in the chain.
LEMMA ValuesAreFound ==
  /\ Missing = {} <=> /\ tx.nonce # None \/ Place(required, "eth_getTransactionCount") # 0
                      /\ tx.price # None \/ Place(required, "eth_gasPrice") # 0
  /\ Nonce = IF tx.nonce # None THEN tx.nonce ELSE required[Place(required, "eth_getTransactionCount")].value
  /\ Price = IF tx.price # None THEN tx.price ELSE required[Place(required, "eth_gasPrice")].value
<1>1. \A m : Find(m) = Place(required, m)
  BY FindIsPlace
<1> QED BY <1>1 DEF Missing, Nonce, Price, Value

LEMMA ValuesAreFoundNext ==
  /\ (Missing = {})' <=> /\ tx'.nonce # None \/ Place(required', "eth_getTransactionCount") # 0
                         /\ tx'.price # None \/ Place(required', "eth_gasPrice") # 0
  /\ Nonce' = IF tx'.nonce # None THEN tx'.nonce ELSE required'[Place(required', "eth_getTransactionCount")].value
  /\ Price' = IF tx'.price # None THEN tx'.price ELSE required'[Place(required', "eth_gasPrice")].value
<1>1. \A m : Find(m)' = Place(required', m)
  BY FindIsPlaceNext
<1> QED BY <1>1 DEF Missing, Nonce, Price, Value

\* What AskValues puts before the chain.
Asked(method) == IF method \in Missing THEN <<Waiting(method, None)>> ELSE <<>>

LEMMA AskedIsNew ==
  /\ Asked("eth_gasPrice") \o Asked("eth_getTransactionCount") \in Seq(Requests)
  /\ Distinct(Asked("eth_gasPrice") \o Asked("eth_getTransactionCount"))
  /\ LET new == Asked("eth_gasPrice") \o Asked("eth_getTransactionCount")
     IN  \A k \in DOMAIN new : new[k].method \in Missing /\ new[k].state = "waiting"
<1> DEFINE price == Waiting("eth_gasPrice", None)
           nonce == Waiting("eth_getTransactionCount", None)
<1>1. price \in Requests /\ nonce \in Requests /\ price.state = "waiting" /\ nonce.state = "waiting"
      /\ price.method = "eth_gasPrice" /\ nonce.method = "eth_getTransactionCount"
  BY DEF Waiting, Requests, Methods, Values
<1> HIDE DEF price, nonce
<1>2. ASSUME NEW m, NEW c \in Requests, c = Waiting(m, None)
      PROVE  /\ Asked(m) \in Seq(Requests)
             /\ Len(Asked(m)) \in {0, 1}
             /\ \A k \in 1 .. Len(Asked(m)) : k = 1 /\ Asked(m)[k] = c /\ m \in Missing
  <2>1. CASE m \in Missing
    <3>1. Asked(m) = <<c>>
      BY <1>2, <2>1 DEF Asked
    <3> QED BY <2>1, <3>1
  <2>2. CASE m \notin Missing
    <3>1. Asked(m) = <<>>
      BY <2>2 DEF Asked
    <3> QED BY <3>1
  <2> QED BY <2>1, <2>2
<1> DEFINE p == Asked("eth_gasPrice")
           n == Asked("eth_getTransactionCount")
<1>3. p \in Seq(Requests) /\ Len(p) \in {0, 1} /\ \A k \in 1 .. Len(p) : k = 1 /\ p[k] = price /\ "eth_gasPrice" \in Missing
  BY <1>1, <1>2 DEF price
<1>4. n \in Seq(Requests) /\ Len(n) \in {0, 1} /\ \A k \in 1 .. Len(n) : k = 1 /\ n[k] = nonce /\ "eth_getTransactionCount" \in Missing
  BY <1>1, <1>2 DEF nonce
<1> HIDE DEF p, n
<1>5. /\ p \o n \in Seq(Requests) /\ Len(p \o n) = Len(p) + Len(n)
      /\ \A k \in 1 .. Len(p) + Len(n) : (p \o n)[k] = IF k <= Len(p) THEN p[k] ELSE n[k - Len(p)]
  BY <1>3, <1>4, ConcatProperties
<1>6. \A k \in 1 .. Len(p \o n) : \/ k = 1 /\ Len(p) = 1 /\ (p \o n)[k] = price /\ "eth_gasPrice" \in Missing
                                  \/ k = Len(p) + 1 /\ (p \o n)[k] = nonce /\ "eth_getTransactionCount" \in Missing
  BY <1>3, <1>4, <1>5
<1>7. Distinct(p \o n)
  BY <1>1, <1>5, <1>6 DEF Distinct
<1>8. \A k \in DOMAIN (p \o n) : (p \o n)[k].method \in Missing /\ (p \o n)[k].state = "waiting"
  BY <1>1, <1>5, <1>6
<1> QED BY <1>5, <1>7, <1>8 DEF p, n

LEMMA AskValuesSendInv == ASSUME SendInv, AskValues PROVE SendInv'
<1> USE DEF SendInv
<1> DEFINE new == Asked("eth_gasPrice") \o Asked("eth_getTransactionCount")
<1>1. required' = new \o required /\ UNCHANGED <<tx, raw, count>>
  BY DEF AskValues, Asked
<1>2. Missing # {} /\ \A m \in Missing : Find(m) = 0 /\ m \in {"eth_getTransactionCount", "eth_gasPrice"}
  BY DEF AskValues, Missing
<1>3. new \in Seq(Requests) /\ Distinct(new) /\ \A k \in DOMAIN new : new[k].method \in Missing /\ new[k].state = "waiting"
  BY AskedIsNew
<1> HIDE DEF new
<1>4. \A m \in Missing, i \in DOMAIN required : required[i].method # m
  BY <1>2, FindsIt
<1>5. required' \in Seq(Requests) /\ Len(required') = Len(new) + Len(required)
      /\ (\A i \in 1 .. Len(new) : required'[i] = new[i])
      /\ \A i \in Len(new) + 1 .. Len(required') : required'[i] = required[i - Len(new)] /\ i - Len(new) \in DOMAIN required
  BY <1>1, <1>3
<1>6. \A i \in DOMAIN required' : \/ i \in DOMAIN new /\ required'[i] = new[i]
                                  \/ i - Len(new) \in DOMAIN required /\ required'[i] = required[i - Len(new)]
  BY <1>3, <1>5
<1>7. OneEach'
  <2> SUFFICES ASSUME NEW i \in DOMAIN required', NEW j \in DOMAIN required', required'[i].method = required'[j].method
               PROVE i = j
    BY DEF OneEach
  <2>1. i \in Int /\ j \in Int /\ Len(new) \in Nat
    BY <1>3, <1>5
  <2> QED BY <1>3, <1>4, <1>6, <2>1 DEF OneEach, Distinct
<1>8. \A i \in DOMAIN required : required[i].method # "sign_ec_hash"
  BY <1>2 DEF SignsValues
<1>9. \A i \in DOMAIN required' : required'[i].method # "sign_ec_hash"
  BY <1>2, <1>3, <1>6, <1>8
<1>10. DoneHasValue'
  BY <1>3, <1>6 DEF DoneHasValue
<1> QED BY <1>1, <1>5, <1>7, <1>9, <1>10 DEF SignsValues, SentAsSigned

\* Steps that leave the caller's transaction and the chain as they are
LEMMA SameChainSendInv ==
  ASSUME SendInv, UNCHANGED <<tx, required>>, count' \in Nat, raw' = raw
  PROVE  SendInv'
<1>1. \A m : Place(required', m) = Place(required, m)
  OBVIOUS
<1>2. ((Missing = {})' <=> Missing = {}) /\ Nonce' = Nonce /\ Price' = Price
  BY <1>1, ValuesAreFound, ValuesAreFoundNext
<1> QED BY <1>2 DEF SendInv, OneEach, DoneHasValue, SignsValues, SentAsSigned

LEMMA AskSignatureSendInv == ASSUME SendConstants, SendInv, AskSignature PROVE SendInv'
<1> USE DEF SendInv
<1> DEFINE c == Waiting("sign_ec_hash", <<Nonce, Price>>)
           P(m) == Place(required, m)
<1>1. required' = <<c>> \o required /\ UNCHANGED <<tx, raw, count>>
  BY DEF AskSignature
<1>2. Missing = {} /\ Answered /\ Find("sign_ec_hash") = 0 /\ raw = None
  BY DEF AskSignature
<1>3. /\ \A m : \A i \in DOMAIN required : required[i].method = m => P(m) = i
      /\ \A m : (\A i \in DOMAIN required : required[i].method # m) => P(m) = 0
  BY PlaceIsIt DEF OneEach, Distinct
<1>4. \A i \in DOMAIN required : required[i].method # "sign_ec_hash" /\ required[i].state = "done"
  BY <1>2, FindsIt DEF Answered
<1>5. \A m : P(m) # 0 => P(m) \in DOMAIN required /\ required[P(m)].method = m
  BY <1>3
<1>6. Nonce \in Given /\ Price \in Given
  <2>1. ASSUME NEW m, P(m) # 0 PROVE required[P(m)].value \in Values
    <3>1. required[P(m)] \in Requests
      BY <1>5, <2>1
    <3> QED BY <3>1 DEF Requests
  <2>2. /\ tx.nonce # None \/ P("eth_getTransactionCount") # 0
        /\ tx.price # None \/ P("eth_gasPrice") # 0
    BY <1>2, ValuesAreFound
  <2> QED BY <2>1, <2>2, ValuesAreFound DEF Given
<1>7. c \in Requests /\ c.method = "sign_ec_hash" /\ c.state = "waiting" /\ c.over = <<Nonce, Price>>
  BY <1>6 DEF Waiting, Requests, Methods, Values
<1> HIDE DEF c
<1>8. /\ required' \in Seq(Requests) /\ Len(required') = 1 + Len(required)
      /\ required'[1] = c
      /\ \A i \in DOMAIN required : i + 1 \in DOMAIN required' /\ required'[i + 1] = required[i]
  BY <1>1, <1>7
<1>9. \A i \in DOMAIN required' : \/ i = 1 /\ required'[i] = c
                                  \/ i - 1 \in DOMAIN required /\ required'[i] = required[i - 1]
  <2>1. Len(required) \in Nat /\ DOMAIN required = 1 .. Len(required) /\ DOMAIN required' = 1 .. Len(required) + 1
    BY <1>8, LenProperties
  <2> TAKE i \in DOMAIN required'
  <2>2. CASE i = 1
    BY <1>8, <2>2
  <2>3. CASE i # 1
    <3>1. i - 1 \in DOMAIN required /\ i - 1 + 1 = i
      BY <2>1, <2>3
    <3>2. required'[i] = required[i - 1]
      BY <1>8, <3>1
    <3> QED BY <3>1, <3>2
  <2> QED BY <2>2, <2>3
<1>10. OneEach'
  <2> SUFFICES ASSUME NEW i \in DOMAIN required', NEW j \in DOMAIN required', required'[i].method = required'[j].method
               PROVE i = j
    BY DEF OneEach
  <2>1. i \in Int /\ j \in Int
    BY <1>8
  <2> QED BY <1>4, <1>7, <1>9, <2>1 DEF OneEach
<1>11. \A m : m # "sign_ec_hash" /\ P(m) # 0 => Place(required', m) = P(m) + 1 /\ required'[P(m) + 1] = required[P(m)]
  <2> SUFFICES ASSUME NEW m, m # "sign_ec_hash", P(m) # 0
               PROVE  Place(required', m) = P(m) + 1 /\ required'[P(m) + 1] = required[P(m)]
    OBVIOUS
  <2>1. P(m) \in DOMAIN required /\ required[P(m)].method = m
    BY <1>5
  <2>2. P(m) + 1 \in DOMAIN required' /\ required'[P(m) + 1] = required[P(m)]
    BY <1>8, <2>1
  <2>3. required'[P(m) + 1].method = m
    BY <2>1, <2>2
  <2> QED BY <1>8, <1>10, <2>2, <2>3, PlaceIsIt DEF OneEach, Distinct
<1>12. (Missing = {})' /\ Nonce' = Nonce /\ Price' = Price
  <2>1. \A m : P(m) # 0 => P(m) + 1 # 0
    BY <1>5
  <2> DEFINE n == "eth_getTransactionCount"
             g == "eth_gasPrice"
  <2>2. (tx.nonce # None \/ P(n) # 0) /\ (tx.price # None \/ P(g) # 0)
    BY <1>2, ValuesAreFound
  <2>3. P(n) # 0 => Place(required', n) # 0 /\ required'[Place(required', n)] = required[P(n)]
    BY <1>11, <2>1
  <2>4. P(g) # 0 => Place(required', g) # 0 /\ required'[Place(required', g)] = required[P(g)]
    BY <1>11, <2>1
  <2> QED BY <1>1, <2>2, <2>3, <2>4, ValuesAreFound, ValuesAreFoundNext
<1>13. SignsValues'
  BY <1>4, <1>7, <1>9, <1>12 DEF SignsValues
<1>14. DoneHasValue'
  BY <1>7, <1>9 DEF DoneHasValue
<1> QED BY <1>1, <1>8, <1>10, <1>13, <1>14 DEF SentAsSigned

LEMMA SignSendInv == ASSUME SendConstants, SendInv, Sign PROVE SendInv'
<1> USE DEF SendInv
<1> DEFINE s == Find("sign_ec_hash")
           P(m) == Place(required, m)
<1>1. s # 0 /\ Answered /\ raw' = Signed(Nonce, Price, required[s].over) /\ required' = <<>> /\ UNCHANGED <<tx, count>>
  BY DEF Sign
<1>2. s \in DOMAIN required /\ required[s].method = "sign_ec_hash"
  BY <1>1, FindsIt
<1>3. Missing = {} /\ required[s].over = <<Nonce, Price>>
  BY <1>2 DEF SignsValues
<1>4. \A m : P(m) # 0 => P(m) \in DOMAIN required /\ required[P(m)].method = m
  BY PlaceIsIt DEF OneEach, Distinct
<1>5. \A m : m # "sign_ec_hash" /\ P(m) # 0 => required[P(m)].value # None
  BY <1>1, <1>4 DEF Answered, DoneHasValue
<1>6. Nonce # None /\ Price # None
  BY <1>3, <1>5, ValuesAreFound
<1>7. SentAsSigned'
  BY <1>1, <1>3, <1>6 DEF SentAsSigned, Signed
<1> QED BY <1>1, <1>7 DEF OneEach, DoneHasValue, SignsValues

LEMMA AnswerSendInv == ASSUME SendConstants, SendInv, NEW i \in DOMAIN required, Answer(i) PROVE SendInv'
<1> USE DEF SendInv
<1>1. CASE Fail
  BY <1>1, SameChainSendInv DEF Fail
<1>2. CASE ~Fail
  <2>1. PICK v \in Values : /\ required' = [required EXCEPT ![i] = Done(required[i], v)]
                            /\ required[i].method # "sign_ec_hash" => v # None
                            /\ UNCHANGED <<tx, raw, count>>
    <3> DEFINE done(value) == /\ required' = [required EXCEPT ![i] = Done(required[i], value)]
                              /\ UNCHANGED <<tx, raw, attempt, result, count, accepted>>
    <3>1. \/ required[i].method = "eth_getTransactionCount" /\ done(count)
          \/ required[i].method = "eth_gasPrice" /\ \E price \in Prices : done(price)
          \/ required[i].method = "sign_ec_hash" /\ done(None)
      BY <1>2 DEF Answer
    <3>2. CASE required[i].method = "eth_getTransactionCount" /\ done(count)
      BY <3>2 DEF SendConstants, Values
    <3>3. CASE required[i].method = "eth_gasPrice" /\ \E price \in Prices : done(price)
      BY <3>3 DEF SendConstants, Values
    <3>4. CASE required[i].method = "sign_ec_hash" /\ done(None)
      BY <3>4 DEF Values
    <3> QED BY <3>1, <3>2, <3>3, <3>4
  <2>2. required[i].state = "waiting"
    BY DEF Answer
  <2>3. /\ required' \in Seq(Requests) /\ DOMAIN required' = DOMAIN required
        /\ \A j \in DOMAIN required : /\ required'[j].method = required[j].method
                                      /\ required'[j].over = required[j].over
                                      /\ j # i => required'[j] = required[j]
        /\ required'[i].value = v
    <3>1. required[i] \in Requests
      OBVIOUS
    <3>2. /\ Done(required[i], v) \in Requests /\ Done(required[i], v).method = required[i].method
          /\ Done(required[i], v).over = required[i].over /\ Done(required[i], v).value = v
      BY <3>1 DEF Requests, Done
    <3> QED BY <2>1, <3>2
  <2>4. OneEach'
    BY <2>3 DEF OneEach
  <2>5. DoneHasValue'
    BY <2>1, <2>3 DEF DoneHasValue
  <2>6. \A m : Place(required', m) = Place(required, m)
    <3> TAKE m
    <3>1. CASE \E k \in DOMAIN required : required[k].method = m
      BY <2>3, <2>4, <3>1, PlaceIsIt DEF OneEach, Distinct
    <3>2. CASE \A k \in DOMAIN required : required[k].method # m
      BY <2>3, <2>4, <3>2, PlaceIsIt DEF OneEach, Distinct
    <3> QED BY <3>1, <3>2
  <2>7. SignsValues'
    <3> SUFFICES ASSUME NEW s \in DOMAIN required, required[s].method = "sign_ec_hash"
                 PROVE  /\ (Missing = {})'
                        /\ \A j \in DOMAIN required : j # s => required'[j].state = "done"
                        /\ required[s].over = <<Nonce', Price'>>
      BY <2>3 DEF SignsValues
    <3>1. /\ Missing = {} /\ \A j \in DOMAIN required : j # s => required[j].state = "done"
          /\ required[s].over = <<Nonce, Price>>
      BY DEF SignsValues
    <3>2. i = s
      BY <2>2, <3>1
    <3>3. ASSUME NEW m, m # "sign_ec_hash", Place(required, m) # 0
          PROVE  required'[Place(required, m)] = required[Place(required, m)]
      <4>1. Place(required, m) \in DOMAIN required /\ required[Place(required, m)].method = m
        BY <3>3, PlaceIsIt DEF OneEach, Distinct
      <4> QED BY <2>3, <3>2, <3>3, <4>1
    <3>5. /\ Place(required, "eth_getTransactionCount") # 0 =>
               required'[Place(required, "eth_getTransactionCount")] = required[Place(required, "eth_getTransactionCount")]
          /\ Place(required, "eth_gasPrice") # 0 => required'[Place(required, "eth_gasPrice")] = required[Place(required, "eth_gasPrice")]
      BY <3>3
    <3>6. /\ Place(required', "eth_getTransactionCount") = Place(required, "eth_getTransactionCount")
          /\ Place(required', "eth_gasPrice") = Place(required, "eth_gasPrice")
      BY <2>6
    <3>7. /\ tx.nonce # None \/ Place(required, "eth_getTransactionCount") # 0
          /\ tx.price # None \/ Place(required, "eth_gasPrice") # 0
      BY <3>1, ValuesAreFound
    <3>4. (Missing = {})' /\ Nonce' = Nonce /\ Price' = Price
      BY <2>1, <3>5, <3>6, <3>7, ValuesAreFound, ValuesAreFoundNext
    <3> QED BY <2>3, <3>1, <3>2, <3>4
  <2> QED BY <2>1, <2>3, <2>4, <2>5, <2>7 DEF SentAsSigned
<1> QED BY <1>1, <1>2
LEMMA SendSendInv ==
  ASSUME SendInv, NEW took \in BOOLEAN, NEW verified \in BOOLEAN, Send(took, verified)
  PROVE  SendInv'
<1>1. UNCHANGED <<tx, required>> /\ raw' = raw /\ count' \in Nat
  BY DEF Send, Again, SendInv
<1> QED BY <1>1, SameChainSendInv

LEMMA NextSendInv == ASSUME SendConstants, SendInv, [SendNext]_sendVars PROVE SendInv'
<1>1. CASE AskValues
  BY <1>1, AskValuesSendInv
<1>2. CASE AskSignature
  BY <1>2, AskSignatureSendInv
<1>3. CASE Sign
  BY <1>3, SignSendInv
<1>4. ASSUME NEW i \in DOMAIN required, Answer(i) PROVE SendInv'
  BY <1>4, AnswerSendInv
<1>5. ASSUME NEW took \in BOOLEAN, NEW verified \in BOOLEAN, Send(took, verified) PROVE SendInv'
  BY <1>5, SendSendInv
<1>6. CASE OtherTx
  BY <1>6, SameChainSendInv DEF OtherTx, SendInv
<1>7. CASE UNCHANGED sendVars
  BY <1>7, SameChainSendInv DEF sendVars, SendInv
<1> QED BY <1>1, <1>2, <1>3, <1>4, <1>5, <1>6, <1>7 DEF SendNext

\* Whatever nodes answer and in whatever order, the transaction that replaces the request has the
\* nonce and the price that the signer signed, and neither is missing (sign_tx).
THEOREM SignedIsSent == SendSpec => []SentAsSigned
<1>1. SendInv => SentAsSigned
  BY DEF SendInv
<1>2. SendInv /\ [SendNext]_sendVars => SendInv'
  BY SendAssumption, NextSendInv
<1> QED BY <1>1, <1>2, InitSendInv, PTL DEF SendSpec
-----------------------------------------------------------------------------
(* The shape of the variables.  A request that is still executed has an       *)
(* attempt left; the account's count grows by one transaction of the request  *)
(* at most, because its nonce is behind the count once a node took it.        *)

CountInv ==
  /\ attempt \in 0 .. MaxAttempts /\ (Running => attempt < MaxAttempts)
  /\ count \in Nat
  /\ accepted = {} => count <= MaxNonce
  /\ accepted # {} => count <= MaxNonce + 1 /\ raw.nonce \in Nat /\ raw.nonce < count
  /\ raw # None => required = <<>>
  /\ result = "sent" => accepted # {}

LEMMA InitCountInv == ASSUME SendConstants, SendInit PROVE CountInv
  BY DEF SendConstants, SendInit, CountInv, Running

LEMMA NextCountInv == ASSUME SendConstants, OneRaw, CountInv, [SendNext]_sendVars PROVE CountInv'
<1> USE DEF SendConstants, CountInv, Running
<1>1. CASE AskValues
  BY <1>1 DEF AskValues
<1>2. CASE AskSignature
  BY <1>2 DEF AskSignature
<1>3. CASE Sign
  BY <1>3 DEF Sign, OneRaw
<1>4. ASSUME NEW i \in DOMAIN required, Answer(i) PROVE CountInv'
  <2>1. required # <<>>
    OBVIOUS
  <2>2. UNCHANGED <<raw, attempt, count, accepted>> /\ result' \in {result, "failed"} /\ raw = None
    BY <1>4, <2>1 DEF Answer, Fail
  <2> QED BY <2>2
<1>5. ASSUME NEW took \in BOOLEAN, NEW verified \in BOOLEAN, Send(took, verified) PROVE CountInv'
  <2>1. /\ raw # None /\ raw' = raw /\ required' = required /\ result = None
        /\ took => raw.nonce = count /\ count' = count + 1 /\ accepted' = accepted \union {raw}
        /\ ~took => count' = count /\ accepted' = accepted
        /\ verified => took \/ raw \in accepted
    BY <1>5 DEF Send, Again
  <2>2. /\ attempt' \in 0 .. MaxAttempts /\ (result' = None => attempt' < MaxAttempts)
        /\ result' = "sent" => verified
    BY <1>5 DEF Send
  <2>3. CASE took
    BY <2>1, <2>2, <2>3
  <2>4. CASE ~took
    BY <2>1, <2>2, <2>4
  <2> QED BY <2>3, <2>4
<1>6. CASE OtherTx
  BY <1>6 DEF OtherTx
<1>7. CASE UNCHANGED sendVars
  BY <1>7 DEF sendVars
<1> QED BY <1>1, <1>2, <1>3, <1>4, <1>5, <1>6, <1>7 DEF SendNext

\* What a caller relies on, for every nonce, price, bound and sequence of answers: one request
\* makes one transaction, the one that was signed, and nothing is required of a request that is
\* signed (sign_tx, eth_handle_intern, in3_send_ctx).
THEOREM OnePaymentAsSigned == SendSpec => []PaysOnceAsSigned
<1> DEFINE I == SendInv /\ OneRaw /\ CountInv
<1>1. SendInit => I
  BY SendAssumption, InitSendInv, InitOneRaw, InitCountInv
<1>2. I /\ [SendNext]_sendVars => I'
  BY SendAssumption, NextSendInv, NextOneRaw, NextCountInv
<1>3. I => PaysOnceAsSigned
  BY SendAssumption DEF SendInv, OneRaw, CountInv, SendConstants, PaysOnceAsSigned, SendTypeOK, PaysOnce
<1> QED BY <1>1, <1>2, <1>3, PTL DEF SendSpec
=============================================================================
