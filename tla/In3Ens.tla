------------------------------- MODULE In3Ens -------------------------------
(***************************************************************************)
(* in3_ens: a name's address, resolver, owner or hash (api/eth1/ens.c and   *)
(* its handler in rpc_api.c).                                               *)
(*                                                                         *)
(* ens_resolve asks the registry and then, for an address, the resolver the  *)
(* registry named, each by an eth_call the request requires.  It is called   *)
(* from the start again after every answer and finds its calls by their      *)
(* data.  What it found is kept in the client's storage for good, by name    *)
(* and type alone.  The owner of the name may change its records at any      *)
(* time, and several requests of one client go on side by side.              *)
(*                                                                         *)
(* One name; what its registries and resolvers answer is a record below.    *)
(***************************************************************************)
EXTENDS In3None, Integers, Sequences, SequencesExt

CONSTANTS
  Requests,     \* requests of the client
  Registries,   \* what a caller may name as the registry
  MainRegistry, \* the registry of the main chain
  Chains,       \* the chains the client may be set to, "main" among them
  Resolvers,    \* what a registry may name
  Owners,
  Accounts,     \* what a resolver may name
  MaxChanges    \* bound: changes of the records

\* The main chain's registry can be asked; None stands for the zero address.
EnsConstants ==
  /\ MainRegistry \in Registries
  /\ \A S \in {Resolvers, Owners, Accounts} : S # {} /\ None \notin S

ASSUME EnsAssumption == EnsConstants

VARIABLES
  records,  \* what the contracts say now: <<contract, question>> |-> answer
  was,      \* every [at, question, answer] they ever said
  stored,   \* the storage: type |-> answer
  chain,    \* client->chain_id
  asked     \* request |-> [type, registry, required, result]
ensVars == <<records, was, stored, chain, asked>>

Types == {"addr", "resolver", "owner", "hash"}
Questions == {<<r, q>> : r \in Registries, q \in {"resolver", "owner"}} \union {<<s, "addr">> : s \in Resolvers}
Answers(q) == {None} \union (CASE q[2] = "resolver" -> Resolvers [] q[2] = "owner" -> Owners [] q[2] = "addr" -> Accounts)
Said(at, question, answer) == [at |-> at, question |-> question, answer |-> answer]

Unresolved(i) == asked[i] # None /\ asked[i].result = None
Result(how, value) == [how |-> how, value |-> value]
-----------------------------------------------------------------------------
(* ens_resolve *)

\* the name of what is stored
Key(type) == type

\* Mutant of FindPending: the newest eth_call of the request.
FindPendingNewest(required, question) == IF required = <<>> THEN 0 ELSE 1

\* find_pending_ctx: by the selector and the name's hash, whatever contract was asked
FindPending(required, question) == SelectInSeq(required, LAMBDA c : c.question = question)

Registry(request) ==
  IF request.registry # None THEN request.registry
  ELSE IF chain = "main" THEN MainRegistry ELSE None

\* One pass.  exec_call: a call that is not there is made; one that failed, or whose answer is
\* too short, fails the request.
Ask(request, question, at) ==
  [request EXCEPT !.required = <<[question |-> question, at |-> at, state |-> "waiting", answer |-> None]>> \o @]

Found(type, value) == [result |-> Result("asked", value), store |-> TRUE]
Failed == [result |-> Result("failed", None), store |-> FALSE]

Resolve(request) ==
  LET first == IF request.type = "owner" THEN "owner" ELSE "resolver"
      i == FindPending(request.required, first)
      j == FindPending(request.required, "addr")
      call == request.required
      end(e) == [request |-> [request EXCEPT !.result = e.result], store |-> e.store]
      wait(r) == [request |-> r, store |-> FALSE]
  IN  IF request.type # "hash" /\ stored[Key(request.type)] # None THEN
        end([result |-> Result("stored", stored[Key(request.type)]), store |-> FALSE])
      ELSE IF request.type = "hash" THEN end([result |-> Result("hash", None), store |-> FALSE])
      ELSE IF Registry(request) = None THEN end(Failed)
      ELSE IF i = 0 THEN wait(Ask(request, first, Registry(request)))
      ELSE IF call[i].state = "waiting" THEN wait(request)
      ELSE IF call[i].state = "failed" \/ call[i].answer = None THEN end(Failed)
      ELSE IF request.type \in {"resolver", "owner"} THEN end(Found(request.type, call[i].answer))
      ELSE IF j = 0 THEN wait(Ask(request, "addr", call[i].answer))
      ELSE IF call[j].state = "waiting" THEN wait(request)
      ELSE IF call[j].state = "failed" \/ call[j].answer = None THEN end(Failed)
      ELSE end(Found("addr", call[j].answer))

Execute(i) ==
  /\ Unresolved(i)
  /\ \A k \in DOMAIN asked[i].required : asked[i].required[k].state # "waiting"
  /\ \E e \in {Resolve(asked[i])} :
       /\ asked' = [asked EXCEPT ![i] = e.request]
       /\ stored' = IF e.store THEN [stored EXCEPT ![Key(e.request.type)] = e.request.result.value] ELSE stored
  /\ UNCHANGED <<records, was, chain>>

\* in3_ens
Start(i, type, registry) ==
  /\ asked[i] = None
  /\ asked' = [asked EXCEPT ![i] = [type |-> type, registry |-> registry, required |-> <<>>, result |-> None]]
  /\ UNCHANGED <<records, was, stored, chain>>

\* A node's verified answer, or none.
Reply(i, k, state) ==
  LET c == asked[i].required[k]
  IN  /\ c.state = "waiting"
      /\ asked' = [asked EXCEPT ![i].required[k].state = state,
                                ![i].required[k].answer = IF state = "done" THEN records[<<c.at, c.question>>] ELSE None]
      /\ UNCHANGED <<records, was, stored, chain>>

\* The name's owner changes a record.
Change(q, answer) ==
  /\ Len(was) < MaxChanges
  /\ records[q] # answer
  /\ records' = [records EXCEPT ![q] = answer]
  /\ was' = Append(was, Said(q[1], q[2], records[q]))
  /\ UNCHANGED <<stored, chain, asked>>

\* in3_configure
Switch(c) ==
  /\ chain # c
  /\ chain' = c
  /\ UNCHANGED <<records, was, stored, asked>>

\* in3_cacheClear
CacheClear ==
  /\ stored' = [t \in Types |-> None]
  /\ UNCHANGED <<records, was, chain, asked>>
-----------------------------------------------------------------------------
EnsInit ==
  /\ \E s \in Resolvers : records = [q \in Questions |-> IF q[2] = "resolver" THEN s ELSE CHOOSE a \in Answers(q) : a # None]
  /\ was = <<>>
  /\ stored = [t \in Types |-> None]
  /\ chain = "main"
  /\ asked = [i \in Requests |-> None]

EnsNext ==
  \/ \E i \in Requests :
       \/ \E type \in Types, registry \in Registries \union {None} : Start(i, type, registry)
       \/ Execute(i)
       \/ asked[i] # None /\ \E k \in DOMAIN asked[i].required, state \in {"done", "failed"} : Reply(i, k, state)
  \/ \E q \in Questions : \E answer \in Answers(q) : Change(q, answer)
  \/ \E c \in Chains : Switch(c)
  \/ CacheClear

EnsSpec == EnsInit /\ [][EnsNext]_ensVars
-----------------------------------------------------------------------------
(* Properties *)

\* What a contract said at some time
EverSaid(at, question, answer) ==
  records[<<at, question>>] = answer \/ \E k \in DOMAIN was : was[k] = Said(at, question, answer)

\* The answer, from one of these registries
Told(registries, type, value) ==
  \E r \in registries :
    IF type = "addr" THEN \E s \in Resolvers : EverSaid(r, "resolver", s) /\ EverSaid(s, "addr", value)
    ELSE EverSaid(r, type, value)

\* The storage holds addresses.
EnsTypeOK ==
  /\ \A t \in Types : stored[t] = None \/ stored[t] \in Resolvers \union Owners \union Accounts
  /\ \A i \in Requests : asked[i] # None => Len(asked[i].required) <= 2

\* However the records change between the two calls and whatever other requests store in
\* between, an answer for a name is what the registry that was asked said, for an address
\* what a resolver it named said; an answer from the storage is what some registry said.
AnswersAreTold ==
  \A i \in Requests : asked[i] # None /\ asked[i].result # None =>
    LET a == asked[i]
    IN  /\ a.result.how = "asked" => Told({IF a.registry = None THEN MainRegistry ELSE a.registry}, a.type, a.result.value)
        /\ a.result.how = "stored" => Told(Registries, a.type, a.result.value)

\* A name's answer is what its contracts said, also with the records changing between the calls
\* (ens_resolve).
NamesAreResolved == EnsTypeOK /\ AnswersAreTold
=============================================================================
