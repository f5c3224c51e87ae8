------------------------------ MODULE In3Config ------------------------------
(***************************************************************************)
(* The in3 client's settings and its table of chains                       *)
(* (core/client/client_init.c): what a new client holds, in3_configure and  *)
(* the functions that register chains and nodes.                           *)
(*                                                                         *)
(* in3_configure reads its options one after the other, those of a chain     *)
(* property by property and a node list node by node, and stops at the first *)
(* one it refuses: what was read before it stays.  todo holds what is left    *)
(* to read; each step takes its head, and puts the properties of a chain or   *)
(* the nodes of a list in its place.                                        *)
(*                                                                         *)
(* An option is a record whose field "opt" is its name, a chain's property   *)
(* one whose field "prop" is.  Options that only store a number (flags,      *)
(* limits, timeouts) are one kind, "limit".                                 *)
(*                                                                         *)
(* The two ways a chain changes without its owner, a fetched white list and  *)
(* a verified header, are taken from nodelist.c, execute.c and              *)
(* blockheader.c.  Where the code reads through a NULL pointer or writes     *)
(* past an array the outcome is Wild and nothing more is said.              *)
(***************************************************************************)
EXTENDS Integers, Sequences, SequencesExt, In3None

CONSTANTS
  Defaults,     \* the chains a client starts with: Seq([id, contract, nodes, wl])
  ChainIds,
  Local,        \* the id of the local chain
  Configs,      \* the sequences of options in3_configure is called with
  Addresses,    \* node addresses
  NodeUrls,
  Contracts,
  LimitSizes,   \* option |-> the number of values its type holds
  DefaultDepth, \* DEF_REPL_LATEST_BLK
  FirstMax,     \* max_verified_hashes of a new client
  Heights,      \* the blocks a request may verify
  MaxNodes,     \* bound: nodes of a chain
  MaxCalls      \* bound: what is done to one client

VARIABLES
  client,   \* in3_t
  todo,     \* what in3_configure has not read yet
  configured, \* what the last in3_configure came to
  byHand,   \* chain |-> the white list its owner gave last, unless it comes from a contract
  configCalls
configVars == <<client, todo, configured, byHand, configCalls>>

Garbage == -1       \* memory nothing was written to
Unused == 0         \* a slot of verified_hashes after _calloc
Wild == "wild"
UnderWay == "under way"

\* The options in3_configure is given.  A node without an url is one whose entry is not complete.
\* What a number too large for its type does is shown by "limit"; the other numbers are in theirs.
ChainProperties ==
  [prop : {"contract", "whiteListContract"}, value : Contracts]
    \union [prop : {"whiteList"}, list : Seq(Addresses)]
    \union [prop : {"needsUpdate"}, flag : BOOLEAN]
    \union [prop : {"verifiedHashes"}, numbers : Seq(Nat)]
    \union [prop : {"nodeList"}, entries : Seq([address : Addresses, url : NodeUrls \union {None}])]
    \union [prop : {"unknown"}]
Options ==
  [opt : {"chainId"}, id : ChainIds \union {None}]
    \union [opt : {"signatureCount", "replaceLatestBlock", "maxVerifiedHashes"}, number : Nat]
    \union [opt : {"limit"}, name : DOMAIN LimitSizes, number : Nat]
    \union [opt : {"rpc"}, url : NodeUrls]
    \union [opt : {"server"}, id : ChainIds, props : Seq(ChainProperties)]
    \union [opt : {"unknown"}]

ASSUME ConfigAssumption ==
  /\ \A options \in Configs : options \in Seq(Options)
  /\ Len(Defaults) > 0 /\ Local \in ChainIds
  /\ Defaults \in Seq([id : ChainIds, contract : Contracts, nodes : Seq(Addresses), wl : Contracts \union {None}])
  /\ \A i, j \in DOMAIN Defaults : Defaults[i].id = Defaults[j].id => i = j
  /\ \A i \in DOMAIN Defaults : IsInjective(Defaults[i].nodes)
  /\ NodeUrls # {} /\ None \notin NodeUrls \union Contracts
  /\ \A l \in DOMAIN LimitSizes : LimitSizes[l] \in Nat \ {0}
  /\ "requestCount" \in DOMAIN LimitSizes /\ LimitSizes["requestCount"] > 1
  /\ DefaultDepth \in Nat \ {0} /\ FirstMax \in Nat /\ Heights \subseteq Nat
-----------------------------------------------------------------------------
(* Chains and nodes *)

\* whitelists: list holds the addresses, a manual one has no contract
Fetched(contract) == [contract |-> contract, list |-> <<>>, update |-> TRUE]
Manual(list) == [contract |-> None, list |-> list, update |-> FALSE]

Node(address, url, index) == [address |-> address, url |-> url, index |-> index]
Weight(address) == [of |-> address, blacklisted |-> FALSE]

\* initChain, initNode
NewChain(d) ==
  [id |-> d.id, contract |-> d.contract,
   nodes |-> [i \in DOMAIN d.nodes |-> Node(d.nodes[i], CHOOSE u \in NodeUrls : TRUE, i - 1)],
   weights |-> [i \in DOMAIN d.nodes |-> Weight(d.nodes[i])],
   wl |-> IF d.wl = None THEN None ELSE Fetched(d.wl),
   updates |-> TRUE, hashes |-> None]

NewClient(chains) ==
  [chain |-> IF Len(chains) = 1 THEN chains[1].id ELSE Defaults[1].id,
   chains |-> [i \in DOMAIN chains |-> NewChain(chains[i])],
   max |-> FirstMax, signatures |-> 0, depth |-> 0, proof |-> TRUE, limits |-> [l \in DOMAIN LimitSizes |-> 0]]

\* in3_find_chain: the place of the chain in the table, 0 if it is not there
FindChain(c, id) == SelectInSeq(c.chains, LAMBDA ch : ch.id = id)

FindNode(ch, address) == SelectInSeq(ch.nodes, LAMBDA n : n.address = address)

\* in3_client_register_chain
Registered(c, id, contract, wl) ==
  LET list == IF wl = None THEN None ELSE Fetched(wl)
      i == FindChain(c, id)
  IN  IF i # 0
      THEN [c EXCEPT !.chains[i] = [@ EXCEPT !.contract = contract, !.wl = list, !.updates = FALSE]]
      ELSE [c EXCEPT !.chains = Append(@, [id |-> id, contract |-> contract, nodes |-> <<>>, weights |-> <<>>,
                                           wl |-> list, updates |-> FALSE, hashes |-> None])]

\* Mutant of Added: the address is looked for in the last node only.
AddedAfterLast(ch, address, url) ==
  IF ch.nodes # <<>> /\ Last(ch.nodes).address = address
  THEN [ch EXCEPT !.nodes[Len(ch.nodes)].url = url]
  ELSE [ch EXCEPT !.nodes = Append(@, Node(address, url, Len(@))), !.weights = Append(@, Weight(address))]

\* in3_client_add_node
Added(ch, address, url) ==
  LET i == FindNode(ch, address)
  IN  IF i # 0
      THEN [ch EXCEPT !.nodes[i].url = url, !.weights[i] = Weight(@.of)]
      ELSE [ch EXCEPT !.nodes = Append(@, Node(address, url, Len(@))), !.weights = Append(@, Weight(address))]

\* in3_client_remove_node: the nodes behind keep their index
Removed(ch, i) == [ch EXCEPT !.nodes = RemoveAt(@, i), !.weights = RemoveAt(@, i)]

\* in3_client_clear_nodes
Cleared(ch) == [ch EXCEPT !.nodes = <<>>, !.weights = <<>>]

-----------------------------------------------------------------------------
(* What reading one item comes to: the client, and what is to be read in its place *)

Read(c, items) == [client |-> c, items |-> items, is |-> UnderWay]
Applied(c) == Read(c, <<>>)
Rejected(c) == [client |-> c, items |-> <<>>, is |-> "refused"]
Broken(c) == [client |-> c, items |-> <<>>, is |-> Wild]

\* realloc clears only what is behind the old number of slots, of the current chain
Grow(hashes, old, new) ==
  [k \in 1 .. new |-> IF k > old THEN Unused
                      ELSE IF hashes # None /\ k <= Len(hashes) THEN hashes[k] ELSE Garbage]

MaxVerifiedHashes(c, n) ==
  LET i == FindChain(c, c.chain)
  IN  IF n <= c.max THEN Applied([c EXCEPT !.max = n])
      ELSE IF i = 0 THEN Broken(c)
      ELSE Applied([c EXCEPT !.max = n, !.chains[i].hashes = Grow(@, c.max, n)])

\* rpc: the first node of the local chain gets the url
Rpc(c, url) ==
  LET d == [c EXCEPT !.proof = FALSE, !.chain = Local, !.limits["requestCount"] = 1]
      i == FindChain(d, Local)
  IN  IF i = 0 \/ d.chains[i].nodes = <<>> THEN Broken(d)
      ELSE Applied([d EXCEPT !.chains[i].nodes[1].url = url, !.chains[i].updates = FALSE])

\* whiteListContract, whiteList: one chain object may hold only one of them
OneKind(props, k, other) == ~ \E j \in 1 .. (k - 1) : props[j].prop = other

\* A duplicate leaves the chain without a list.
SetWhiteList(c, i, list) ==
  IF IsInjective(list) THEN Applied([c EXCEPT !.chains[i].wl = Manual(list)])
  ELSE Rejected([c EXCEPT !.chains[i].wl = None])

VerifiedHashes(c, i, numbers) ==
  LET old == c.chains[i].hashes
      new == [k \in 1 .. c.max |-> IF k <= Len(numbers) THEN numbers[k] ELSE Unused]
  IN  IF Len(numbers) > c.max THEN Rejected(c)
      ELSE IF old # None /\ Len(old) < c.max THEN Broken(c)
      ELSE Applied([c EXCEPT !.chains[i].hashes = IF old = None THEN new ELSE new \o SubSeq(old, c.max + 1, Len(old))])

\* the n-th node of a nodeList; the mark of a boot node is set at the n-th place, which is not
\* there once an address came twice
ReadNode(c, o) ==
  LET d == [c EXCEPT !.chains[o.chain] = Added(@, o.entry.address, o.entry.url)]
  IN  IF o.entry.url = None THEN Rejected(c)
      ELSE IF o.n > Len(d.chains[o.chain].nodes) THEN Broken(d) ELSE Applied(d)

\* nodeList: cleared first; a bad entry ends it with the nodes before it
NodeList(c, i, entries) ==
  Read([c EXCEPT !.chains[i] = Cleared(@)],
       [n \in DOMAIN entries |-> [opt |-> "node", chain |-> i, n |-> n, entry |-> entries[n]]])

\* the k-th property of a chain
Property(c, i, props, k) ==
  LET p == props[k]
  IN  CASE p.prop = "contract" -> Applied([c EXCEPT !.chains[i].contract = p.value])
        [] p.prop = "whiteListContract" ->
             IF OneKind(props, k, "whiteList")
             THEN Applied([c EXCEPT !.chains[i].wl = Fetched(p.value)]) ELSE Rejected(c)
        [] p.prop = "whiteList" ->
             IF OneKind(props, k, "whiteListContract") THEN SetWhiteList(c, i, p.list) ELSE Rejected(c)
        [] p.prop = "needsUpdate" -> Applied([c EXCEPT !.chains[i].updates = p.flag])
        [] p.prop = "verifiedHashes" -> VerifiedHashes(c, i, p.numbers)
        [] p.prop = "nodeList" -> NodeList(c, i, p.entries)
        [] OTHER -> Rejected(c)

\* one chain of "servers": a new one needs its contract
Server(c, o) ==
  LET given(name) == SelectInSeq(o.props, LAMBDA p : p.prop = name)
      value(name) == IF given(name) = 0 THEN None ELSE o.props[given(name)].value
      known == FindChain(c, o.id) # 0
      d == IF known THEN c ELSE Registered(c, o.id, value("contract"), value("whiteListContract"))
  IN  IF ~known /\ given("contract") = 0 THEN Rejected(c)
      ELSE Read(d, [k \in DOMAIN o.props |->
                      [opt |-> "property", chain |-> FindChain(d, o.id), props |-> o.props, k |-> k]])

Option(c, o) ==
  CASE o.opt = "chainId" -> IF o.id = None THEN Rejected(c) ELSE Applied([c EXCEPT !.chain = o.id])
    [] o.opt = "signatureCount" -> Applied([c EXCEPT !.signatures = o.number])
    [] o.opt = "replaceLatestBlock" -> Applied([c EXCEPT !.depth = o.number])
    [] o.opt = "maxVerifiedHashes" -> MaxVerifiedHashes(c, o.number)
    [] o.opt = "limit" ->
         IF o.number < LimitSizes[o.name] THEN Applied([c EXCEPT !.limits[o.name] = o.number]) ELSE Rejected(c)
    [] o.opt = "rpc" -> Rpc(c, o.url)
    [] o.opt = "server" -> Server(c, o)
    [] o.opt = "property" -> Property(c, o.chain, o.props, o.k)
    [] o.opt = "node" -> ReadNode(c, o)
    [] OTHER -> Rejected(c)

\* What in3_configure does after the last option: signatures need a block the nodes agree on,
\* and the chain must be there.
Completed(c) == IF c.signatures > 0 /\ c.chain # Local /\ c.depth = 0 THEN [c EXCEPT !.depth = DefaultDepth] ELSE c

-----------------------------------------------------------------------------
(* Steps *)

\* the lists given by hand: one that is taken is the chain's, a list of the other kind or one
\* that is refused ends it
Hands(o, accepted) ==
  LET p == o.props[o.k]
      id == client.chains[o.chain].id
  IN  IF o.opt # "property" \/ p.prop \notin {"whiteList", "whiteListContract"} THEN byHand
      ELSE IF accepted /\ p.prop = "whiteList"
      THEN [x \in DOMAIN byHand \union {id} |-> IF x = id THEN p.list ELSE byHand[x]]
      ELSE Restrict(byHand, DOMAIN byHand \ {id})

Configure(options) ==
  /\ todo' = options
  /\ configured' = UnderWay
  /\ UNCHANGED <<client, byHand>>

ReadNext ==
  /\ todo # <<>>
  /\ LET r == Option(client, Head(todo))
     IN  /\ client' = r.client
         /\ configured' = r.is
         /\ todo' = IF r.is = UnderWay THEN r.items \o Tail(todo) ELSE <<>>
         /\ byHand' = Hands(Head(todo), r.is = UnderWay)

Finish ==
  /\ todo = <<>>
  /\ client' = Completed(client)
  /\ configured' = IF FindChain(client, client.chain) = 0 THEN "refused" ELSE "done"
  /\ UNCHANGED <<todo, byHand>>

RegisterChain(id, contract, wl) ==
  /\ client' = Registered(client, id, contract, wl)
  /\ byHand' = Restrict(byHand, DOMAIN byHand \ {id})
  /\ UNCHANGED <<todo, configured>>

AddNode(i, address, url) ==
  /\ Len(client.chains[i].nodes) < MaxNodes \/ FindNode(client.chains[i], address) # 0
  /\ client' = [client EXCEPT !.chains[i] = Added(@, address, url)]
  /\ UNCHANGED <<todo, configured, byHand>>

RemoveNode(i, address) ==
  /\ FindNode(client.chains[i], address) # 0
  /\ client' = [client EXCEPT !.chains[i] = Removed(@, FindNode(@, address))]
  /\ UNCHANGED <<todo, configured, byHand>>

ClearNodes(i) ==
  /\ client' = [client EXCEPT !.chains[i] = Cleared(@)]
  /\ UNCHANGED <<todo, configured, byHand>>

\* execute.c: a bad answer blacklists its node
Blacklist(i, k) ==
  /\ client' = [client EXCEPT !.chains[i].weights[k].blacklisted = TRUE]
  /\ UNCHANGED <<todo, configured, byHand>>

\* execute.c: a node announces a newer white list, of whatever kind this one is
AnnounceWhiteList(i) ==
  /\ client.chains[i].wl # None
  /\ client' = [client EXCEPT !.chains[i].wl.update = TRUE]
  /\ UNCHANGED <<todo, configured, byHand>>

\* nodelist.c: "zero-contract = manual whitelist, which will not be updated"
FetchWhiteList(i, list) ==
  LET wl == client.chains[i].wl
  IN  /\ wl # None
      /\ wl.update /\ wl.contract # None
      /\ client' = [client EXCEPT !.chains[i].wl = [@ EXCEPT !.list = list, !.update = FALSE]]
      /\ UNCHANGED <<todo, configured, byHand>>

\* blockheader.c add_verified, as far as the slots matter: the array is made when it is needed
VerifyHeader(number) ==
  LET i == FindChain(client, client.chain)
      old == client.chains[i].hashes
      made == IF old = None THEN [k \in 1 .. client.max |-> Unused] ELSE old
  IN  /\ i # 0
      /\ UNCHANGED <<todo, byHand>>
      /\ IF Len(made) < client.max \/ client.max = 0
         THEN configured' = Wild /\ UNCHANGED client
         ELSE /\ client' = [client EXCEPT !.chains[i].hashes = [made EXCEPT ![1] = number]]
              /\ UNCHANGED <<todo, configured>>
-----------------------------------------------------------------------------
ConfigInit ==
  /\ \E chains \in {Defaults} \union {<<Defaults[i]>> : i \in DOMAIN Defaults} : client = NewClient(chains)
  /\ todo = <<>>
  /\ configured = "done"
  /\ byHand = <<>>
  /\ configCalls = 0

Reading == configured = UnderWay /\ (ReadNext \/ Finish) /\ UNCHANGED configCalls

Called ==
  /\ configured \in {"done", "refused"} /\ configCalls < MaxCalls
  /\ configCalls' = configCalls + 1
  /\ \/ \E options \in Configs : Configure(options)
     \/ \E id \in ChainIds, contract \in Contracts, wl \in Contracts \union {None} : RegisterChain(id, contract, wl)
     \/ \E i \in DOMAIN client.chains :
          \/ \E address \in Addresses, url \in NodeUrls : AddNode(i, address, url)
          \/ \E address \in Addresses : RemoveNode(i, address)
          \/ ClearNodes(i)
          \/ \E k \in DOMAIN client.chains[i].nodes : Blacklist(i, k)
          \/ AnnounceWhiteList(i)
          \/ \E address \in Addresses : FetchWhiteList(i, <<address>>)
     \/ \E number \in Heights : VerifyHeader(number)

ConfigNext == Reading \/ Called

ConfigSpec == ConfigInit /\ [][ConfigNext]_configVars
-----------------------------------------------------------------------------
(* Properties *)

\* The client is a record of the shape in3_t has, with the limits inside their types.
ConfigTypeOK ==
  /\ configured \in {"done", "refused", UnderWay, Wild}
  /\ client.max \in Nat /\ client.signatures \in Nat /\ client.depth \in Nat
  /\ \A l \in DOMAIN LimitSizes : client.limits[l] \in 0 .. LimitSizes[l] - 1
  /\ \A i \in DOMAIN client.chains :
       LET ch == client.chains[i]
       IN  /\ Len(ch.weights) = Len(ch.nodes)
           /\ ch.wl # None => Range(ch.wl.list) \subseteq Addresses

\* However chains, node lists and single nodes were given, a chain appears once, has each
\* node once, and the place of a node in the weights is its place in the list: a node's
\* blacklisting never falls on another one.
NodesKeepTheirWeights ==
  /\ \A i, j \in DOMAIN client.chains : client.chains[i].id = client.chains[j].id => i = j
  /\ \A i \in DOMAIN client.chains :
       LET ch == client.chains[i]
       IN  /\ \A k, m \in DOMAIN ch.nodes : ch.nodes[k].address = ch.nodes[m].address => k = m
           /\ \A k \in DOMAIN ch.nodes : ch.weights[k].of = ch.nodes[k].address

\* A client that was configured without an error can send its requests: its chain is there,
\* and signatures are asked for a block the nodes have had time to agree on.
ConfiguredIsUsable ==
  configured = "done" =>
    /\ FindChain(client, client.chain) # 0
    /\ client.signatures > 0 => client.chain = Local \/ client.depth > 0

\* A white list given by hand is not replaced by one fetched from a contract, whatever kind of
\* list the chain had before and whatever the nodes announce.
ManualListsStay ==
  configured # Wild => \A id \in DOMAIN byHand : client.chains[FindChain(client, id)].wl.list = byHand[id]

\* In whatever order options, nodes and lists are given, also when some are refused: a node's
\* blacklisting never falls on another node, a white list given by hand stays, and a client
\* configured without an error can send its requests (in3_configure, in3_client_add_node).
ClientStaysUsable == ConfigTypeOK /\ NodesKeepTheirWeights /\ ConfiguredIsUsable /\ ManualListsStay
==============================================================================
