----------------------------- MODULE In3Client -----------------------------
(***************************************************************************)
(* The in3 client of in3-c (c/src/core/client): one request at a time is   *)
(* sent to nodes of the list, its responses are verified, and bad nodes    *)
(* are blacklisted; the list itself is updated by sub-requests.            *)
(*                                                                         *)
(* A request is a context.  A context may require another one, so contexts *)
(* form the chain ctxs: ctxs[i + 1] is ctxs[i]->required.  The client runs *)
(* in one thread; `stack` holds the calls of in3_send_ctx and              *)
(* in3_ctx_execute under way and `ret` what the last of them returned.     *)
(* Time is counted in hours, the time a node stays blacklisted.            *)
(***************************************************************************)
EXTENDS Integers, Sequences, SequencesExt, FiniteSets

CONSTANTS
  Nodes,          \* addresses of nodes
  Eligible,       \* the nodes with the deposit and props the client asks for
  Fresh,          \* the nodes registered less than 24 hours ago
  Registry,       \* Registry[v]: the list registered at block v; Registry[0] is built in
  WhiteLists,     \* WhiteLists[v]: the addresses of the white list at block v
  Headers,        \* the in3-sections of responses: [last, cur, white] block numbers
  Faults,         \* Faults[kind]: the bad answers a request of this kind may get
  MaxAttempts,    \* max_attempts
  MaxRetries,     \* the calls of in3_ctx_execute that in3_send_ctx makes, 10
  RequestCount,   \* request_count
  ReplaceLatest,  \* replace_latest_block
  MaxAux,         \* codes the verification of one request needs at most
  MaxTime, MaxRequests, MaxCrashes,   \* bounds of the model
  None            \* the null pointer

Kinds == {"rpc", "getCode", "in3_nodeList", "in3_whiteList"}
\* What may be wrong with an answer, and an answer that is what was asked for.
Qualities == {"good", "failed", "garbage", "refused", "errored", "wrong"}

ASSUME ConstantsAssumption ==
  /\ Eligible \subseteq Nodes /\ Fresh \subseteq Nodes
  /\ 0 \in DOMAIN Registry /\ DOMAIN Registry \subseteq Nat
  /\ Registry \in [DOMAIN Registry -> Seq(Nodes)]
  /\ DOMAIN WhiteLists \subseteq Nat \ {0}
  /\ WhiteLists \in [DOMAIN WhiteLists -> Seq(Nodes)]
  /\ Headers \subseteq [last : Nat, cur : Nat, white : Nat]
  /\ Faults \in [Kinds -> SUBSET (Qualities \ {"good"})]
  /\ MaxAttempts \in Nat \ {0} /\ MaxRetries \in Nat /\ RequestCount \in Nat \ {0}
  /\ ReplaceLatest \in Nat /\ MaxAux \in Nat
  /\ MaxTime \in Nat /\ MaxRequests \in Nat /\ MaxCrashes \in Nat
  /\ None \notin Nodes

Blocks == DOMAIN Registry
Later == MaxTime + 1          \* a time the model does not reach

VARIABLES
  now,        \* in3_time(NULL)
  version,    \* the list in chain->nodelist is Registry[version]
  lastBlock,  \* chain->last_block
  boot,       \* the nodes with ATTR_BOOT_NODE
  until,      \* weights[].blacklisted_until
  upd8,       \* chain->nodelist_upd8_params: None or [node, exp, at]
  wl,         \* chain->whitelist: None or [needs, last, addresses]
  flagged,    \* the nodes with ATTR_WHITELISTED
  ctxs, stack, ret,
  cache,      \* the storage handler's items: the list and the white list, or None
  requests, crashes

vars == <<now, version, lastBlock, boot, until, upd8, wl, flagged, ctxs, stack, ret,
          cache, requests, crashes>>
listVars == <<version, lastBlock, boot, until, upd8, wl, flagged>>

Codes == {"OK", "WAITING", "EIGNORE", "ERROR"}    \* in3_ret_t, the other errors as one
nodelist == Registry[version]
Listed == ToSet(nodelist)

-----------------------------------------------------------------------------
\* Contexts

\* dataNode: the only node to ask; code: the code to get; needs: the codes still to get
NewCtx(kind, dataNode, code, needs) ==
  [kind |-> kind, dataNode |-> dataNode, code |-> code, needs |-> needs, attempt |-> 0, nodes |-> <<>>,
   raw |-> <<>>, response |-> None, error |-> FALSE, state |-> "WAITING"]

\* ctx_add_required: the new context goes between the parent and what it required.
AddRequired(i, c) == SubSeq(ctxs, 1, i) \o <<c>> \o SubSeq(ctxs, i + 1, Len(ctxs))

\* Mutant of RemoveRequired: the requiring context is freed too.
RemoveRequiring(k) == SubSeq(ctxs, 1, k - 2)

\* ctx_remove_required: a context is freed together with all it requires.
RemoveRequired(k) == SubSeq(ctxs, 1, k - 1)

\* ctx_find_required: the first context of the chain with this method, or 0.
FindRequired(i, kind) ==
  LET ks == {k \in i + 1 .. Len(ctxs) : ctxs[k].kind = kind}
  IN  IF ks = {} THEN 0 ELSE CHOOSE k \in ks : \A j \in ks : k <= j

\* in3_ctx_state
Failed(i) == \E j \in i .. Len(ctxs) : ctxs[j].error
Succeeded(i) == \A j \in i .. Len(ctxs) :
  ~ctxs[j].error /\ ctxs[j].raw # <<>> /\ ctxs[j].response # None

HasResult(r) == r.quality = "good"

\* ctx_set_error_intern: WAITING is not an error.
SetError(cs, i, code) ==
  IF code = "WAITING" THEN cs ELSE [cs EXCEPT ![i].error = TRUE, ![i].state = code]

\* response_free
Clear(c) == [c EXCEPT !.nodes = <<>>, !.raw = <<>>, !.response = None]

-----------------------------------------------------------------------------
\* The node list

\* nodelist_upd8_params: who announced a list, its block, and when to ask for it.
Updates == [node : Nodes \cup {None}, exp : Nat, at : 0 .. Later]

\* initChain asks for a first update, from any node, and for a white list.
FirstUpdate == [node |-> None, exp |-> 0, at |-> 0]
WhiteListings == [needs : BOOLEAN, last : {0} \cup DOMAIN WhiteLists, addresses : Seq(Nodes)]
NoAddresses == [needs |-> TRUE, last |-> 0, addresses |-> <<>>]

\* blacklist_node_addr
BlacklistAddr(u, n) == IF n \in Listed THEN [u EXCEPT ![n] = now + 1] ELSE u

\* The end of an update that brought nothing (ctx_handle_failable, update_nodelist):
\* the announcing node is blacklisted unless this was the first update.
Dropped(u) == IF upd8 # None /\ upd8.exp # 0 THEN BlacklistAddr(u, upd8.node) ELSE u

\* nodelist_exp_last_block_neq: the list is not the one that was announced.
Checked(u, v) == IF upd8 # None /\ upd8.exp # v THEN BlacklistAddr(u, upd8.node) ELSE u

\* Mutant of FilledWeights: a new list starts with new weights.
NewWeights(u, v) == [n \in Nodes |-> 0]

\* fill_chain keeps the weights of known addresses and holds fresh nodes back.
FilledWeights(u, v) ==
  [n \in Nodes |-> IF n \notin ToSet(Registry[v]) THEN 0
                   ELSE IF n \in Fresh THEN Later
                   ELSE IF n \in Listed THEN u[n] ELSE 0]

\* in3_client_run_chain_whitelisting.  The loop over the serialized addresses counts
\* addresses and steps by 20, and memcmp reads the bytes_t record an entry of the list
\* points to instead of the bytes of its address.
BytesRecord(n) == <<"bytes_t", n>>
Whitelisting(list, addresses) ==
  {n \in ToSet(list) : \E k \in 1 .. Len(addresses) :
     20 * (k - 1) < Len(addresses) /\ <<"address", addresses[k]>> = BytesRecord(n)}

\* Mutant of Usable: the blacklist is not looked at.
UsableOrNot(u, dataNode) == {n \in Listed : dataNode \in {None, n}}

\* in3_node_list_fill_weight: the nodes a request may go to.
Usable(u, dataNode) ==
  {n \in Listed : /\ dataNode \in {None, n}
                  /\ u[n] <= now
                  /\ n \in boot \/ (n \in Eligible /\ (wl = None \/ n \in flagged))}

\* When nothing is usable and most nodes are blacklisted the marks are removed.
Blacklisted == {n \in Listed : until[n] > now}
Forgiven(dataNode) ==
  IF Usable(until, dataNode) = {} /\ Cardinality(Blacklisted) > Len(nodelist) \div 2
  THEN [n \in Nodes |-> IF n \in Listed THEN 0 ELSE until[n]] ELSE until

\* in3_node_list_pick_nodes: all of them in the list's order if there are few, else some,
\* by weight; at least the first try finds one.
Position(n) == CHOOSE i \in DOMAIN nodelist : nodelist[i] = n
AllInOrder(s, usable) ==
  /\ Len(s) = Cardinality(usable)
  /\ \A i, j \in DOMAIN s : i < j => Position(s[i]) < Position(s[j])
Picks(usable) ==
  {s \in UNION {[1 .. k -> usable] : k \in 1 .. RequestCount} :
     /\ IsInjective(s)
     /\ Cardinality(usable) <= RequestCount => AllInOrder(s, usable)}

\* update_waittime, in hours, of which WAIT_TIME_CAP allows one
Wait(h) == IF h.last > h.cur \/ h.cur - h.last >= ReplaceLatest THEN 0 ELSE 1

\* check_autoupdate: the params after an accepted response of node n with header h.
Announced(n, h) ==
  IF h.last <= h.cur /\ h.last > lastBlock
  THEN [node |-> n, exp |-> h.last, at |-> now + Wait(h)] ELSE upd8

\* in3_cache_store_nodelist
Stored(v, last, u) == [cache EXCEPT !.list = [version |-> v, last |-> last, until |-> u]]

\* in3_cache_store_whitelist and in3_cache_update_whitelist
StoredWhite(list) == [cache EXCEPT !.white = list.last]
CachedWhite ==
  IF cache.white = None THEN NoAddresses
  ELSE [NoAddresses EXCEPT !.last = cache.white, !.addresses = WhiteLists[cache.white]]

-----------------------------------------------------------------------------
\* Calls

Frame(fn, k) == [fn |-> fn, ctx |-> k, at |-> "start", n |-> 0]
Top == stack[Len(stack)]
this == Top.ctx
Ctx == ctxs[this]
In(fn, at) == stack # <<>> /\ Top.fn = fn /\ Top.at = at

Goto(at) == stack' = [stack EXCEPT ![Len(stack)].at = at] /\ UNCHANGED ret
Call(at, fn, k) ==
  stack' = Append([stack EXCEPT ![Len(stack)].at = at], Frame(fn, k)) /\ UNCHANGED ret
Return(code) == stack' = Front(stack) /\ ret' = code
Fail(code) == Return(code) /\ ctxs' = SetError(ctxs, this, code)

idle == ctxs = <<>>
KeepClock == UNCHANGED <<now, requests, crashes>>
KeepList == UNCHANGED listVars /\ UNCHANGED cache

-----------------------------------------------------------------------------
\* in3_send_ctx

SendStart ==
  /\ In("send", "start")
  /\ Call("executed", "execute", this)
  /\ UNCHANGED ctxs /\ KeepList /\ KeepClock

SendExecuted ==
  /\ In("send", "executed")
  /\ \/ ret # "WAITING" /\ Return(ret) /\ UNCHANGED ctxs
     \/ ret = "WAITING" /\ Top.n = MaxRetries /\ Fail("ERROR")
     \/ /\ ret = "WAITING" /\ Top.n < MaxRetries
        /\ stack' = [stack EXCEPT ![Len(stack)].n = @ + 1, ![Len(stack)].at = "required"]
        /\ UNCHANGED <<ret, ctxs>>
  /\ KeepList /\ KeepClock

\* Mutant of RequiredPending: the state of the required context is not looked at.
RequiredAtAll == this < Len(ctxs)

RequiredPending == this < Len(ctxs) /\ ~Succeeded(this + 1)

\* A required context that has no result yet is sent first.
SendRequired ==
  /\ In("send", "required") /\ RequiredPending
  /\ Call("sub", "send", this + 1)
  /\ UNCHANGED ctxs /\ KeepList /\ KeepClock

\* It ended: ctx_handle_failable if its failure may be ignored, else this one fails too.
SendSub ==
  /\ In("send", "sub")
  /\ \/ /\ ret = "EIGNORE"
        /\ ctxs' = RemoveRequired(this + 1)
        /\ until' = Dropped(until) /\ upd8' = None
        /\ Call("rechecked", "execute", this)
        /\ UNCHANGED <<version, lastBlock, boot, wl, flagged, cache>>
     \/ ret = "OK" /\ Call("rechecked", "execute", this) /\ UNCHANGED ctxs /\ KeepList
     \/ ret = "ERROR" /\ Fail(ret) /\ KeepList
  /\ KeepClock

SendRechecked ==
  /\ In("send", "rechecked")
  /\ IF ret = "WAITING" THEN Goto("required") ELSE Return(ret)
  /\ UNCHANGED ctxs /\ KeepList /\ KeepClock

\* The answers a context may get.  A list comes with its block and may have a bad entry.
NoHeader == [last |-> 0, cur |-> 0, white |-> 0]
Answer(qualities, headers, lists) ==
  [quality : qualities, header : headers, list : lists]
Lists(kind) ==
  CASE kind = "in3_nodeList" -> [block : Blocks \ {0}, ok : BOOLEAN]
    [] kind = "in3_whiteList" -> [block : DOMAIN WhiteLists, ok : {TRUE}]
    [] OTHER -> {None}
Answers(kind) == Answer({"good"}, Headers, Lists(kind))
                 \cup Answer(Faults[kind] \cap {"refused", "errored"}, Headers, {None})
                 \cup Answer(Faults[kind] \ {"refused", "errored"}, {NoHeader}, {None})

\* in3_create_request, the transport and request_free: every node asked gets an answer,
\* be it a timeout, and hours may pass.  A context that waits with a response waits for
\* another one, so there is none here.
Transport ==
  /\ In("send", "required") /\ ~RequiredPending /\ Ctx.raw = <<>>
  /\ \E raw \in [1 .. Len(Ctx.nodes) -> Answers(Ctx.kind)] :
       ctxs' = [ctxs EXCEPT ![this].raw = raw]
  /\ now' \in now .. (IF now < MaxTime THEN now + 1 ELSE now)
  /\ Goto("start")
  /\ KeepList /\ UNCHANGED <<requests, crashes>>

\* The null pointer is none of the objects a pointer leads to.
ASSUME NullAssumption ==
  /\ None \notin Updates /\ None \notin WhiteListings
  /\ \A kind \in Kinds : None \notin Answers(kind)
  /\ None \notin [version : Blocks, last : Blocks, until : [Nodes -> 0 .. Later]]
  /\ None \notin DOMAIN WhiteLists

-----------------------------------------------------------------------------
\* in3_ctx_execute

ExecuteStart ==
  /\ In("execute", "start")
  /\ \/ /\ Ctx.error
        /\ Return(IF Ctx.state \in {"OK", "WAITING"} THEN "ERROR" ELSE Ctx.state)
     \/ ~Ctx.error /\ Ctx.response # None /\ Ctx.state = "OK" /\ Return("OK")
     \/ /\ ~Ctx.error /\ ~(Ctx.response # None /\ Ctx.state = "OK")
        /\ IF this < Len(ctxs) THEN Call("required", "execute", this + 1) ELSE Goto("work")
  /\ UNCHANGED ctxs /\ KeepList /\ KeepClock

ExecuteRequired ==
  /\ In("execute", "required")
  /\ IF ret = "OK" THEN Goto("work") ELSE Return(ret)
  /\ UNCHANGED ctxs /\ KeepList /\ KeepClock

\* With nodes and no response the context waits; with a response it looks for a valid one.
ExecuteResponse ==
  /\ In("execute", "work")
  /\ \/ Ctx.nodes # <<>> /\ Ctx.raw = <<>> /\ Return("WAITING")
     \/ /\ Ctx.raw # <<>>
        /\ stack' = [stack EXCEPT ![Len(stack)].at = "verify", ![Len(stack)].n = 1]
        /\ UNCHANGED ret
  /\ UNCHANGED ctxs /\ KeepList /\ KeepClock

-----------------------------------------------------------------------------
\* in3_node_list_get: the list is updated before nodes are picked.

Postponed == upd8 # None /\ upd8.at > now
ListRequest == FindRequired(this, "in3_nodeList")
UpdateDue == /\ upd8 # None \/ ListRequest # 0
             /\ ~Postponed /\ Ctx.kind # "in3_nodeList"
Listing == In("execute", "work") /\ Ctx.nodes = <<>> /\ Ctx.raw = <<>>

NoUpdate ==
  /\ Listing /\ ~UpdateDue
  /\ Goto("whitelist")
  /\ UNCHANGED ctxs /\ KeepList /\ KeepClock

\* update_nodelist without a request: one is added, to the announcing node if there is one.
RequestList ==
  /\ Listing /\ UpdateDue /\ ListRequest = 0
  /\ ctxs' = AddRequired(this, NewCtx("in3_nodeList",
               IF upd8 # None /\ upd8.exp # 0 THEN upd8.node ELSE None, 0, 0))
  /\ Call("listed", "execute", this + 1)
  /\ KeepList /\ KeepClock

ListRequested ==
  /\ In("execute", "listed")
  /\ IF ret = "OK" THEN Goto("whitelist") /\ UNCHANGED ctxs ELSE Fail(ret)
  /\ KeepList /\ KeepClock

\* update_nodelist with a request that has an error or no result.  One that is pending
\* does not get here: in3_ctx_execute runs what is required first.
ListFailed ==
  /\ Listing /\ UpdateDue /\ ListRequest # 0
  /\ Failed(ListRequest) \/ (Succeeded(ListRequest) /\ ~HasResult(ctxs[ListRequest].response))
  /\ until' = Dropped(until) /\ upd8' = None
  /\ Goto("whitelist")
  /\ UNCHANGED <<version, lastBlock, boot, wl, flagged, cache, ctxs>> /\ KeepClock

\* update_nodelist with a result.  fill_chain takes the block number before it looks at
\* the nodes: a list with a bad entry fails the parent and still moves last_block.
ListArrived ==
  /\ Listing /\ UpdateDue /\ ListRequest # 0
  /\ Succeeded(ListRequest) /\ HasResult(ctxs[ListRequest].response)
  /\ LET list == ctxs[ListRequest].response.list
         blamed == Checked(until, list.block)
         newer == list.block > lastBlock
     IN /\ upd8' = None
        /\ lastBlock' = IF newer THEN list.block ELSE lastBlock
        /\ IF newer /\ list.ok
           THEN /\ version' = list.block /\ boot' = {}
                /\ until' = FilledWeights(blamed, list.block)
           ELSE until' = blamed /\ UNCHANGED <<version, boot>>
        /\ IF newer /\ ~list.ok
           THEN /\ Return("ERROR")
                /\ ctxs' = SetError(SetError(ctxs, ListRequest, "ERROR"), this, "ERROR")
                /\ UNCHANGED <<flagged, cache>>
           ELSE /\ Goto("whitelist")
                /\ ctxs' = RemoveRequired(ListRequest)
                /\ flagged' = IF wl = None THEN flagged
                              ELSE Whitelisting(Registry[version'], wl.addresses)
                /\ cache' = Stored(version', lastBlock', until')
        /\ UNCHANGED wl
  /\ KeepClock

-----------------------------------------------------------------------------
\* in3_node_list_get: then the white list.

WhiteRequest == FindRequired(this, "in3_whiteList")
WhiteDue == wl # None /\ (wl.needs \/ WhiteRequest # 0)
AtWhitelist == In("execute", "whitelist")

NoWhitelisting ==
  /\ AtWhitelist /\ ~WhiteDue
  /\ Goto("pick")
  /\ UNCHANGED ctxs /\ KeepList /\ KeepClock

RequestWhitelist ==
  /\ AtWhitelist /\ WhiteDue /\ WhiteRequest = 0
  /\ wl' = [wl EXCEPT !.needs = FALSE]
  /\ ctxs' = AddRequired(this, NewCtx("in3_whiteList", None, 0, 0))
  /\ Call("whitelisted", "execute", this + 1)
  /\ UNCHANGED <<version, lastBlock, boot, until, upd8, flagged, cache>> /\ KeepClock

WhitelistRequested ==
  /\ In("execute", "whitelisted")
  /\ IF ret = "OK" THEN Goto("pick") /\ UNCHANGED ctxs ELSE Fail(ret)
  /\ KeepList /\ KeepClock

\* update_whitelist and in3_client_fill_chain_whitelist
WhitelistArrived ==
  /\ AtWhitelist /\ WhiteDue /\ WhiteRequest # 0
  /\ \/ /\ \/ Failed(WhiteRequest)
           \/ Succeeded(WhiteRequest) /\ ~HasResult(ctxs[WhiteRequest].response)
        /\ Fail("ERROR") /\ wl' = [wl EXCEPT !.needs = FALSE] /\ UNCHANGED <<flagged, cache>>
     \/ /\ Succeeded(WhiteRequest) /\ HasResult(ctxs[WhiteRequest].response)
        /\ LET list == ctxs[WhiteRequest].response.list
               newer == list.block > wl.last
           IN /\ wl' = [needs |-> FALSE,
                        last |-> IF newer THEN list.block ELSE wl.last,
                        addresses |-> IF newer THEN WhiteLists[list.block] ELSE wl.addresses]
              /\ cache' = StoredWhite(wl')
        /\ flagged' = Whitelisting(nodelist, wl'.addresses)
        /\ ctxs' = RemoveRequired(WhiteRequest)
        /\ Goto("pick")
  /\ UNCHANGED <<version, lastBlock, boot, until, upd8>> /\ KeepClock

\* in3_node_list_pick_nodes and configure_request
PickNodes ==
  /\ In("execute", "pick")
  /\ until' = Forgiven(Ctx.dataNode)
  /\ LET usable == Usable(until', Ctx.dataNode)
     IN  IF usable = {} THEN Fail("ERROR")
         ELSE \E s \in Picks(usable) :
                /\ ctxs' = [ctxs EXCEPT ![this].nodes =
                     [k \in DOMAIN s |-> [addr |-> s[k], of |-> version, ok |-> TRUE]]]
                /\ Return("WAITING")
  /\ UNCHANGED <<version, lastBlock, boot, upd8, wl, flagged, cache>> /\ KeepClock

-----------------------------------------------------------------------------
\* find_valid_result: the responses are tried in the order of the nodes.

Node == Ctx.nodes[Top.n]
Response == Ctx.raw[Top.n]
Verifying == In("execute", "verify") /\ Top.n <= Len(Ctx.nodes)
\* Mutant of LastAttempt: off by one.
AttemptBeforeLast == Ctx.attempt >= MaxAttempts - 2
LastAttempt == Ctx.attempt >= MaxAttempts - 1
Parsed(c) == [c EXCEPT !.response = Response]

\* blacklist_node.  A match keeps a pointer into the weights of the list it was picked
\* from; once that list has been replaced the write goes to freed memory.
Blacklist == IF Node.ok /\ Node.of = version /\ Node.addr \in Listed
             THEN [until EXCEPT ![Node.addr] = now + 1] ELSE until
Reject(c) == [c EXCEPT !.nodes[Top.n].ok = FALSE]
NextNode == stack' = [stack EXCEPT ![Len(stack)].n = @ + 1, ![Len(stack)].at = "verify"]
            /\ UNCHANGED ret
KeepAllButUntil == UNCHANGED <<version, lastBlock, boot, upd8, wl, flagged>>

\* The transport failed, or the response cannot be parsed, which is reported as an error.
RejectUnparsed ==
  /\ Verifying /\ Response.quality \in {"failed", "garbage"}
  /\ ctxs' = [ctxs EXCEPT ![this] =
                IF Response.quality = "failed" THEN Reject(Ctx)
                ELSE [Reject(Ctx) EXCEPT !.response = None, !.error = TRUE, !.state = "ERROR"]]
  /\ until' = Blacklist
  /\ NextNode
  /\ KeepAllButUntil /\ UNCHANGED cache /\ KeepClock

\* The node reports an error and it is not the last attempt: another node is tried, and
\* this one is blacklisted only if the message starts with "Error:".
RejectError ==
  /\ Verifying /\ Response.quality \in {"refused", "errored"} /\ ~LastAttempt
  /\ ctxs' = [ctxs EXCEPT ![this] = [Reject(Parsed(Ctx)) EXCEPT !.state = "ERROR"]]
  /\ until' = IF Response.quality = "errored" THEN Blacklist ELSE until
  /\ NextNode
  /\ KeepAllButUntil /\ UNCHANGED cache /\ KeepClock

\* The verifier refuses the proof.
RejectWrong ==
  /\ Verifying /\ Response.quality = "wrong"
  /\ ctxs' = [ctxs EXCEPT ![this] =
                [Reject(Parsed(Ctx)) EXCEPT !.error = TRUE, !.state = "ERROR"]]
  /\ until' = Blacklist
  /\ NextNode
  /\ KeepAllButUntil /\ UNCHANGED cache /\ KeepClock

\* The verifier needs the code of a contract (in3_get_code): it asks for it and waits, or
\* takes it from the finished request for it (find_pending_code_request).
CodeRequest ==
  LET ks == {k \in this + 1 .. Len(ctxs) : ctxs[k].kind = "getCode" /\ ctxs[k].code = Ctx.needs}
  IN  IF ks = {} THEN 0 ELSE CHOOSE k \in ks : \A j \in ks : k <= j
NeedsCode == Verifying /\ Response.quality = "good" /\ Ctx.needs > 0

RequestCode ==
  /\ NeedsCode /\ CodeRequest = 0
  /\ ctxs' = [AddRequired(this, NewCtx("getCode", None, Ctx.needs, 0)) EXCEPT ![this] = Parsed(Ctx)]
  /\ Call("verifying", "execute", this + 1)
  /\ KeepList /\ KeepClock

CodeRejected == [Reject(Parsed(Ctx)) EXCEPT !.error = TRUE, !.state = "ERROR"]

CodeRequested ==
  /\ In("execute", "verifying")
  /\ IF ret = "WAITING"
     THEN Return(ret) /\ UNCHANGED <<until>>
          /\ ctxs' = [ctxs EXCEPT ![this].state = "WAITING"]
          /\ cache' = Stored(version, lastBlock, until)
     ELSE NextNode /\ ctxs' = [ctxs EXCEPT ![this] = CodeRejected] /\ until' = Blacklist
          /\ UNCHANGED cache
  /\ KeepAllButUntil /\ KeepClock

\* A code that was got stays in the context's own cache (in3_cache_add_entry), so it is
\* not needed again when its request is freed or the verification is repeated.
TakeCode ==
  /\ NeedsCode /\ CodeRequest # 0
  /\ \/ /\ Succeeded(CodeRequest) /\ HasResult(ctxs[CodeRequest].response)
        /\ ctxs' = [ctxs EXCEPT ![this].needs = @ - 1]
        /\ UNCHANGED <<stack, ret, until>>
     \/ /\ Failed(CodeRequest) \/ (Succeeded(CodeRequest) /\ ~HasResult(ctxs[CodeRequest].response))
        /\ ctxs' = [ctxs EXCEPT ![this] = CodeRejected]
        /\ until' = Blacklist
        /\ NextNode
  /\ KeepAllButUntil /\ UNCHANGED cache /\ KeepClock

\* The response is accepted, an error response too on the last attempt.  The node's name
\* for check_autoupdate is read through the match: after a replaced list, from freed memory.
Accept ==
  /\ Verifying
  /\ \/ Response.quality = "good" /\ Ctx.needs = 0
     \/ Response.quality \in {"refused", "errored"} /\ LastAttempt
  /\ ctxs' = [ctxs EXCEPT ![this] = [Parsed(Ctx) EXCEPT !.state = "OK"]]
  /\ IF Node.ok
     THEN /\ \E n \in IF Node.of = version THEN {Node.addr} ELSE Nodes :
               upd8' = Announced(n, Response.header)
          /\ wl' = IF wl # None /\ Response.header.white > wl.last
                   THEN [wl EXCEPT !.needs = TRUE] ELSE wl
          /\ cache' = Stored(version, lastBlock, until)
          /\ Return("OK")
     ELSE NextNode /\ UNCHANGED <<upd8, wl, cache>>
  /\ UNCHANGED <<version, lastBlock, boot, until, flagged>> /\ KeepClock

\* No valid response: another attempt, or the end.  Only in3_nodeList may fail, and only
\* if an error has been set.
NoValidResult ==
  /\ In("execute", "verify") /\ Top.n > Len(Ctx.nodes)
  /\ cache' = Stored(version, lastBlock, until)
  /\ LET next == [Clear(Ctx) EXCEPT !.attempt = @ + 1]
         ignored == Ctx.kind = "in3_nodeList"
     IN  IF next.attempt < MaxAttempts
         THEN ctxs' = [ctxs EXCEPT ![this] = [next EXCEPT !.error = FALSE]] /\ Goto("start")
         ELSE /\ ctxs' = [ctxs EXCEPT ![this] = [next EXCEPT !.error = TRUE,
                !.state = IF ~Ctx.error THEN "ERROR" ELSE IF ignored THEN "EIGNORE" ELSE @]]
              /\ Return(IF ignored /\ Ctx.error THEN "EIGNORE" ELSE "ERROR")
  /\ UNCHANGED listVars /\ KeepClock

-----------------------------------------------------------------------------
\* in3_client_rpc_ctx_raw: a request is parsed, sent and, at the end, freed.  To bound the
\* model, requests that need code are not combined with a white list.
Submit ==
  /\ idle /\ requests < MaxRequests
  /\ requests' = requests + 1
  /\ \E needs \in 0 .. (IF wl = None THEN MaxAux ELSE 0) : ctxs' = <<NewCtx("rpc", None, 0, needs)>>
  /\ stack' = <<Frame("send", 1)>> /\ ret' = "OK"
  /\ KeepList /\ UNCHANGED <<now, crashes>>

\* ctx_rpc hands out the result, the response's error or the context's error.
Finish ==
  /\ ~idle /\ stack = <<>>
  /\ ctxs' = <<>> /\ ret' = "OK"
  /\ UNCHANGED stack /\ KeepList /\ KeepClock

TimePasses ==
  /\ idle /\ now < MaxTime /\ now' = now + 1
  /\ UNCHANGED <<ctxs, stack, ret, requests, crashes>> /\ KeepList

\* The process ends and starts again: initChain, then in3_cache_init.  A cached list has
\* no boot nodes and is not updated before it is used.
Restart ==
  /\ crashes < MaxCrashes /\ crashes' = crashes + 1
  /\ ctxs' = <<>> /\ stack' = <<>> /\ ret' = "OK"
  /\ IF cache.list = None
     THEN /\ version' = 0 /\ lastBlock' = 0 /\ boot' = ToSet(Registry[0])
          /\ until' = [n \in Nodes |-> 0]
          /\ upd8' = FirstUpdate
     ELSE /\ version' = cache.list.version /\ lastBlock' = cache.list.last /\ boot' = {}
          /\ until' = cache.list.until /\ upd8' = None
  /\ wl' = IF wl = None THEN None ELSE CachedWhite
  /\ flagged' = IF wl = None THEN {} ELSE Whitelisting(Registry[version'], wl'.addresses)
  /\ UNCHANGED <<now, cache, requests>>

-----------------------------------------------------------------------------
\* initChain and initNode: the built-in nodes, an update asked for, and a white list if a
\* contract for it is configured.
Init ==
  /\ now = 0 /\ version = 0 /\ lastBlock = 0
  /\ boot = ToSet(Registry[0])
  /\ until = [n \in Nodes |-> 0]
  /\ upd8 = FirstUpdate
  /\ wl \in {None} \cup (IF WhiteLists = <<>> THEN {}
                         ELSE {NoAddresses})
  /\ flagged = {}
  /\ ctxs = <<>> /\ stack = <<>> /\ ret = "OK"
  /\ cache = [list |-> None, white |-> None] /\ requests = 0 /\ crashes = 0

Send == SendStart \/ SendExecuted \/ SendRequired \/ SendSub \/ SendRechecked
        \/ Transport
Execute == ExecuteStart \/ ExecuteRequired \/ ExecuteResponse
UpdateList == NoUpdate \/ RequestList \/ ListRequested \/ ListFailed \/ ListArrived
UpdateWhitelist == NoWhitelisting \/ RequestWhitelist \/ WhitelistRequested
                   \/ WhitelistArrived
FindValidResult == RejectUnparsed \/ RejectError \/ RejectWrong \/ RequestCode
                   \/ CodeRequested \/ TakeCode \/ Accept \/ NoValidResult
Run == Send \/ Execute \/ UpdateList \/ UpdateWhitelist \/ PickNodes \/ FindValidResult
       \/ Finish
Next == Submit \/ Run \/ TimePasses \/ Restart

Spec == Init /\ [][Next]_vars
\* One thread runs a request to its end, and the transport answers or times out.
FairSpec == Spec /\ WF_vars(Run)
-----------------------------------------------------------------------------
\* The variables have the shape of in3_t and in3_ctx_t, and a call never works on a context that
\* was freed with the one that required it (ctx_remove_required frees the rest of the chain).
TypeOK ==
  /\ \A k \in DOMAIN stack : stack[k].ctx \in DOMAIN ctxs
  /\ now \in 0 .. MaxTime /\ version \in Blocks /\ lastBlock \in Blocks
  /\ boot \subseteq Listed /\ flagged \subseteq Nodes
  /\ until \in [Nodes -> 0 .. Later]
  /\ upd8 \in {None} \cup Updates
  /\ wl \in {None} \cup WhiteListings
  /\ ret \in Codes
  /\ \A k \in DOMAIN ctxs : /\ ctxs[k].kind \in Kinds /\ ctxs[k].state \in Codes
                           /\ ctxs[k].attempt \in 0 .. MaxAttempts

\* A request only goes to nodes of the current list that are not blacklisted, however many
\* updates ran between the choice of the nodes and the sending (in3_create_request reads
\* the URL through a pointer into the list).
AskedNodesAreUsable ==
  \A k \in DOMAIN ctxs : ctxs[k].raw = <<>> =>
    \A m \in ToSet(ctxs[k].nodes) :
      m.of = version /\ m.addr \in Listed /\ until[m.addr] <= now

\* A request that succeeds has a response its verifier accepted, with every code that the
\* verification needed, or an error message of the node on the last attempt.
SuccessIsVerified ==
  (ctxs # <<>> /\ stack = <<>> /\ ret = "OK") =>
    LET c == ctxs[1]
    IN  /\ c.state = "OK"
        /\ \/ c.response.quality = "good" /\ c.needs = 0
           \/ c.response.quality \in {"refused", "errored"} /\ c.attempt = MaxAttempts - 1

Running == crashes' = crashes

\* An announced update is not dropped: the list reaches the announced block, or the node
\* that announced it, if it was listed and still is, ends blacklisted (blacklist_node_addr
\* finds no other node).
\* A new list does not clear a node: a node of both lists that was blacklisted stays so.
UpdatesAreSettled ==
  [][Running =>
       /\ (upd8 # None /\ upd8' = None /\ upd8.exp # 0) =>
            \/ lastBlock' = upd8.exp
            \/ upd8.node \notin Listed \cap ToSet(nodelist')
            \/ until'[upd8.node] > now
       /\ version' # version =>
            \A n \in Listed \cap ToSet(nodelist') : until[n] > now => until'[n] > now]_vars

\* Every request ends, with a result or with an error.
RequestsEnd == (ctxs # <<>>) ~> (ctxs = <<>>)
=============================================================================
