---------------------------- MODULE WebSocketRpc ----------------------------
(***************************************************************************)
(* JSON-RPC over one web socket: WebSocketRpcSyncer on top of              *)
(* NodeWebSocket.  Four kinds of threads meet in it and nothing locks:     *)
(*   - callers of single(), each on its own io thread: take an id, write   *)
(*     to the socket, and only then register the handler;                  *)
(*   - the socket's event stream (opened, closed or failed);               *)
(*   - the socket's response stream;                                       *)
(*   - the application's start() and stop().                               *)
(* The transport (scarlet, okhttp) and the node are external.              *)
(***************************************************************************)
EXTENDS Integers, Sequences, FiniteSets

CONSTANTS
  Requests,        \* calls of single() by the kit and the application
  Subscriptions,   \* eth_subscribe calls, one for each connection opened
  NoCall,
  MaxStarts,       \* bound: calls of start()
  MaxEvents        \* bound: transport events waiting to be delivered

Calls == Requests \cup Subscriptions

ASSUME CallsAssumption == /\ Requests \cap Subscriptions = {}
                          /\ {NoCall, "none", "error"} \cap Calls = {}

VARIABLES
  state,                \* WebSocketRpcSyncer.state
  currentRpcId,         \* the last id given to a request
  rpcHandlers,          \* registered handlers, [id, call] records
  subscriptionHandlers, \* subscriptions whose notifications are handled
  socketState,          \* NodeWebSocket.state
  observing,            \* the streams' observation: "never", "on", "cleared"
  callPc,               \* where each call's thread is in send()
  rpcId,                \* the id each call was given
  eventPc,              \* the event thread: "idle", "opened", "subscribing", "sweeping"
  sweep,                \* ids the traversal of rpcHandlers must still visit
  responsePc,           \* the handler removed and not yet run, by which response
  mainPc,               \* the application's thread: "idle", "starting", "stopping"
  starts,               \* calls of start() so far
  link,                 \* transport: "down" or "up"
  connections,          \* connections opened so far
  wire,                 \* requests the node has and has not answered
  events,               \* event stream not yet delivered
  replies,              \* response stream not yet delivered
  outcome,              \* what each call's Single ended with
  served,               \* history: calls the node answered
  late,                 \* history: calls registered during or after the sweep
  dropped               \* history: calls whose response found no handler

syncerVars == <<state, currentRpcId, rpcHandlers, subscriptionHandlers>>
socketVars == <<socketState, observing>>
callVars   == <<callPc, rpcId>>
threadVars == <<eventPc, sweep, responsePc, mainPc, starts>>
netVars    == <<link, connections, wire, events, replies>>
history    == <<served, late, dropped>>
vars == <<syncerVars, socketVars, callVars, threadVars, netVars, outcome, history>>

NoReply == [to |-> NoCall, by |-> NoCall]

\* Types: the syncer, the socket, their threads and the messages under way.
TypeOK ==
  /\ state \in {"NotReady", "Preparing", "Ready"}
  /\ currentRpcId \in Nat
  /\ rpcHandlers \subseteq [id : Nat, call : Calls]
  /\ subscriptionHandlers \subseteq Subscriptions
  /\ socketState \in {"Disconnected", "Connecting", "Connected"}
  /\ observing \in {"never", "on", "cleared"}
  /\ callPc \in [Calls -> {"idle", "allocated", "sent", "registered", "failed"}]
  /\ rpcId \in [Calls -> Nat]
  /\ eventPc \in {"idle", "opened", "subscribing", "sweeping"}
  /\ sweep \subseteq Nat
  /\ responsePc \in [to : Calls, by : Calls] \cup {NoReply}
  /\ mainPc \in {"idle", "starting", "stopping"}
  /\ starts \in Nat
  /\ link \in {"down", "up"}
  /\ connections \in Nat
  /\ wire \subseteq [id : Nat, call : Calls]
  /\ events \in Seq({"Opened", "Closed"})
  /\ replies \subseteq [id : Nat, call : Calls]
  /\ outcome \in [Calls -> {"none", "error"} \cup Calls]
  /\ served \subseteq Calls
  /\ late \subseteq Calls
  /\ dropped \subseteq Calls

Init ==
  /\ state = "NotReady"
  /\ currentRpcId = 0
  /\ rpcHandlers = {}
  /\ subscriptionHandlers = {}
  /\ socketState = "Disconnected"
  /\ observing = "never"
  /\ callPc = [c \in Calls |-> "idle"]
  /\ rpcId = [c \in Calls |-> 0]
  /\ eventPc = "idle"
  /\ sweep = {}
  /\ responsePc = NoReply
  /\ mainPc = "idle"
  /\ starts = 0
  /\ link = "down"
  /\ connections = 0
  /\ wire = {}
  /\ events = <<>>
  /\ replies = {}
  /\ outcome = [c \in Calls |-> "none"]
  /\ served = {}
  /\ late = {}
  /\ dropped = {}

(***************************************************************************)
(* The Single's emitter takes the first signal and ignores the others.     *)
(***************************************************************************)
Signal(c, v) ==
  outcome' = [outcome EXCEPT ![c] = IF @ = "none" THEN v ELSE @]

\* Mutants of NextRpcId: the id is the number of handlers waiting, or counts down.
NextRpcIdFromHandlers == Cardinality(rpcHandlers) + 1
NextRpcIdDescending == currentRpcId - 1

NextRpcId == currentRpcId + 1

Entry(c) == [id |-> rpcId[c], call |-> c]

RegisteredIds == {h.id : h \in rpcHandlers}

\* ConcurrentHashMap.put: an entry with the same id is replaced.
Put(h) == {g \in rpcHandlers : g.id # h.id} \cup {h}

-----------------------------------------------------------------------------
(* A call's thread: send(rpc, handler). *)

TakeId(c) ==
  /\ callPc[c] = "idle"
  /\ currentRpcId' = NextRpcId
  /\ rpcId' = [rpcId EXCEPT ![c] = NextRpcId]
  /\ callPc' = [callPc EXCEPT ![c] = "allocated"]

Begin(c) ==
  /\ c \in Requests
  /\ TakeId(c)
  /\ UNCHANGED <<state, rpcHandlers, subscriptionHandlers, socketVars,
                 threadVars, netVars, outcome, history>>

\* Mutant of LeaveSubscribe: the event thread waits for the subscription's response.
LeaveSubscribeNever(c) == eventPc' = eventPc

\* The event thread leaves subscribeToNewHeads once its call is registered or failed.
LeaveSubscribe(c) ==
  eventPc' = IF c \in Subscriptions THEN "idle" ELSE eventPc

\* NodeWebSocket.send throws unless Connected; single() turns it into onError.
SendThrows(c) ==
  /\ callPc[c] = "allocated"
  /\ socketState # "Connected"
  /\ callPc' = [callPc EXCEPT ![c] = "failed"]
  /\ Signal(c, "error")
  /\ LeaveSubscribe(c)
  /\ UNCHANGED <<syncerVars, socketVars, rpcId, sweep, responsePc, mainPc,
                 starts, netVars, history>>

\* The write reaches the node if the transport is up, and is lost otherwise.
Send(c) ==
  /\ callPc[c] = "allocated"
  /\ socketState = "Connected"
  /\ callPc' = [callPc EXCEPT ![c] = "sent"]
  /\ wire' = IF link = "up" THEN wire \cup {Entry(c)} ELSE wire
  /\ UNCHANGED <<syncerVars, socketVars, rpcId, threadVars, link, connections, events,
                 replies, outcome, history>>

\* The traversal of a ConcurrentHashMap may or may not see a handler added while it runs.
Register(c) ==
  /\ callPc[c] = "sent"
  /\ rpcHandlers' = Put(Entry(c))
  /\ callPc' = [callPc EXCEPT ![c] = "registered"]
  /\ LeaveSubscribe(c)
  /\ IF eventPc = "sweeping"
       THEN /\ sweep' \in {sweep, sweep \cup {rpcId[c]}}
            /\ late' = late \cup {c}
       ELSE UNCHANGED <<sweep, late>>
  /\ UNCHANGED <<state, currentRpcId, subscriptionHandlers, socketVars, rpcId,
                 responsePc, mainPc, starts, netVars, outcome, served, dropped>>

-----------------------------------------------------------------------------
(* The event stream's thread. *)

TakeOpened ==
  /\ eventPc = "idle"
  /\ observing = "on"
  /\ events # <<>>
  /\ Head(events) = "Opened"
  /\ events' = Tail(events)
  /\ socketState' = "Connected"
  /\ eventPc' = "opened"
  /\ UNCHANGED <<syncerVars, observing, callVars, sweep, responsePc, mainPc,
                 starts, link, connections, wire, replies, outcome, history>>

\* didUpdate(Connected): Ready, then eth_subscribe on this same thread.
DidOpen(s) ==
  /\ eventPc = "opened"
  /\ s \in Subscriptions
  /\ TakeId(s)
  /\ state' = "Ready"
  /\ eventPc' = "subscribing"
  /\ UNCHANGED <<rpcHandlers, subscriptionHandlers, socketVars, sweep,
                 responsePc, mainPc, starts, netVars, outcome, history>>

\* didUpdate(Disconnected) begins: the traversal visits every handler present now.
TakeClosed ==
  /\ eventPc = "idle"
  /\ observing = "on"
  /\ events # <<>>
  /\ Head(events) = "Closed"
  /\ events' = Tail(events)
  /\ socketState' = "Disconnected"
  /\ eventPc' = "sweeping"
  /\ sweep' = RegisteredIds
  /\ UNCHANGED <<syncerVars, observing, callVars, responsePc, mainPc, starts,
                 link, connections, wire, replies, outcome, history>>

FailHandler(h) ==
  /\ eventPc = "sweeping"
  /\ h.id \in sweep
  /\ sweep' = sweep \ {h.id}
  /\ Signal(h.call, "error")
  /\ UNCHANGED <<syncerVars, socketVars, callVars, eventPc, responsePc, mainPc,
                 starts, netVars, history>>

\* Mutant of SweepDone: rpcHandlers.clear() before the traversal.
SweepSkipped == TRUE

SweepDone == sweep \cap RegisteredIds = {}

\* Mutant of StateOnClosed: the state is left alone when the socket closes.
StateOnClosedKept == state

StateOnClosed == "NotReady"

ClearHandlers ==
  /\ eventPc = "sweeping"
  /\ SweepDone
  /\ rpcHandlers' = {}
  /\ subscriptionHandlers' = {}
  /\ state' = StateOnClosed
  /\ eventPc' = "idle"
  /\ sweep' = {}
  /\ late' = late \cup {c \in Calls : callPc[c] = "sent"}
  /\ UNCHANGED <<currentRpcId, socketVars, callVars, responsePc, mainPc, starts,
                 netVars, outcome, served, dropped>>

-----------------------------------------------------------------------------
(* The response stream's thread: remove the handler, then run it. *)

TakeReply(m) ==
  /\ observing = "on"
  /\ responsePc = NoReply
  /\ m \in replies
  /\ replies' = replies \ {m}
  /\ \/ \E h \in rpcHandlers :
          /\ h.id = m.id
          /\ rpcHandlers' = rpcHandlers \ {h}
          /\ responsePc' = [to |-> h.call, by |-> m.call]
          /\ UNCHANGED dropped
     \/ /\ m.id \notin RegisteredIds
        /\ dropped' = dropped \cup {m.call}
        /\ UNCHANGED <<rpcHandlers, responsePc>>
  /\ UNCHANGED <<state, currentRpcId, subscriptionHandlers, socketVars, callVars,
                 eventPc, sweep, mainPc, starts, link, connections, wire, events, outcome,
                 served, late>>

\* The response carries a result; a new-heads subscription installs its handler.
RunHandler ==
  /\ responsePc # NoReply
  /\ Signal(responsePc.to, responsePc.by)
  /\ subscriptionHandlers' =
       subscriptionHandlers \cup ({responsePc.to} \cap Subscriptions)
  /\ responsePc' = NoReply
  /\ UNCHANGED <<state, currentRpcId, rpcHandlers, socketVars, callVars, eventPc,
                 sweep, mainPc, starts, netVars, history>>

\* The response carries an error, or does not parse.
RunHandlerFails ==
  /\ responsePc # NoReply
  /\ Signal(responsePc.to, "error")
  /\ responsePc' = NoReply
  /\ UNCHANGED <<syncerVars, socketVars, callVars, eventPc, sweep, mainPc,
                 starts, netVars, history>>

-----------------------------------------------------------------------------
(* The application's thread: start() and stop(), each two statements. *)

Start ==
  /\ mainPc = "idle"
  /\ starts < MaxStarts
  /\ starts' = starts + 1
  /\ state' = "Preparing"
  /\ mainPc' = "starting"
  /\ UNCHANGED <<currentRpcId, rpcHandlers, subscriptionHandlers, socketVars,
                 callVars, eventPc, sweep, responsePc, netVars, outcome, history>>

\* The socket is created and observed the first time only.
StartSocket ==
  /\ mainPc = "starting"
  /\ socketState' = "Connecting"
  /\ state' = "Preparing"
  /\ observing' = IF observing = "never" THEN "on" ELSE observing
  /\ mainPc' = "idle"
  /\ UNCHANGED <<currentRpcId, rpcHandlers, subscriptionHandlers, callVars,
                 eventPc, sweep, responsePc, starts, netVars, outcome, history>>

Stop ==
  /\ mainPc = "idle"
  /\ starts > 0
  /\ state' = "NotReady"
  /\ mainPc' = "stopping"
  /\ UNCHANGED <<currentRpcId, rpcHandlers, subscriptionHandlers, socketVars,
                 callVars, eventPc, sweep, responsePc, starts, netVars, outcome,
                 history>>

\* disposables.clear(): what the streams still hold is never delivered.
StopSocket ==
  /\ mainPc = "stopping"
  /\ observing' = "cleared"
  /\ events' = <<>>
  /\ replies' = {}
  /\ mainPc' = "idle"
  /\ UNCHANGED <<syncerVars, socketState, callVars, eventPc, sweep, responsePc,
                 starts, link, connections, wire, outcome, history>>

-----------------------------------------------------------------------------
(* The transport and the node (external). *)

Deliver(e) == events' = IF observing = "on" THEN Append(events, e) ELSE events

\* Bound: one subscription call for each connection that opens.
Connect ==
  /\ observing # "never"
  /\ link = "down"
  /\ Len(events) < MaxEvents
  /\ connections < Cardinality(Subscriptions)
  /\ connections' = connections + 1
  /\ link' = "up"
  /\ Deliver("Opened")
  /\ UNCHANGED <<syncerVars, socketVars, callVars, threadVars, wire, replies,
                 outcome, history>>

\* An established connection ends, or an attempt to connect fails.
Drop ==
  /\ observing # "never"
  /\ Len(events) < MaxEvents
  /\ link' = "down"
  /\ wire' = {}
  /\ Deliver("Closed")
  /\ UNCHANGED <<syncerVars, socketVars, callVars, threadVars, connections, replies, outcome,
                 history>>

Answer(m) ==
  /\ m \in wire
  /\ wire' = wire \ {m}
  /\ replies' = IF observing = "on" THEN replies \cup {m} ELSE replies
  /\ served' = served \cup {m.call}
  /\ UNCHANGED <<syncerVars, socketVars, callVars, threadVars, link, connections, events,
                 outcome, late, dropped>>

-----------------------------------------------------------------------------
CallStep(c) == Begin(c) \/ SendThrows(c) \/ Send(c) \/ Register(c)

EventStep ==
  \/ TakeOpened
  \/ TakeClosed
  \/ \E s \in Subscriptions : DidOpen(s)
  \/ \E h \in rpcHandlers : FailHandler(h)
  \/ ClearHandlers

ResponseStep ==
  \/ \E m \in replies : TakeReply(m)
  \/ RunHandler
  \/ RunHandlerFails

MainStep == Start \/ StartSocket \/ Stop \/ StopSocket

NetworkStep == Connect \/ Drop \/ (\E m \in wire : Answer(m))

Next ==
  \/ \E c \in Calls : CallStep(c)
  \/ EventStep
  \/ ResponseStep
  \/ MainStep
  \/ NetworkStep

Spec == Init /\ [][Next]_vars

(***************************************************************************)
(* The io threads run and a call once begun goes on.  The node answers     *)
(* what it received as long as the connection lasts: an assumption on the  *)
(* node, as single() has no timeout of its own.  Nothing makes the         *)
(* transport fail, the application call, start or stop.                    *)
(***************************************************************************)
Fairness ==
  /\ \A c \in Calls : WF_vars(SendThrows(c) \/ Send(c) \/ Register(c))
  /\ WF_vars(EventStep)
  /\ WF_vars(ResponseStep)
  /\ WF_vars(StartSocket \/ StopSocket)
  /\ \A c \in Calls : WF_vars(\E m \in wire : m.call = c /\ Answer(m))

FairSpec == Spec /\ Fairness

-----------------------------------------------------------------------------
\* A call is asked when it takes its id.
RpcCallsView == INSTANCE RpcCalls
  WITH asked <- {c \in Calls : callPc[c] # "idle"}

(***************************************************************************)
(* The syncer implements RpcCalls: whatever the order of sends, responses, *)
(* disconnections and restarts, a Single ends at most once and never with  *)
(* the response to another call, a stale one of an earlier connection      *)
(* included (ids are never reused, WebSocketRpcSyncer.send).               *)
(***************************************************************************)
ImplementsRpcCalls == RpcCallsView!Spec

(***************************************************************************)
(* Every success carries the response to the very call it ends.            *)
(***************************************************************************)
AnsweredByOwnResponse ==
  \A c \in Calls : outcome[c] \in {"none", "error", c} /\ (outcome[c] = c => c \in served)

Orphaned(c) ==
  /\ callPc[c] = "registered"
  /\ outcome[c] = "none"
  /\ \A h \in rpcHandlers : h.call # c
  /\ responsePc.to # c

(***************************************************************************)
(* A registered call that nobody can answer any more is one whose          *)
(* registration fell into the handling of a disconnection: rpcHandlers     *)
(* loses no other handler without running it.                              *)
(***************************************************************************)
OnlyLateCallsOrphaned == \A c \in Calls : Orphaned(c) => c \in late

-----------------------------------------------------------------------------
(* The inductive strengthening of the two invariants above. *)

Begun == {c \in Calls : callPc[c] # "idle"}

IdsDistinct ==
  /\ \A c \in Begun : rpcId[c] <= currentRpcId
  /\ \A c, d \in Begun : rpcId[c] = rpcId[d] => c = d

HandlersOwned ==
  \A h \in rpcHandlers : callPc[h.call] = "registered" /\ h.id = rpcId[h.call]

MessagesOwned ==
  /\ \A m \in wire \cup replies : m.call \in Begun /\ m.id = rpcId[m.call]
  /\ \A m \in replies : m.call \in served
  /\ served \subseteq Begun

ResponseOwned ==
  responsePc # NoReply =>
    /\ responsePc.to = responsePc.by
    /\ responsePc.to \in served

\* Midway through a sweep, a handler left behind was run or was registered late.
SweepVisits ==
  eventPc = "sweeping" =>
    \A h \in rpcHandlers :
      h.id \in sweep \/ outcome[h.call] # "none" \/ h.call \in late

IInv ==
  /\ TypeOK
  /\ IdsDistinct
  /\ HandlersOwned
  /\ MessagesOwned
  /\ ResponseOwned
  /\ SweepVisits
  /\ AnsweredByOwnResponse
  /\ OnlyLateCallsOrphaned

-----------------------------------------------------------------------------
(***************************************************************************)
(* A Single ends if its call was registered before its response was        *)
(* delivered and outside the handling of a disconnection, unless the       *)
(* application stops the syncer: stop() drops the streams and leaves the   *)
(* handlers waiting.                                                       *)
(***************************************************************************)
TimelyCallsEnd ==
  \A c \in Calls :
    callPc[c] = "registered" /\ c \notin late \cup dropped
      ~> outcome[c] # "none" \/ observing = "cleared"

(***************************************************************************)
(* Started once and never stopped, the syncer ends up Ready when the       *)
(* transport stays up, and NotReady or about to retry when it stays down:  *)
(* the state it reports is that of the last transport event.               *)
(***************************************************************************)
ReadyFollowsLink ==
  /\ <>[](link = "up" /\ observing = "on") => <>[](state = "Ready")
  /\ <>[](link = "down" /\ observing = "on") => <>[](state # "Ready")
=============================================================================
