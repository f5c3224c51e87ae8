------------------------- MODULE WebSocketRpcProofs -------------------------
(***************************************************************************)
(* Proofs about WebSocketRpc, for every set of calls and every bound:      *)
(* type correctness, AnsweredByOwnResponse, OnlyLateCallsOrphaned, and     *)
(* that WebSocketRpc implements RpcCalls.                                  *)
(***************************************************************************)
EXTENDS WebSocketRpc, TLAPS

USE DEF Calls, Entry, RegisteredIds, NoReply

-----------------------------------------------------------------------------
(* Type correctness. *)

\* A signal leaves the outcome of every call of its type.
LEMMA SignalType ==
  ASSUME NEW c \in Calls, NEW v \in {"none", "error"} \cup Calls,
         outcome \in [Calls -> {"none", "error"} \cup Calls],
         Signal(c, v)
  PROVE  outcome' \in [Calls -> {"none", "error"} \cup Calls]
  BY DEF Signal

LEMMA InitTypeOK == Init => TypeOK
  BY CallsAssumption DEF Init, TypeOK

LEMMA CallStepTypeOK ==
  ASSUME TypeOK, NEW c \in Calls, CallStep(c)
  PROVE  TypeOK'
<1> USE DEF TypeOK
<1>1. CASE Begin(c)
  BY <1>1 DEF Begin, TakeId, NextRpcId, socketVars, threadVars, netVars, history
<1>2. CASE SendThrows(c)
  <2>1. outcome' \in [Calls -> {"none", "error"} \cup Calls]
    BY <1>2, SignalType DEF SendThrows
  <2>2. /\ callPc' \in [Calls -> {"idle", "allocated", "sent", "registered", "failed"}]
        /\ eventPc' \in {"idle", "opened", "subscribing", "sweeping"}
    BY <1>2 DEF SendThrows, LeaveSubscribe
  <2>3. UNCHANGED <<syncerVars, socketVars, rpcId, sweep, responsePc, mainPc,
                    starts, netVars, history>>
    BY <1>2 DEF SendThrows
  <2> QED
    BY <2>1, <2>2, <2>3 DEF syncerVars, socketVars, netVars, history
<1>3. CASE Send(c)
  BY <1>3 DEF Send, syncerVars, socketVars, threadVars, history
<1>4. CASE Register(c)
  <2>1. rpcHandlers' \subseteq [id : Nat, call : Calls]
    BY <1>4 DEF Register, Put
  <2>2. /\ callPc' \in [Calls -> {"idle", "allocated", "sent", "registered", "failed"}]
        /\ eventPc' \in {"idle", "opened", "subscribing", "sweeping"}
    BY <1>4 DEF Register, LeaveSubscribe
  <2>3. sweep' \subseteq Nat /\ late' \subseteq Calls
    <3>1. rpcId[c] \in Nat
      OBVIOUS
    <3>2. sweep' = sweep \/ sweep' = sweep \cup {rpcId[c]}
      BY <1>4 DEF Register
    <3>3. late' = late \/ late' = late \cup {c}
      BY <1>4 DEF Register
    <3> QED BY <3>1, <3>2, <3>3
  <2>4. UNCHANGED <<state, currentRpcId, subscriptionHandlers, socketVars, rpcId,
                    responsePc, mainPc, starts, netVars, outcome, served, dropped>>
    BY <1>4 DEF Register
  <2> QED
    BY <2>1, <2>2, <2>3, <2>4 DEF socketVars, netVars
<1> QED BY <1>1, <1>2, <1>3, <1>4 DEF CallStep

LEMMA EventStepTypeOK ==
  ASSUME TypeOK, EventStep
  PROVE  TypeOK'
<1> USE DEF TypeOK
<1>1. CASE TakeOpened
  BY <1>1 DEF TakeOpened, syncerVars, callVars, history
<1>2. CASE TakeClosed
  BY <1>2 DEF TakeClosed, syncerVars, callVars, history
<1>3. ASSUME NEW s \in Subscriptions, DidOpen(s) PROVE TypeOK'
  BY <1>3 DEF DidOpen, TakeId, NextRpcId, socketVars, netVars, history
<1>4. ASSUME NEW h \in rpcHandlers, FailHandler(h) PROVE TypeOK'
  <2>1. outcome' \in [Calls -> {"none", "error"} \cup Calls]
    BY <1>4, SignalType DEF FailHandler
  <2>2. /\ UNCHANGED <<syncerVars, socketVars, callVars, eventPc, responsePc, mainPc, starts, netVars,
                       history>>
        /\ sweep' \subseteq sweep
    BY <1>4 DEF FailHandler
  <2> QED
    BY <2>1, <2>2 DEF syncerVars, socketVars, callVars, netVars, history
<1>5. CASE ClearHandlers
  BY <1>5 DEF ClearHandlers, StateOnClosed, socketVars, callVars, netVars
<1> QED BY <1>1, <1>2, <1>3, <1>4, <1>5 DEF EventStep

LEMMA ResponseStepTypeOK ==
  ASSUME TypeOK, ResponseStep
  PROVE  TypeOK'
<1> USE DEF TypeOK
<1>1. ASSUME NEW m \in replies, TakeReply(m) PROVE TypeOK'
  BY <1>1 DEF TakeReply, socketVars, callVars
<1>2. CASE RunHandler
  <2>1. responsePc \in [to : Calls, by : Calls]
    BY <1>2 DEF RunHandler
  <2>2. outcome' \in [Calls -> {"none", "error"} \cup Calls]
    BY <1>2, <2>1, SignalType DEF RunHandler
  <2> QED
    BY <1>2, <2>1, <2>2 DEF RunHandler, socketVars, callVars, netVars, history
<1>3. CASE RunHandlerFails
  <2>1. responsePc \in [to : Calls, by : Calls]
    BY <1>3 DEF RunHandlerFails
  <2>2. outcome' \in [Calls -> {"none", "error"} \cup Calls]
    BY <1>3, <2>1, SignalType DEF RunHandlerFails
  <2> QED
    BY <1>3, <2>1, <2>2 DEF RunHandlerFails, syncerVars, socketVars, callVars,
                            netVars, history
<1> HIDE DEF TypeOK
<1> QED BY <1>1, <1>2, <1>3 DEF ResponseStep

LEMMA MainStepTypeOK ==
  ASSUME TypeOK, MainStep
  PROVE  TypeOK'
<1> USE DEF TypeOK, syncerVars, socketVars, callVars, netVars, history
<1>1. CASE Start
  BY <1>1 DEF Start
<1>2. CASE StartSocket
  BY <1>2 DEF StartSocket
<1>3. CASE Stop
  BY <1>3 DEF Stop
<1>4. CASE StopSocket
  BY <1>4 DEF StopSocket
<1> QED BY <1>1, <1>2, <1>3, <1>4 DEF MainStep

LEMMA NetworkStepTypeOK ==
  ASSUME TypeOK, NetworkStep
  PROVE  TypeOK'
<1> USE DEF TypeOK, Deliver, syncerVars, socketVars, callVars, threadVars, history
<1>1. CASE Connect
  <2>1. connections + 1 \in Nat
    OBVIOUS
  <2> QED BY <1>1, <2>1 DEF Connect
<1>2. CASE Drop
  BY <1>2 DEF Drop
<1>3. ASSUME NEW m \in wire, Answer(m) PROVE TypeOK'
  BY <1>3 DEF Answer
<1> QED BY <1>1, <1>2, <1>3 DEF NetworkStep

LEMMA NextTypeOK == TypeOK /\ [Next]_vars => TypeOK'
<1> SUFFICES ASSUME TypeOK, [Next]_vars PROVE TypeOK'
  OBVIOUS
<1>1. CASE UNCHANGED vars
  BY <1>1 DEF TypeOK, vars, syncerVars, socketVars, callVars, threadVars,
              netVars, history
<1> QED
  BY <1>1, CallStepTypeOK, EventStepTypeOK, ResponseStepTypeOK, MainStepTypeOK,
     NetworkStepTypeOK DEF Next

\* In every reachable state of WebSocketRpc its variables have their types.
THEOREM TypeCorrect == Spec => []TypeOK
  BY InitTypeOK, NextTypeOK, PTL DEF Spec
-----------------------------------------------------------------------------
(* The inductive invariant: one lemma for each kind of step. *)

Parts == IdsDistinct /\ HandlersOwned /\ MessagesOwned /\ ResponseOwned
         /\ SweepVisits /\ AnsweredByOwnResponse /\ OnlyLateCallsOrphaned

LEMMA InitParts == Init => Parts
<1> SUFFICES ASSUME Init PROVE Parts
  OBVIOUS
<1>1. \A c \in Calls : callPc[c] = "idle" /\ outcome[c] = "none"
  BY DEF Init
<1>2. IdsDistinct
  BY <1>1 DEF IdsDistinct, Begun
<1>3. HandlersOwned /\ MessagesOwned /\ ResponseOwned /\ SweepVisits
  BY DEF Init, HandlersOwned, MessagesOwned, ResponseOwned, SweepVisits
<1>4. AnsweredByOwnResponse /\ OnlyLateCallsOrphaned
  <2>1. OnlyLateCallsOrphaned
    BY <1>1 DEF OnlyLateCallsOrphaned, Orphaned
  <2>2. AnsweredByOwnResponse
    <3> SUFFICES ASSUME NEW c \in Calls
                 PROVE  outcome[c] \in {"none", "error", c} /\ (outcome[c] = c => c \in served)
      BY DEF AnsweredByOwnResponse
    <3> QED BY <1>1, CallsAssumption
  <2> QED BY <2>1, <2>2
<1> QED BY <1>2, <1>3, <1>4 DEF Parts

\* Taking the next id keeps the ids of begun calls distinct.
LEMMA TakeIdParts ==
  ASSUME IInv, NEW c \in Calls, TakeId(c),
         UNCHANGED <<rpcHandlers, sweep, responsePc, wire, replies, outcome, history>>,
         eventPc' = eventPc \/ eventPc' # "sweeping"
  PROVE  Parts'
<1>1. /\ callPc[c] = "idle"
      /\ callPc' = [callPc EXCEPT ![c] = "allocated"]
      /\ rpcId' = [rpcId EXCEPT ![c] = currentRpcId + 1]
      /\ currentRpcId' = currentRpcId + 1
  BY DEF TakeId, NextRpcId
<1>2. /\ callPc \in [Calls -> {"idle", "allocated", "sent", "registered", "failed"}]
      /\ rpcId \in [Calls -> Nat]
      /\ currentRpcId \in Nat
      /\ rpcHandlers \subseteq [id : Nat, call : Calls]
      /\ wire \cup replies \subseteq [id : Nat, call : Calls]
      /\ served \subseteq Calls
  BY DEF IInv, TypeOK
<1>3. IdsDistinct'
  BY <1>1, <1>2 DEF IInv, IdsDistinct, Begun
<1>4. HandlersOwned'
  BY <1>1, <1>2 DEF IInv, HandlersOwned
<1>5. MessagesOwned'
  BY <1>1, <1>2 DEF IInv, MessagesOwned, Begun, history
<1>6. ResponseOwned'
  BY DEF IInv, ResponseOwned, history
<1>7. SweepVisits'
  BY DEF IInv, SweepVisits, history
<1>8. AnsweredByOwnResponse'
  BY DEF IInv, AnsweredByOwnResponse, history
<1>9. OnlyLateCallsOrphaned'
  BY <1>1, <1>2 DEF IInv, OnlyLateCallsOrphaned, Orphaned, history
<1> QED BY <1>3, <1>4, <1>5, <1>6, <1>7, <1>8, <1>9 DEF Parts

\* A first signal is kept, and no later one replaces it.
LEMMA SignalKeeps ==
  ASSUME TypeOK, NEW c \in Calls, NEW v \in {"error", c}, Signal(c, v)
  PROVE  /\ outcome'[c] # "none"
         /\ outcome'[c] \in {outcome[c], v}
         /\ \A d \in Calls : outcome[d] # "none" => outcome'[d] = outcome[d]
         /\ \A d \in Calls \ {c} : outcome'[d] = outcome[d]
  BY CallsAssumption DEF Signal, TypeOK

LEMMA SignalOwn ==
  ASSUME TypeOK, AnsweredByOwnResponse, NEW c \in Calls, NEW v \in {"error", c},
         v = c => c \in served, served' = served, Signal(c, v)
  PROVE  AnsweredByOwnResponse'
  BY SignalKeeps, CallsAssumption DEF AnsweredByOwnResponse

LEMMA SendThrowsParts ==
  ASSUME IInv, NEW c \in Calls, SendThrows(c)
  PROVE  Parts'
<1>1. /\ TypeOK
      /\ callPc[c] = "allocated"
      /\ callPc' = [callPc EXCEPT ![c] = "failed"]
      /\ UNCHANGED <<rpcId, currentRpcId, rpcHandlers, sweep, responsePc, wire,
                     replies, served, late>>
      /\ eventPc' \in {"idle", eventPc}
      /\ Signal(c, "error")
  BY DEF SendThrows, LeaveSubscribe, IInv, syncerVars, netVars, history
<1>2. Begun' = Begun
  BY <1>1 DEF TypeOK, Begun
<1>3. IdsDistinct'
  BY <1>1, <1>2 DEF IInv, IdsDistinct
<1>4. HandlersOwned'
  BY <1>1 DEF IInv, TypeOK, HandlersOwned
<1>5. MessagesOwned' /\ ResponseOwned'
  BY <1>1, <1>2 DEF IInv, MessagesOwned, ResponseOwned
<1>6. SweepVisits'
  BY <1>1, SignalKeeps, Zenon DEF IInv, TypeOK, SweepVisits
<1>7. AnsweredByOwnResponse'
  BY <1>1, SignalOwn, CallsAssumption DEF IInv
<1>8. OnlyLateCallsOrphaned'
  BY <1>1, SignalKeeps DEF IInv, TypeOK, OnlyLateCallsOrphaned, Orphaned
<1> QED BY <1>3, <1>4, <1>5, <1>6, <1>7, <1>8 DEF Parts

LEMMA SendParts ==
  ASSUME IInv, NEW c \in Calls, Send(c)
  PROVE  Parts'
<1>1. /\ TypeOK
      /\ callPc[c] = "allocated"
      /\ callPc' = [callPc EXCEPT ![c] = "sent"]
      /\ wire' = wire \/ wire' = wire \cup {Entry(c)}
      /\ UNCHANGED <<rpcId, currentRpcId, rpcHandlers, sweep, responsePc, eventPc,
                     replies, outcome, served, late>>
  BY DEF Send, IInv, syncerVars, threadVars, history
<1>2. Begun' = Begun /\ c \in Begun
  BY <1>1 DEF TypeOK, Begun
<1>3. IdsDistinct'
  BY <1>1, <1>2 DEF IInv, IdsDistinct
<1>4. HandlersOwned'
  BY <1>1 DEF IInv, TypeOK, HandlersOwned
<1>5. MessagesOwned' /\ ResponseOwned'
  BY <1>1, <1>2 DEF IInv, MessagesOwned, ResponseOwned
<1>6. SweepVisits' /\ AnsweredByOwnResponse'
  BY <1>1 DEF IInv, SweepVisits, AnsweredByOwnResponse
<1>7. OnlyLateCallsOrphaned'
  BY <1>1 DEF IInv, TypeOK, OnlyLateCallsOrphaned, Orphaned
<1> QED BY <1>3, <1>4, <1>5, <1>6, <1>7 DEF Parts

LEMMA RegisterParts ==
  ASSUME IInv, NEW c \in Calls, Register(c)
  PROVE  Parts'
<1>1. /\ TypeOK
      /\ callPc[c] = "sent"
      /\ callPc' = [callPc EXCEPT ![c] = "registered"]
      /\ rpcHandlers' = Put(Entry(c))
      /\ UNCHANGED <<rpcId, currentRpcId, responsePc, wire, replies, outcome, served>>
      /\ sweep \subseteq sweep' /\ late \subseteq late'
      /\ eventPc' \in {"idle", eventPc}
      /\ eventPc = "sweeping" => c \in late'
      /\ eventPc # "sweeping" => late' = late
  BY DEF Register, LeaveSubscribe, IInv, netVars
<1>2. Begun' = Begun /\ c \in Begun
  BY <1>1 DEF TypeOK, Begun
<1>3. rpcHandlers' = rpcHandlers \cup {Entry(c)}
  <2>1. \A h \in rpcHandlers : h.call \in Begun /\ h.call # c /\ h.id = rpcId[h.call]
    BY <1>1 DEF IInv, TypeOK, HandlersOwned, Begun
  <2>2. \A h \in rpcHandlers : h.id # rpcId[c]
    BY <2>1, <1>2 DEF IInv, IdsDistinct
  <2> QED BY <1>1, <2>2 DEF Put
<1>4. IdsDistinct'
  BY <1>1, <1>2 DEF IInv, IdsDistinct
<1>5. HandlersOwned'
  BY <1>1, <1>3 DEF IInv, TypeOK, HandlersOwned
<1>6. MessagesOwned' /\ ResponseOwned'
  BY <1>1, <1>2 DEF IInv, MessagesOwned, ResponseOwned
<1>7. SweepVisits'
  BY <1>1, <1>3 DEF IInv, SweepVisits
<1>8. AnsweredByOwnResponse'
  BY <1>1 DEF IInv, AnsweredByOwnResponse
<1>9. OnlyLateCallsOrphaned'
  <2>1. ASSUME NEW d \in Calls, Orphaned(d)' PROVE d \in late'
    <3>1. d # c
      <4>1. Entry(c) \in rpcHandlers' /\ Entry(c).call = c
        BY <1>3 DEF Entry
      <4>2. \A h \in rpcHandlers' : h.call # d
        BY <2>1 DEF Orphaned
      <4> QED BY <4>1, <4>2
    <3>2. Orphaned(d)
      BY <1>1, <1>3, <2>1, <3>1 DEF Orphaned, TypeOK
    <3> QED BY <1>1, <3>2 DEF IInv, OnlyLateCallsOrphaned
  <2> QED BY <2>1 DEF OnlyLateCallsOrphaned
<1> QED BY <1>4, <1>5, <1>6, <1>7, <1>8, <1>9 DEF Parts

LEMMA CallStepParts ==
  ASSUME IInv, NEW c \in Calls, CallStep(c)
  PROVE  Parts'
<1>1. CASE Begin(c)
  BY <1>1, TakeIdParts DEF Begin, threadVars, netVars
<1> QED
  BY <1>1, SendThrowsParts, SendParts, RegisterParts DEF CallStep

\* A step that leaves alone all the invariant reads, or only shrinks what is in transit.
LEMMA QuietParts ==
  ASSUME IInv, wire' \subseteq wire, replies' \subseteq replies,
         UNCHANGED <<callPc, rpcId, currentRpcId, rpcHandlers, responsePc,
                     outcome, served, late>>,
         eventPc' # "sweeping" \/ (eventPc' = eventPc /\ sweep' = sweep)
                              \/ sweep' = RegisteredIds
  PROVE  Parts'
<1>1. IdsDistinct' /\ HandlersOwned'
  BY DEF IInv, IdsDistinct, HandlersOwned, Begun
<1>2. MessagesOwned' /\ ResponseOwned'
  BY DEF IInv, MessagesOwned, ResponseOwned, Begun
<1>3. SweepVisits'
  BY DEF IInv, SweepVisits
<1>4. AnsweredByOwnResponse' /\ OnlyLateCallsOrphaned'
  BY DEF IInv, AnsweredByOwnResponse, OnlyLateCallsOrphaned, Orphaned
<1> QED BY <1>1, <1>2, <1>3, <1>4 DEF Parts

LEMMA EventStepParts ==
  ASSUME IInv, EventStep
  PROVE  Parts'
<1>1. CASE TakeOpened
  BY <1>1, QuietParts DEF TakeOpened, syncerVars, callVars, history
<1>2. CASE TakeClosed
  BY <1>2, QuietParts DEF TakeClosed, syncerVars, callVars, history
<1>3. ASSUME NEW s \in Subscriptions, DidOpen(s) PROVE Parts'
  BY <1>3, TakeIdParts DEF DidOpen, netVars
<1>4. ASSUME NEW h \in rpcHandlers, FailHandler(h) PROVE Parts'
  <2>1. /\ TypeOK
        /\ h.call \in Calls
        /\ sweep' = sweep \ {h.id}
        /\ Signal(h.call, "error")
        /\ UNCHANGED <<callPc, rpcId, currentRpcId, rpcHandlers, responsePc,
                       wire, replies, served, late, eventPc>>
    BY <1>4 DEF FailHandler, IInv, TypeOK, syncerVars, callVars, netVars, history
  <2>2. IdsDistinct' /\ HandlersOwned' /\ MessagesOwned' /\ ResponseOwned'
    BY <2>1 DEF IInv, IdsDistinct, HandlersOwned, MessagesOwned, ResponseOwned, Begun
  <2>3. SweepVisits'
    <3>1. \A g \in rpcHandlers : g.id = h.id => g.call = h.call
      BY <2>1 DEF IInv, TypeOK, HandlersOwned, IdsDistinct, Begun
    <3>2. \A g \in rpcHandlers : g.call \in Calls
      BY <2>1 DEF TypeOK
    <3> QED BY <2>1, <3>1, <3>2, SignalKeeps DEF IInv, SweepVisits
  <2>4. AnsweredByOwnResponse'
    BY <2>1, SignalOwn, CallsAssumption DEF IInv
  <2>5. OnlyLateCallsOrphaned'
    BY <2>1, SignalKeeps DEF IInv, OnlyLateCallsOrphaned, Orphaned
  <2> QED BY <2>2, <2>3, <2>4, <2>5 DEF Parts
<1>5. CASE ClearHandlers
  <2>1. /\ TypeOK
        /\ eventPc = "sweeping"
        /\ \A h \in rpcHandlers : h.id \notin sweep
        /\ rpcHandlers' = {}
        /\ eventPc' = "idle"
        /\ late \subseteq late'
        /\ UNCHANGED <<callPc, rpcId, currentRpcId, responsePc, wire, replies,
                       served, outcome>>
    BY <1>5 DEF ClearHandlers, SweepDone, IInv, callVars, netVars
  <2>2. IdsDistinct' /\ HandlersOwned' /\ MessagesOwned' /\ ResponseOwned'
    BY <2>1 DEF IInv, IdsDistinct, HandlersOwned, MessagesOwned, ResponseOwned, Begun
  <2>3. SweepVisits' /\ AnsweredByOwnResponse'
    BY <2>1 DEF IInv, SweepVisits, AnsweredByOwnResponse
  <2>4. OnlyLateCallsOrphaned'
    BY <2>1 DEF IInv, OnlyLateCallsOrphaned, Orphaned, SweepVisits
  <2> QED BY <2>2, <2>3, <2>4 DEF Parts
<1> QED BY <1>1, <1>2, <1>3, <1>4, <1>5 DEF EventStep

\* The call a response ends is the one it answers, by ids being distinct.
LEMMA ResponseStepParts ==
  ASSUME IInv, ResponseStep
  PROVE  Parts'
<1>1. ASSUME NEW m \in replies, TakeReply(m) PROVE Parts'
  <2>1. /\ TypeOK
        /\ m.call \in Calls
        /\ responsePc = NoReply
        /\ replies' \subseteq replies
        /\ UNCHANGED <<callPc, rpcId, currentRpcId, wire, served, outcome,
                       late, eventPc, sweep>>
    BY <1>1 DEF TakeReply, IInv, TypeOK, callVars
  <2>2. ASSUME NEW h \in rpcHandlers, h.id = m.id,
               rpcHandlers' = rpcHandlers \ {h},
               responsePc' = [to |-> h.call, by |-> m.call]
        PROVE  Parts'
    <3>1. h.call = m.call /\ h.call \in served
      BY <2>1, <2>2
      DEF IInv, TypeOK, HandlersOwned, MessagesOwned, IdsDistinct, Begun
    <3>2. IdsDistinct' /\ HandlersOwned' /\ MessagesOwned' /\ ResponseOwned'
      BY <2>1, <2>2, <3>1
      DEF IInv, IdsDistinct, HandlersOwned, MessagesOwned, ResponseOwned, Begun
    <3>3. SweepVisits' /\ AnsweredByOwnResponse'
      BY <2>1, <2>2 DEF IInv, SweepVisits, AnsweredByOwnResponse
    <3>4. OnlyLateCallsOrphaned'
      BY <2>1, <2>2, CallsAssumption DEF IInv, OnlyLateCallsOrphaned, Orphaned
    <3> QED BY <3>2, <3>3, <3>4 DEF Parts
  <2>3. CASE rpcHandlers' = rpcHandlers /\ responsePc' = responsePc
    BY <2>1, <2>3, QuietParts
  <2> QED BY <1>1, <2>2, <2>3 DEF TakeReply
<1>2. CASE RunHandler \/ RunHandlerFails
  <2>1. /\ TypeOK
        /\ responsePc.to \in Calls
        /\ responsePc.to = responsePc.by
        /\ responsePc.to \in served
        /\ responsePc' = NoReply
        /\ UNCHANGED <<callPc, rpcId, currentRpcId, rpcHandlers, wire, replies,
                       served, late, eventPc, sweep>>
    BY <1>2 DEF RunHandler, RunHandlerFails, IInv, TypeOK, ResponseOwned,
                syncerVars, callVars, netVars, history
  <2>2. PICK v \in {"error", responsePc.to} : Signal(responsePc.to, v)
    BY <1>2, <2>1 DEF RunHandler, RunHandlerFails
  <2>3. IdsDistinct' /\ HandlersOwned' /\ MessagesOwned' /\ ResponseOwned'
    BY <2>1 DEF IInv, IdsDistinct, HandlersOwned, MessagesOwned, ResponseOwned, Begun
  <2>4. SweepVisits'
    <3>1. \A g \in rpcHandlers : g.call \in Calls
      BY <2>1 DEF TypeOK
    <3> QED BY <2>1, <2>2, <3>1, SignalKeeps DEF IInv, SweepVisits
  <2>5. AnsweredByOwnResponse'
    BY <2>1, <2>2, SignalOwn, CallsAssumption DEF IInv
  <2>6. OnlyLateCallsOrphaned'
    BY <2>1, <2>2, SignalKeeps DEF IInv, OnlyLateCallsOrphaned, Orphaned
  <2> QED BY <2>3, <2>4, <2>5, <2>6 DEF Parts
<1> QED BY <1>1, <1>2 DEF ResponseStep

LEMMA MainStepParts ==
  ASSUME IInv, MainStep
  PROVE  Parts'
BY QuietParts DEF MainStep, Start, StartSocket, Stop, StopSocket, syncerVars,
                  callVars, netVars, history

LEMMA NetworkStepParts ==
  ASSUME IInv, NetworkStep
  PROVE  Parts'
<1>1. CASE Connect \/ Drop
  BY <1>1, QuietParts DEF Connect, Drop, syncerVars, callVars, threadVars, history
<1>2. ASSUME NEW m \in wire, Answer(m) PROVE Parts'
  <2>1. /\ TypeOK
        /\ wire' \subseteq wire
        /\ replies' \subseteq replies \cup {m}
        /\ served' = served \cup {m.call}
        /\ UNCHANGED <<callPc, rpcId, currentRpcId, rpcHandlers, responsePc,
                       outcome, late, eventPc, sweep>>
    BY <1>2 DEF Answer, IInv, syncerVars, callVars, threadVars
  <2>2. IdsDistinct' /\ HandlersOwned'
    BY <2>1 DEF IInv, IdsDistinct, HandlersOwned, Begun
  <2>3. MessagesOwned' /\ ResponseOwned'
    BY <2>1 DEF IInv, MessagesOwned, ResponseOwned, Begun
  <2>4. SweepVisits' /\ AnsweredByOwnResponse'
    BY <2>1 DEF IInv, SweepVisits, AnsweredByOwnResponse
  <2>5. OnlyLateCallsOrphaned'
    BY <2>1 DEF IInv, OnlyLateCallsOrphaned, Orphaned
  <2> QED BY <2>2, <2>3, <2>4, <2>5 DEF Parts
<1> QED BY <1>1, <1>2 DEF NetworkStep

LEMMA Inductive == IInv /\ [Next]_vars => IInv'
<1> SUFFICES ASSUME IInv, [Next]_vars PROVE IInv'
  OBVIOUS
<1>1. TypeOK'
  BY NextTypeOK DEF IInv
<1>2. Parts'
  <2>1. CASE UNCHANGED vars
    BY <2>1, QuietParts DEF vars, syncerVars, callVars, threadVars, netVars, history
  <2> QED
    BY <2>1, CallStepParts, EventStepParts, ResponseStepParts, MainStepParts,
       NetworkStepParts DEF Next
<1> QED BY <1>1, <1>2 DEF IInv, Parts

LEMMA Invariant == Spec => []IInv
<1>1. Init => IInv
  BY InitTypeOK, InitParts DEF IInv, Parts
<1> QED BY <1>1, Inductive, PTL DEF Spec

\* Whatever the interleaving, a call never succeeds with the response to another one.
THEOREM ResponsesMatch == Spec => []AnsweredByOwnResponse
<1>1. IInv => AnsweredByOwnResponse
  BY DEF IInv
<1> QED BY <1>1, Invariant, PTL

\* The only calls left without an answer are those registered amid a disconnection.
THEOREM OrphansAreLate == Spec => []OnlyLateCallsOrphaned
<1>1. IInv => OnlyLateCallsOrphaned
  BY DEF IInv
<1> QED BY <1>1, Invariant, PTL
-----------------------------------------------------------------------------
(* Refinement: each step is a step of RpcCalls or leaves its variables alone. *)

LEMMA AskStep ==
  ASSUME TypeOK, NEW c \in Calls, TakeId(c), UNCHANGED <<served, outcome>>
  PROVE  RpcCallsView!Ask(c)
  BY DEF TypeOK, TakeId, RpcCallsView!Ask

\* A signal is Fail or Succeed the first time, and a stutter afterwards.
LEMMA SignalStep ==
  ASSUME TypeOK, NEW c \in Calls, NEW v \in {"error", c}, Signal(c, v),
         callPc[c] # "idle", v = c => c \in served,
         UNCHANGED <<Begun, served>>
  PROVE  RpcCallsView!Next \/ UNCHANGED RpcCallsView!callVars
<1>1. CASE outcome[c] # "none"
  BY <1>1 DEF Signal, TypeOK, Begun, RpcCallsView!callVars
<1>2. CASE outcome[c] = "none" /\ v = c
  <2>1. RpcCallsView!Succeed(c)
    BY <1>2 DEF Signal, TypeOK, Begun, RpcCallsView!Succeed
  <2> QED BY <2>1 DEF RpcCallsView!Next
<1>3. CASE outcome[c] = "none" /\ v = "error"
  <2>1. RpcCallsView!Fail(c)
    BY <1>3 DEF Signal, TypeOK, Begun, RpcCallsView!Fail
  <2> QED BY <2>1 DEF RpcCallsView!Next
<1> QED BY <1>1, <1>2, <1>3

LEMMA StepRefines ==
  ASSUME IInv, [Next]_vars
  PROVE  RpcCallsView!Next \/ UNCHANGED RpcCallsView!callVars
<1> DEFINE Stutter == UNCHANGED RpcCallsView!callVars
<1>0. TypeOK
  BY DEF IInv
<1>1. ASSUME UNCHANGED <<callPc, served, outcome>> PROVE Stutter
  BY <1>1 DEF RpcCallsView!callVars
<1>2. ASSUME NEW c \in Calls, CallStep(c) PROVE RpcCallsView!Next \/ Stutter
  <2>1. CASE Begin(c)
    <3>1. RpcCallsView!Ask(c)
      BY <1>0, <2>1, AskStep DEF Begin, history
    <3> QED BY <3>1 DEF RpcCallsView!Next
  <2>2. CASE SendThrows(c)
    <3>1. callPc[c] # "idle" /\ UNCHANGED <<Begun, served>> /\ Signal(c, "error")
      BY <1>0, <2>2 DEF SendThrows, TypeOK, Begun, history
    <3> QED BY <1>0, <3>1, SignalStep, CallsAssumption
  <2>3. CASE Send(c) \/ Register(c)
    BY <1>0, <2>3 DEF Send, Register, TypeOK, history, RpcCallsView!callVars
  <2> QED BY <1>2, <2>1, <2>2, <2>3 DEF CallStep
<1>3. CASE EventStep
  <2>1. CASE TakeOpened \/ TakeClosed \/ ClearHandlers
    BY <1>1, <2>1 DEF TakeOpened, TakeClosed, ClearHandlers, callVars, history
  <2>2. ASSUME NEW s \in Subscriptions, DidOpen(s) PROVE RpcCallsView!Next \/ Stutter
    <3>1. RpcCallsView!Ask(s)
      BY <1>0, <2>2, AskStep DEF DidOpen, history
    <3> QED BY <3>1 DEF RpcCallsView!Next
  <2>3. ASSUME NEW h \in rpcHandlers, FailHandler(h) PROVE RpcCallsView!Next \/ Stutter
    <3>1. /\ h.call \in Calls
          /\ callPc[h.call] # "idle"
          /\ UNCHANGED <<Begun, served>>
          /\ Signal(h.call, "error")
      BY <1>0, <2>3 DEF FailHandler, IInv, HandlersOwned, TypeOK, Begun, callVars, history
    <3> QED BY <1>0, <3>1, SignalStep, CallsAssumption
  <2> QED BY <1>3, <2>1, <2>2, <2>3 DEF EventStep
<1>4. CASE ResponseStep
  <2>1. ASSUME NEW m \in replies, TakeReply(m) PROVE Stutter
    BY <1>1, <2>1 DEF TakeReply, callVars
  <2>2. CASE RunHandler \/ RunHandlerFails
    <3>1. /\ responsePc.to \in Calls
          /\ responsePc.to = responsePc.by
          /\ responsePc.to \in served
          /\ callPc[responsePc.to] # "idle"
          /\ UNCHANGED <<Begun, served>>
      BY <1>0, <2>2 DEF RunHandler, RunHandlerFails, IInv, TypeOK, ResponseOwned,
                        MessagesOwned, Begun, callVars, history
    <3>2. PICK v \in {"error", responsePc.to} : Signal(responsePc.to, v)
      BY <2>2, <3>1 DEF RunHandler, RunHandlerFails
    <3> QED BY <1>0, <3>1, <3>2, SignalStep, CallsAssumption
  <2> QED BY <1>4, <2>1, <2>2 DEF ResponseStep
<1>5. CASE MainStep
  BY <1>1, <1>5 DEF MainStep, Start, StartSocket, Stop, StopSocket, callVars, history
<1>6. CASE NetworkStep
  <2>1. CASE Connect \/ Drop
    BY <1>1, <2>1 DEF Connect, Drop, callVars, history
  <2>2. ASSUME NEW m \in wire, Answer(m) PROVE RpcCallsView!Next
    <3>1. m.call \in Calls /\ callPc[m.call] # "idle"
      BY <1>0, <2>2 DEF IInv, TypeOK, MessagesOwned, Begun
    <3>2. RpcCallsView!Serve(m.call)
      BY <2>2, <3>1 DEF Answer, callVars, RpcCallsView!Serve
    <3> QED BY <3>1, <3>2 DEF RpcCallsView!Next
  <2> QED BY <1>6, <2>1, <2>2 DEF NetworkStep
<1>7. CASE UNCHANGED vars
  BY <1>1, <1>7 DEF vars, callVars, history
<1> QED BY <1>2, <1>3, <1>4, <1>5, <1>6, <1>7 DEF Next

\* WebSocketRpc implements RpcCalls: a Single ends at most once, with its own response.
THEOREM Refinement == Spec => ImplementsRpcCalls
<1>1. Init => RpcCallsView!Init
  BY DEF Init, RpcCallsView!Init
<1>2. IInv /\ [Next]_vars => [RpcCallsView!Next]_(RpcCallsView!callVars)
  BY StepRefines
<1> QED
  BY <1>1, <1>2, Invariant, PTL DEF Spec, ImplementsRpcCalls, RpcCallsView!Spec
=============================================================================
