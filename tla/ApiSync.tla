------------------------------- MODULE ApiSync -------------------------------
(***************************************************************************)
(* Syncing over HTTP: ApiRpcSyncer, which turns the connection's changes   *)
(* into a state and polls the block number while it is Ready, and          *)
(* RpcBlockchain, which turns the syncer's state into the kit's sync state *)
(* and fetches the account and the height.  The application, the           *)
(* connectivity callbacks, every Timer and every answered request run on   *)
(* threads of their own, and none of the three classes has a lock: todo    *)
(* holds, for each thread, the statements it still has to execute.         *)
(***************************************************************************)
EXTENDS Integers, Sequences, FiniteSets

CONSTANTS
  Requests,     \* bound: requests at the node or in their callback at once
  Timers,       \* bound: Timers alive at once
  NoTimer,
  None,         \* no value stored or shown yet
  MaxHeight,    \* bound: the chain's height
  MaxCalls,     \* bound: calls of start, stop and onEnterForeground
  MaxChanges,   \* bound: changes of the connection
    MaxFailures,  \* bound: requests that fail
  MaxPolls,     \* bound: polls of the block number
  MaxInputs,    \* bound: those calls, changes and polls together
  MaxNotices,   \* bound: batches of transactions announced to the kit
  Overlap,      \* bound: threads inside this code at once
  EarlyRefresh  \* whether refresh() may be called while the kit is not started

Threads == {"app", "connectivity", "transactions"} \cup Timers \cup Requests

ASSUME ConstantsAssumption ==
  /\ Requests \cap Timers = {}
  /\ {"app", "connectivity", "transactions"} \cap (Requests \cup Timers) = {}
  /\ NoTimer \notin Timers
  /\ None \notin Nat
  /\ EarlyRefresh \in BOOLEAN

ASSUME BoundsAssumption ==
  {MaxHeight, MaxCalls, MaxChanges, MaxFailures, MaxPolls, MaxInputs,
   MaxNotices, Overlap} \subseteq Nat

VARIABLES
  started,      \* EthereumKit.started
  shown,        \* EthereumKit.state: the height and the account, or None
  stored,       \* the same two in the database
  syncState,    \* RpcBlockchain.syncState
  isStarted,    \* ApiRpcSyncer.isStarted
  state,        \* ApiRpcSyncer.state
  timer,        \* ApiRpcSyncer.timer
  live,         \* Timers scheduled and not cancelled
  isConnected,  \* ConnectionManager.isConnected
  requests,     \* each request: what for, how far, and its answer
  held,         \* requests added to their owner's CompositeDisposable
  todo,         \* each thread's statements left to execute
  height,       \* the chain's height at the node
  calls, changes, failures, polls, notices

appVars    == <<started, shown, stored>>
syncerVars == <<isStarted, state, timer, live>>
netVars    == <<height, isConnected>>
counters   == <<calls, changes, failures, polls, notices>>

MoreInputs == calls + changes + polls < MaxInputs
vars == <<appVars, syncState, syncerVars, netVars, requests, held, todo, counters>>

Kinds == {"poll", "height", "account"}
Values == 0..MaxHeight
Free == [kind |-> "none", phase |-> "free", value |-> None]

Owners == {"syncer", "blockchain"}
Statements ==
  [op : {"start", "unstart", "handle", "branch", "newTimer", "cancelTimer",
         "forgetTimer", "clearShown"}, arg : {""}, value : {None}]
  \cup [op : {"setState"}, arg : {"Ready", "NotReady"}, value : {None}]
  \cup [op : {"setSync"}, arg : {"NotSynced", "Syncing", "Synced"}, value : {None}]
  \cup [op : {"subscribe"}, arg : Kinds, value : {None}]
  \cup [op : {"hold"}, arg : Requests, value : {None}]
  \cup [op : {"dispose"}, arg : Owners, value : {None}]
  \cup [op : {"save", "show"}, arg : {"height", "account"}, value : Values]

\* Types; a sync state is one of SyncState's three, whichever thread set it.
TypeOK ==
  /\ started \in BOOLEAN
  /\ shown \in [{"height", "account"} -> Values \cup {None}]
  /\ stored \in [{"height", "account"} -> Values \cup {None}]
  /\ syncState \in {"NotSynced", "Syncing", "Synced"}
  /\ isStarted \in BOOLEAN
  /\ state \in {"NotReady", "Ready"}
  /\ timer \in Timers \cup {NoTimer}
  /\ live \subseteq Timers
  /\ isConnected \in BOOLEAN
  /\ requests \in [Requests -> [kind : Kinds, phase : {"sent", "failed"}, value : {None}]
                          \cup [kind : Kinds, phase : {"answered"}, value : Values]
                          \cup {Free}]
  /\ held \subseteq Requests
  /\ todo \in [Threads -> Seq(Statements)]
  /\ height \in Values
  /\ calls \in 0..MaxCalls
  /\ changes \in 0..MaxChanges
  /\ failures \in 0..MaxFailures
  /\ polls \in 0..MaxPolls
  /\ notices \in 0..MaxNotices

(***************************************************************************)
(* The statements a thread executes.                                       *)
(***************************************************************************)
Do(op) == [op |-> op, arg |-> "", value |-> None]
With(op, arg) == [op |-> op, arg |-> arg, value |-> None]
Put(op, kind, v) == [op |-> op, arg |-> kind, value |-> v]

At(th, op) == todo[th] # <<>> /\ Head(todo[th]).op = op
Arg(th) == Head(todo[th]).arg
Run(th, steps) == todo' = [todo EXCEPT ![th] = steps \o Tail(@)]
Done(th) == Run(th, <<>>)

Quiet == \A th \in Threads : todo[th] = <<>>

\* r is nobody's: not at the node, not in its callback, not about to be held.
Unused(r) ==
  /\ requests[r] = Free
  /\ todo[r] = <<>>
  /\ \A th \in Threads : ~(At(th, "hold") /\ Arg(th) = r)

\* A handler launches two requests at most; a thread that two handlers at once
\* leave waiting for a member of Requests is not counted as busy.
Room == \E q, r \in Requests : q # r /\ Unused(q) /\ Unused(r)
Waiting(th) == At(th, "subscribe") /\ \A r \in Requests : ~Unused(r)
Busy == {th \in Threads : todo[th] # <<>> /\ ~Waiting(th)}
Begin(th, steps) ==
  /\ todo[th] = <<>>
  /\ Cardinality(Busy) < Overlap
  /\ todo' = [todo EXCEPT ![th] = steps]

\* subscribe(...).let { disposables.add(it) }: sent first, held afterwards.
Launch(kind) == With("subscribe", kind)

SyncAccountState == <<Launch("account")>>
Fetch == SyncAccountState \o <<Launch("height")>>

SyncerStart == <<Do("start"), Do("handle")>>

\* RpcBlockchain.didUpdateSyncerState; the mutant hands the state through.
OnReady == <<With("setSync", "Syncing")>> \o Fetch
OnNotReady == <<With("setSync", "NotSynced"), With("dispose", "blockchain")>>
DidUpdateThrough(s) == IF s = "Ready" THEN OnReady ELSE <<With("setSync", s)>>
DidUpdate(s) == IF s = "Ready" THEN OnReady ELSE OnNotReady

\* RpcBlockchain.refresh; the mutant leaves a syncer that is not ready alone.
RefreshIfReady(s) == IF s = "Ready" THEN Fetch ELSE <<>>
Refresh(s) == IF s = "Ready" THEN Fetch ELSE SyncerStart

\* ApiRpcSyncer.stopTimer; the mutant cancels the timer and still refers to it.
StopTimerKept == <<Do("cancelTimer")>>
StopTimer == <<Do("cancelTimer"), Do("forgetTimer")>>

\* handleConnectionChange, once it has read isConnected.
OnConnection(c) == IF c THEN <<With("setState", "Ready"), Do("newTimer")>>
                   ELSE <<With("setState", "NotReady")>> \o StopTimer

\* ApiRpcSyncer.stop, and then what is left of EthereumKit.stop.
SyncerStop == <<Do("unstart"), With("setState", "NotReady"), With("dispose", "syncer")>> \o StopTimer
KitStop == SyncerStop \o <<Do("clearShown")>>

(***************************************************************************)
(* What a finished request runs: its subscriber's first or second lambda.  *)
(***************************************************************************)
Owner(kind) == IF kind = "poll" THEN "syncer" ELSE "blockchain"
Datum(kind) == IF kind = "account" THEN "account" ELSE "height"
Update(k, v) == <<Put("save", k, v), Put("show", k, v)>>
OnSuccess(kind, v) ==
  Update(Datum(kind), v) \o IF kind = "account" THEN <<With("setSync", "Synced")>> ELSE <<>>

\* The mutant's subscriber of the account ignores an error.
OnFailureUnseen(kind) == CASE kind = "poll" -> <<With("setState", "NotReady")>>
                           [] kind = "height" -> <<With("setSync", "NotSynced")>>
                           [] kind = "account" -> <<>>
OnFailure(kind) == IF kind = "poll" THEN <<With("setState", "NotReady")>>
                   ELSE <<With("setSync", "NotSynced")>>

\* A fresh install: the kit is built, its listeners are set, nothing is stored.
Init ==
  /\ started = FALSE
  /\ stored = [k \in {"height", "account"} |-> None]
  /\ shown = stored
  /\ syncState = "NotSynced"
  /\ isStarted = FALSE
  /\ state = "NotReady"
  /\ timer = NoTimer
  /\ live = {}
  /\ isConnected \in BOOLEAN
  /\ requests = [r \in Requests |-> Free]
  /\ held = {}
  /\ todo = [th \in Threads |-> <<>>]
  /\ height = 0
  /\ calls = 0
  /\ changes = 0
  /\ failures = 0
  /\ polls = 0
  /\ notices = 0

-----------------------------------------------------------------------------
(* EthereumKit: the application's calls, and the subscription of its init. *)

Start ==
  /\ calls < MaxCalls /\ MoreInputs
  /\ ~started
  /\ started' = TRUE
  /\ Room
  /\ Begin("app", <<With("setSync", "Syncing")>> \o SyncerStart)
  /\ calls' = calls + 1
  /\ UNCHANGED <<shown, stored, syncState, syncerVars, netVars, requests, held,
                 changes, failures, polls, notices>>

Stop ==
  /\ calls < MaxCalls /\ MoreInputs
  /\ started' = FALSE
  /\ Begin("app", KitStop)
  /\ calls' = calls + 1
  /\ UNCHANGED <<shown, stored, syncState, syncerVars, netVars, requests, held,
                 changes, failures, polls, notices>>

RefreshCalled ==
  /\ started \/ EarlyRefresh
  /\ Room
  /\ Begin("app", Refresh(state))
  /\ UNCHANGED <<appVars, syncState, syncerVars, netVars, requests, held, counters>>

\* ConnectionManager.onEnterForeground notifies even when nothing changed.
EnterForeground ==
  /\ calls < MaxCalls /\ MoreInputs
  /\ isConnected' \in BOOLEAN
  /\ Room
  /\ Begin("app", <<Do("handle")>>)
  /\ calls' = calls + 1
  /\ UNCHANGED <<appVars, syncState, syncerVars, height, requests, held,
                 changes, failures, polls, notices>>

TransactionsHandled ==
  /\ notices < MaxNotices
  /\ Room
  /\ Begin("transactions", SyncAccountState)
  /\ notices' = notices + 1
  /\ UNCHANGED <<appVars, syncState, syncerVars, netVars, requests, held,
                 calls, changes, failures, polls>>

-----------------------------------------------------------------------------
(* ConnectionManager.updatedConnectionState, the node and the Timers. *)

ConnectionChanges ==
  /\ changes < MaxChanges /\ MoreInputs
  /\ isConnected' = ~isConnected
  /\ Room
  /\ Begin("connectivity", <<Do("handle")>>)
  /\ changes' = changes + 1
  /\ UNCHANGED <<appVars, syncState, syncerVars, height, requests, held,
                 calls, failures, polls, notices>>

NewBlock ==
  /\ height < MaxHeight
  /\ height' = height + 1
  /\ UNCHANGED <<appVars, syncState, syncerVars, isConnected, requests, held,
                 todo, counters>>

Answer(r) ==
  /\ requests[r].phase = "sent"
  /\ requests' = [requests EXCEPT ![r].phase = "answered", ![r].value = height]
  /\ UNCHANGED <<appVars, syncState, syncerVars, netVars, held, todo, counters>>

Fail(r) ==
  /\ failures < MaxFailures
  /\ requests[r].phase = "sent"
  /\ requests' = [requests EXCEPT ![r].phase = "failed"]
  /\ failures' = failures + 1
  /\ UNCHANGED <<appVars, syncState, syncerVars, netVars, held, todo,
                 calls, changes, polls, notices>>

FireTimer(t) ==
  /\ polls < MaxPolls /\ MoreInputs
  /\ t \in live
  /\ Room
  /\ Begin(t, <<Launch("poll")>>)
  /\ polls' = polls + 1
  /\ UNCHANGED <<appVars, syncState, syncerVars, netVars, requests, held,
                 calls, changes, failures, notices>>

\* The subscriber's lambda, once the request was not disposed before it.
Callback(r) ==
  /\ requests[r].phase \in {"answered", "failed"}
  /\ LET kind == requests[r].kind IN
     Begin(r, IF requests[r].phase = "answered" THEN OnSuccess(kind, requests[r].value)
              ELSE OnFailure(kind))
  /\ requests' = [requests EXCEPT ![r] = Free]
  /\ held' = held \ {r}
  /\ UNCHANGED <<appVars, syncState, syncerVars, netVars, counters>>

-----------------------------------------------------------------------------
(* The statements, each executed by whichever thread has come to it. *)

SetStarted(th) ==
  /\ \/ At(th, "start") /\ isStarted' = TRUE
     \/ At(th, "unstart") /\ isStarted' = FALSE
  /\ Done(th)
  /\ UNCHANGED <<appVars, syncState, state, timer, live, netVars, requests, held, counters>>

\* handleConnectionChange reads isStarted, and isConnected after it.
Handle(th) ==
  /\ At(th, "handle")
  /\ Run(th, IF isStarted THEN <<Do("branch")>> ELSE <<>>)
  /\ UNCHANGED <<appVars, syncState, syncerVars, netVars, requests, held, counters>>

Branch(th) ==
  /\ At(th, "branch")
  /\ Run(th, OnConnection(isConnected))
  /\ UNCHANGED <<appVars, syncState, syncerVars, netVars, requests, held, counters>>

\* state's setter: Ready equals Ready, a NotReady equals no other NotReady.
SetState(th) ==
  /\ At(th, "setState")
  /\ state' = Arg(th)
  /\ Run(th, IF state = "Ready" /\ Arg(th) = "Ready" THEN <<>> ELSE DidUpdate(Arg(th)))
  /\ UNCHANGED <<appVars, syncState, isStarted, timer, live, netVars, requests, held, counters>>

SetSync(th) ==
  /\ At(th, "setSync")
  /\ syncState' = Arg(th)
  /\ Done(th)
  /\ UNCHANGED <<appVars, syncerVars, netVars, requests, held, counters>>

Subscribe(th) ==
  /\ At(th, "subscribe")
  /\ \E r \in Requests : Unused(r)
  /\ LET r == CHOOSE r \in Requests : Unused(r) IN
       /\ requests' = [requests EXCEPT ![r] = [kind |-> Arg(th), phase |-> "sent", value |-> None]]
       /\ Run(th, <<With("hold", r)>>)
  /\ UNCHANGED <<appVars, syncState, syncerVars, netVars, held, counters>>

Hold(th) ==
  /\ At(th, "hold")
  /\ held' = IF requests[Arg(th)] = Free THEN held ELSE held \cup {Arg(th)}
  /\ Done(th)
  /\ UNCHANGED <<appVars, syncState, syncerVars, netVars, requests, counters>>

\* CompositeDisposable.clear: a request in its callback is not stopped.
Dispose(th) ==
  /\ At(th, "dispose")
  /\ LET disposed == {r \in held : Owner(requests[r].kind) = Arg(th)} IN
       /\ requests' = [r \in Requests |-> IF r \in disposed THEN Free ELSE requests[r]]
       /\ held' = held \ disposed
  /\ Done(th)
  /\ UNCHANGED <<appVars, syncState, syncerVars, netVars, counters>>

\* Which member of Timers, or of Requests, a new one is makes no difference.
Idle(t) == t \notin live /\ t # timer /\ todo[t] = <<>>

NewTimer(th) ==
  /\ At(th, "newTimer")
  /\ \E t \in Timers : Idle(t)
  /\ LET t == CHOOSE t \in Timers : Idle(t) IN
       /\ timer' = t
       /\ live' = live \cup {t}
  /\ Done(th)
  /\ UNCHANGED <<appVars, syncState, isStarted, state, netVars, requests, held, counters>>

CancelTimer(th) ==
  /\ At(th, "cancelTimer")
  /\ live' = live \ {timer}
  /\ Done(th)
  /\ UNCHANGED <<appVars, syncState, isStarted, state, timer, netVars, requests, held, counters>>

ForgetTimer(th) ==
  /\ At(th, "forgetTimer")
  /\ timer' = NoTimer
  /\ Done(th)
  /\ UNCHANGED <<appVars, syncState, isStarted, state, live, netVars, requests, held, counters>>

Save(th) ==
  /\ At(th, "save")
  /\ stored' = [stored EXCEPT ![Arg(th)] = Head(todo[th]).value]
  /\ Done(th)
  /\ UNCHANGED <<started, shown, syncState, syncerVars, netVars, requests, held, counters>>

\* EthereumKit.onUpdateLastBlockHeight, onUpdateAccountState and state.clear().
Show(th) ==
  /\ \/ At(th, "show") /\ shown' = [shown EXCEPT ![Arg(th)] = Head(todo[th]).value]
     \/ At(th, "clearShown") /\ shown' = [k \in {"height", "account"} |-> None]
  /\ Done(th)
  /\ UNCHANGED <<started, stored, syncState, syncerVars, netVars, requests, held, counters>>

Step(th) ==
  \/ SetStarted(th) \/ Handle(th) \/ Branch(th) \/ SetState(th) \/ SetSync(th)
  \/ Subscribe(th) \/ Hold(th) \/ Dispose(th)
  \/ NewTimer(th) \/ CancelTimer(th) \/ ForgetTimer(th) \/ Save(th) \/ Show(th)

Next ==
  \/ Start \/ Stop \/ RefreshCalled \/ EnterForeground \/ TransactionsHandled
  \/ ConnectionChanges \/ NewBlock
  \/ \E r \in Requests : Answer(r) \/ Fail(r) \/ Callback(r)
  \/ \E t \in Timers : FireTimer(t)
  \/ \E th \in Threads : Step(th)

Spec == Init /\ [][Next]_vars

(***************************************************************************)
(* Threads are scheduled and requests end.  A thread at subscribe or       *)
(* newTimer waits for the model's bounds only, hence strong fairness.      *)
(***************************************************************************)
Fairness ==
  /\ \A th \in Threads : SF_vars(Step(th))
  /\ \A r \in Requests : WF_vars(Answer(r) \/ Fail(r)) /\ WF_vars(Callback(r))

Refreshing == WF_vars(RefreshCalled)

RefreshedSpec == Spec /\ Fairness /\ Refreshing

(***************************************************************************)
(* While one thread at a time is inside this code: a syncer that is Ready  *)
(* polls, with the timer it will cancel, and a timer it refers to runs     *)
(* only while it is started and connected.                                 *)
(***************************************************************************)
ReadyPolls ==
  Quiet => /\ state = "Ready" => timer \in live
           /\ timer # NoTimer => timer \in live /\ isStarted /\ isConnected

(***************************************************************************)
(* While one thread at a time is inside this code, and refresh() is called *)
(* only between start() and stop(): the kit says Syncing only while a      *)
(* request for the account is on its way to end it.                        *)
(***************************************************************************)
SyncingHasWork ==
  Quiet /\ syncState = "Syncing" => \E r \in Requests : requests[r].kind = "account"

(***************************************************************************)
(* However the threads raced and whatever failed: when the connection has  *)
(* come to stay, an application that goes on calling refresh() is brought  *)
(* to Synced, with the chain's height and account stored and shown, and    *)
(* stays there.                                                            *)
(***************************************************************************)
Settled ==
  /\ syncState = "Synced"
  /\ \A k \in {"height", "account"} : stored[k] = height /\ shown[k] = height

RefreshRecovers == <>[]isConnected => <>[]Settled
=============================================================================
