---------------------------- MODULE ApiSyncProofs ----------------------------
(***************************************************************************)
(* Proofs about ApiSync, for every number of requests, timers, calls,       *)
(* connection changes, failures and polls.                                 *)
(***************************************************************************)
EXTENDS ApiSync, SequenceTheorems, FiniteSetTheorems, TLAPS

-----------------------------------------------------------------------------
(* What a thread may still have to execute.  At...(s) says which statement    *)
(* comes next and what may follow it.                                       *)

Is(s, op) == s # <<>> /\ Head(s).op = op
IsWith(s, op, arg) == Is(s, op) /\ Head(s).arg = arg

AtClear(s) == Is(s, "clearShown") /\ Tail(s) = <<>>
AtForget(s) == Is(s, "forgetTimer") /\ (Tail(s) = <<>> \/ AtClear(Tail(s)))
AtCancel(s) == Is(s, "cancelTimer") /\ AtForget(Tail(s))
AtDisposeSyncer(s) == IsWith(s, "dispose", "syncer") /\ AtCancel(Tail(s))
AtDispose(s) ==
  /\ IsWith(s, "dispose", "blockchain")
  /\ Tail(s) = <<>> \/ AtCancel(Tail(s)) \/ AtDisposeSyncer(Tail(s))
AtNotSynced(s) == IsWith(s, "setSync", "NotSynced") /\ (Tail(s) = <<>> \/ AtDispose(Tail(s)))
AtNotReady(s) ==
  /\ IsWith(s, "setState", "NotReady")
  /\ Tail(s) = <<>> \/ AtCancel(Tail(s)) \/ AtDisposeSyncer(Tail(s))
AtUnstart(s) == Is(s, "unstart") /\ AtNotReady(Tail(s)) /\ AtDisposeSyncer(Tail(Tail(s)))

AtNewTimer(s) == Is(s, "newTimer") /\ Tail(s) = <<>>
AtHeight(s) == IsWith(s, "subscribe", "height") /\ (Tail(s) = <<>> \/ AtNewTimer(Tail(s)))
AtHold(s) == Is(s, "hold") /\ (Tail(s) = <<>> \/ AtNewTimer(Tail(s)) \/ AtHeight(Tail(s)))
AtAccount(s) == IsWith(s, "subscribe", "account") /\ (Tail(s) = <<>> \/ AtHeight(Tail(s)))
AtPoll(s) == IsWith(s, "subscribe", "poll") /\ Tail(s) = <<>>
AtHandle(s) == Is(s, "handle") /\ Tail(s) = <<>>
AtBranch(s) == Is(s, "branch") /\ Tail(s) = <<>>
AtStart(s) == Is(s, "start") /\ AtHandle(Tail(s))
AtReady(s) == IsWith(s, "setState", "Ready") /\ AtNewTimer(Tail(s))
AtSyncing(s) == IsWith(s, "setSync", "Syncing") /\ (AtStart(Tail(s)) \/ AtAccount(Tail(s)))

AtSynced(s) == IsWith(s, "setSync", "Synced") /\ Tail(s) = <<>>
AtShow(s) == Is(s, "show") /\ (Tail(s) = <<>> \/ AtSynced(Tail(s)))
AtSave(s) == Is(s, "save") /\ AtShow(Tail(s))

Stops(s) == AtClear(s) \/ AtForget(s) \/ AtCancel(s) \/ AtDisposeSyncer(s) \/ AtDispose(s)
            \/ AtNotSynced(s) \/ AtNotReady(s) \/ AtUnstart(s)
Fetches(s) == AtNewTimer(s) \/ AtHeight(s) \/ AtHold(s) \/ AtAccount(s) \/ AtPoll(s)
              \/ AtHandle(s) \/ AtBranch(s) \/ AtStart(s) \/ AtReady(s) \/ AtSyncing(s)
Stores(s) == AtSynced(s) \/ AtShow(s) \/ AtSave(s)

\* The statement a thread ends with tells why it runs.
End(s) == s[Len(s)].op

-----------------------------------------------------------------------------
(* One thread at a time, which never waits for a member of Requests           *)

\* It may still launch two requests, or one.
MayLaunchTwo(s) ==
  \/ Head(s).op \in {"start", "handle", "branch"}
  \/ IsWith(s, "setState", "Ready") \/ IsWith(s, "setSync", "Syncing") \/ IsWith(s, "subscribe", "account")
MayLaunch(s) ==
  IsWith(s, "subscribe", "height") \/ IsWith(s, "subscribe", "poll") \/ (Is(s, "hold") /\ AtHeight(Tail(s)))

OneRuns == \A t, u \in Threads : todo[t] # <<>> /\ todo[u] # <<>> => t = u

Placed ==
  \A th \in Threads : todo[th] # <<>> =>
    /\ Stops(todo[th]) \/ Fetches(todo[th]) \/ Stores(todo[th])
    /\ MayLaunchTwo(todo[th]) => Room
    /\ MayLaunch(todo[th]) => \E r \in Requests : Unused(r)

-----------------------------------------------------------------------------
(* ReadyPolls, and what holds of it at each statement of the one thread       *)

TimerRuns == (state = "Ready" => timer \in live) /\ (timer # NoTimer => timer \in live /\ isStarted)
Polling == TimerRuns /\ (timer # NoTimer => isConnected)

PollsAt(s) ==
  /\ End(s) = "newTimer" => isStarted /\ isConnected
  /\ End(s) \in {"handle", "branch"} => TimerRuns
  /\ End(s) = "branch" => isStarted
  /\ End(s) \in {"forgetTimer", "clearShown"} /\ Head(s).op \notin {"unstart", "setState"} => state = "NotReady"
  /\ Head(s).op = "clearShown" => timer = NoTimer
  /\ End(s) \notin {"newTimer", "handle", "branch", "forgetTimer", "clearShown"} => Polling

PollsInv == (Quiet => Polling) /\ \A th \in Threads : todo[th] # <<>> => PollsAt(todo[th])

-----------------------------------------------------------------------------
(* SyncingHasWork likewise                                                  *)

HasWork == syncState = "Syncing" => \E r \in Requests : requests[r].kind = "account"
StoppedIsNotReady == ~started => ~isStarted /\ state = "NotReady"

\* Statements that come after the one that ended the sync or launched its request, or that
\* have nothing to do with it
WorkIsNext(s) ==
  \/ Head(s).op \in {"hold", "newTimer", "cancelTimer", "forgetTimer", "clearShown"}
  \/ Head(s).op = "subscribe" /\ Head(s).arg # "account"
  \/ Head(s).op \in {"save", "show"} /\ End(s) = "show"

WorkAt(s) ==
  /\ IF End(s) = "clearShown" THEN Head(s).op # "unstart" => ~isStarted ELSE StoppedIsNotReady
  /\ End(s) = "clearShown" /\ Head(s).op \notin {"unstart", "setState"} => state = "NotReady"
  /\ IsWith(s, "setSync", "Syncing") /\ End(s) = "handle" => started /\ state = "NotReady"
  /\ Head(s).op = "start" => started
  /\ (Head(s).op \in {"start", "branch"} \/ IsWith(s, "setState", "Ready")) => (HasWork \/ state = "NotReady")
  /\ Head(s).op = "handle" => HasWork \/ (isStarted /\ state = "NotReady")
  /\ Head(s).op = "dispose" => syncState = "NotSynced"
  /\ WorkIsNext(s) => HasWork

WorkInv ==
  /\ Quiet => HasWork /\ StoppedIsNotReady
  /\ \A th \in Threads : todo[th] # <<>> => WorkAt(todo[th])

-----------------------------------------------------------------------------
(* Lists of statements: what comes first, and what is put before it           *)

LEMMA HeadAndTail ==
  ASSUME NEW T, NEW s \in Seq(T), s # <<>>
  PROVE  Head(s) \in T /\ Tail(s) \in Seq(T) /\ Head(s) = s[1] /\ Len(s) \in Nat /\ Len(s) > 0
         /\ Len(Tail(s)) = Len(s) - 1 /\ \A i \in 1 .. Len(s) - 1 : Tail(s)[i] = s[i + 1]
  BY HeadTailProperties

LEMMA PutBefore ==
  ASSUME NEW T, NEW x \in T, NEW s \in Seq(T)
  PROVE  LET t == <<x>> \o s
         IN  t \in Seq(T) /\ t # <<>> /\ Head(t) = x /\ Tail(t) = s /\ Len(t) = Len(s) + 1
             /\ t[1] = x /\ \A i \in 1 .. Len(s) : t[i + 1] = s[i]
<1> DEFINE t == <<x>> \o s
<1>1. <<x>> \in Seq(T) /\ Len(<<x>>) = 1 /\ <<x>>[1] = x
  OBVIOUS
<1>2. Len(s) \in Nat /\ DOMAIN s = 1 .. Len(s)
  BY LenProperties
<1>3. t \in Seq(T) /\ Len(t) = 1 + Len(s) /\ \A i \in 1 .. 1 + Len(s) : t[i] = IF i <= 1 THEN <<x>>[i] ELSE s[i - 1]
  BY <1>1, ConcatProperties
<1>4. t[1] = x /\ \A i \in 1 .. Len(s) : t[i + 1] = s[i]
  <2>1. \A i \in 1 .. Len(s) : i + 1 \in 1 .. 1 + Len(s) /\ ~(i + 1 <= 1) /\ i + 1 - 1 = i
    BY <1>2
  <2> QED BY <1>1, <1>2, <1>3, <2>1
<1> HIDE DEF t
<1>5. t # <<>>
  BY <1>2, <1>3
<1>6. Tail(t) = s
  <2>1. Tail(t) \in Seq(T) /\ Len(Tail(t)) = Len(s) /\ \A i \in 1 .. Len(s) : Tail(t)[i] = s[i]
    <3>1. Tail(t) \in Seq(T) /\ Len(Tail(t)) = Len(t) - 1 /\ \A i \in 1 .. Len(t) - 1 : Tail(t)[i] = t[i + 1]
      BY <1>3, <1>5, HeadAndTail
    <3> QED BY <1>2, <1>3, <1>4, <3>1
  <2> QED BY <2>1, SeqEqual
<1>7. Head(t) = x
  BY <1>3, <1>4, <1>5, HeadAndTail
<1> QED BY <1>2, <1>3, <1>4, <1>5, <1>6, <1>7 DEF t

LEMMA PutNothingBefore == ASSUME NEW T, NEW s \in Seq(T) PROVE <<>> \o s = s
  BY ConcatEmptySeq

LEMMA PutTwoBefore ==
  ASSUME NEW T, NEW x \in T, NEW y \in T, NEW s \in Seq(T)
  PROVE  <<x, y>> \o s = <<x>> \o (<<y>> \o s)
<1>1. <<x, y>> = <<x>> \o <<y>>
  <2>1. <<y>> \in Seq(T) /\ Len(<<y>>) = 1 /\ <<y>>[1] = y
    OBVIOUS
  <2>2. <<x>> \o <<y>> \in Seq(T) /\ Len(<<x>> \o <<y>>) = 2 /\ (<<x>> \o <<y>>)[1] = x /\ (<<x>> \o <<y>>)[2] = y
    BY <2>1, PutBefore
  <2>3. <<x, y>> \in Seq(T) /\ Len(<<x, y>>) = 2 /\ <<x, y>>[1] = x /\ <<x, y>>[2] = y
    OBVIOUS
  <2>4. \A i \in 1 .. Len(<<x, y>>) : <<x, y>>[i] = (<<x>> \o <<y>>)[i]
    <3>1. 1 .. Len(<<x, y>>) = {1, 2}
      BY <2>3
    <3> QED BY <2>2, <2>3, <3>1
  <2> QED BY <2>2, <2>3, <2>4, SeqEqual
<1>2. <<x>> \in Seq(T) /\ <<y>> \in Seq(T)
  OBVIOUS
<1> QED BY <1>1, <1>2, ConcatAssociative

-----------------------------------------------------------------------------
(* The statements                                                           *)

LEMMA PlainStatements ==
  \A op \in {"start", "unstart", "handle", "branch", "newTimer", "cancelTimer", "forgetTimer", "clearShown"} :
     Do(op) \in Statements /\ Do(op).op = op /\ Do(op).arg = ""
  BY DEF Do, Statements

LEMMA SetStatements ==
  /\ \A a \in {"Ready", "NotReady"} :
       With("setState", a) \in Statements /\ With("setState", a).op = "setState" /\ With("setState", a).arg = a
  /\ \A a \in {"NotSynced", "Syncing", "Synced"} :
       With("setSync", a) \in Statements /\ With("setSync", a).op = "setSync" /\ With("setSync", a).arg = a
  BY DEF With, Statements

LEMMA RequestStatements ==
  /\ \A a \in Kinds : Launch(a) \in Statements /\ Launch(a).op = "subscribe" /\ Launch(a).arg = a
  /\ \A a \in Requests : With("hold", a) \in Statements /\ With("hold", a).op = "hold" /\ With("hold", a).arg = a
  /\ \A a \in Owners : With("dispose", a) \in Statements /\ With("dispose", a).op = "dispose" /\ With("dispose", a).arg = a
  BY DEF With, Launch, Statements

LEMMA PutStatements ==
  \A op \in {"save", "show"}, k \in {"height", "account"}, v \in Values :
     Put(op, k, v) \in Statements /\ Put(op, k, v).op = op
  BY DEF Put, Statements

\* What a statement's argument is
LEMMA Arguments ==
  ASSUME NEW x \in Statements
  PROVE  /\ x.op = "setState" => x.arg \in {"Ready", "NotReady"}
         /\ x.op = "setSync" => x.arg \in {"NotSynced", "Syncing", "Synced"}
         /\ x.op = "subscribe" => x.arg \in Kinds
         /\ x.op = "hold" => x.arg \in Requests
         /\ x.op = "dispose" => x.arg \in Owners
         /\ x.op \in {"save", "show"} => x.arg \in {"height", "account"} /\ x.value \in Values
  BY DEF Statements

LEMMA ListsOfStatements ==
  /\ \A x \in Statements : <<x>> \in Seq(Statements)
  /\ \A x, y \in Statements : <<x, y>> \in Seq(Statements)
  /\ \A x, y, z \in Statements : <<x, y, z>> \in Seq(Statements)
  OBVIOUS

LEMMA HandlersAreStatements ==
  /\ SyncAccountState \in Seq(Statements) /\ Fetch \in Seq(Statements) /\ SyncerStart \in Seq(Statements)
  /\ OnReady \in Seq(Statements) /\ OnNotReady \in Seq(Statements) /\ StopTimer \in Seq(Statements)
  /\ SyncerStop \in Seq(Statements) /\ KitStop \in Seq(Statements)
<1> USE PlainStatements, SetStatements, RequestStatements, ListsOfStatements
<1>1. Launch("account") \in Statements /\ Launch("height") \in Statements
  BY DEF Kinds
<1>2. SyncAccountState \in Seq(Statements) /\ <<Launch("height")>> \in Seq(Statements)
  BY <1>1 DEF SyncAccountState
<1>3. Fetch \in Seq(Statements)
  BY <1>2, ConcatProperties DEF Fetch
<1>4. SyncerStart \in Seq(Statements)
  BY DEF SyncerStart
<1>5. <<With("setSync", "Syncing")>> \in Seq(Statements)
  OBVIOUS
<1>6. OnReady \in Seq(Statements)
  BY <1>3, <1>5, ConcatProperties DEF OnReady
<1>7. OnNotReady \in Seq(Statements) /\ StopTimer \in Seq(Statements)
  BY DEF OnNotReady, StopTimer, Owners
<1>8. <<Do("unstart"), With("setState", "NotReady"), With("dispose", "syncer")>> \in Seq(Statements)
  BY DEF Owners
<1>9. SyncerStop \in Seq(Statements)
  BY <1>7, <1>8, ConcatProperties DEF SyncerStop
<1>10. <<Do("clearShown")>> \in Seq(Statements)
  OBVIOUS
<1>11. KitStop \in Seq(Statements)
  BY <1>9, <1>10, ConcatProperties DEF KitStop
<1> QED BY <1>2, <1>3, <1>4, <1>6, <1>7, <1>9, <1>11

LEMMA ConnectionStatements == ASSUME NEW c \in BOOLEAN PROVE OnConnection(c) \in Seq(Statements)
<1>1. <<With("setState", "Ready"), Do("newTimer")>> \in Seq(Statements) /\ <<With("setState", "NotReady")>> \in Seq(Statements)
  BY PlainStatements, SetStatements, ListsOfStatements
<1>2. <<With("setState", "NotReady")>> \o StopTimer \in Seq(Statements)
  BY <1>1, HandlersAreStatements, ConcatProperties
<1> QED BY <1>1, <1>2 DEF OnConnection

LEMMA CallbackStatements ==
  ASSUME NEW kind \in Kinds
  PROVE  OnFailure(kind) \in Seq(Statements) /\ \A v \in Values : OnSuccess(kind, v) \in Seq(Statements)
<1>1. OnFailure(kind) \in Seq(Statements)
  BY SetStatements, ListsOfStatements DEF OnFailure
<1>2. ASSUME NEW v \in Values PROVE OnSuccess(kind, v) \in Seq(Statements)
  <2>1. Datum(kind) \in {"height", "account"}
    BY DEF Datum
  <2>2. Update(Datum(kind), v) \in Seq(Statements)
    BY <2>1, PutStatements, ListsOfStatements DEF Update
  <2>3. <<With("setSync", "Synced")>> \in Seq(Statements) /\ <<>> \in Seq(Statements)
    BY SetStatements, ListsOfStatements
  <2> QED BY <2>2, <2>3, ConcatProperties DEF OnSuccess
<1> QED BY <1>1, <1>2

-----------------------------------------------------------------------------
(* Types                                                                    *)

LEMMA BoundsAreNaturals ==
  /\ MaxHeight \in Nat /\ MaxCalls \in Nat /\ MaxChanges \in Nat /\ MaxFailures \in Nat
  /\ MaxPolls \in Nat /\ MaxNotices \in Nat /\ Overlap \in Nat /\ MaxInputs \in Nat
  BY BoundsAssumption

LEMMA InitTypeOK == ASSUME Init PROVE TypeOK
<1>1. \A th \in Threads : <<>> \in Seq(Statements)
  OBVIOUS
<1>2. stored \in [{"height", "account"} -> Values \cup {None}] /\ shown \in [{"height", "account"} -> Values \cup {None}]
  BY DEF Init
<1>3. requests \in [Requests -> [kind : Kinds, phase : {"sent", "failed"}, value : {None}]
                          \cup [kind : Kinds, phase : {"answered"}, value : Values]
                          \cup {Free}]
  BY DEF Init
<1>4. todo \in [Threads -> Seq(Statements)]
  BY <1>1 DEF Init
<1>5. height \in Values /\ calls \in 0..MaxCalls /\ changes \in 0..MaxChanges /\ failures \in 0..MaxFailures
      /\ polls \in 0..MaxPolls /\ notices \in 0..MaxNotices
  BY BoundsAreNaturals DEF Init, Values
<1> QED BY <1>2, <1>3, <1>4, <1>5 DEF Init, TypeOK

\* A thread that begins with a handler, and one that goes on
LEMMA BeginTypes ==
  ASSUME TypeOK, NEW th \in Threads, NEW steps \in Seq(Statements), Begin(th, steps)
  PROVE  todo' \in [Threads -> Seq(Statements)]
  BY DEF TypeOK, Begin

LEMMA RunTypes ==
  ASSUME TypeOK, NEW th \in Threads, todo[th] # <<>>, NEW steps \in Seq(Statements), Run(th, steps)
  PROVE  todo' \in [Threads -> Seq(Statements)]
<1>1. todo[th] \in Seq(Statements)
  BY DEF TypeOK
<1>2. Tail(todo[th]) \in Seq(Statements)
  BY <1>1, HeadAndTail
<1>3. steps \o Tail(todo[th]) \in Seq(Statements)
  BY <1>2, ConcatProperties
<1> QED BY <1>3 DEF TypeOK, Run

LEMMA DoneTypes ==
  ASSUME TypeOK, NEW th \in Threads, todo[th] # <<>>, Done(th)
  PROVE  todo' \in [Threads -> Seq(Statements)]
<1>1. <<>> \in Seq(Statements)
  OBVIOUS
<1> QED BY <1>1, RunTypes DEF Done

LEMMA ThreadsAre ==
  /\ "app" \in Threads /\ "connectivity" \in Threads /\ "transactions" \in Threads
  /\ Requests \subseteq Threads /\ Timers \subseteq Threads
  BY DEF Threads

\* What the application, the connection and the timers begin
LEMMA CallsTypeOK ==
  ASSUME TypeOK, Start \/ Stop \/ RefreshCalled \/ EnterForeground \/ TransactionsHandled \/ ConnectionChanges
                 \/ \E t \in Timers : FireTimer(t)
  PROVE  TypeOK'
<1> USE ThreadsAre, BoundsAreNaturals
<1> DEFINE Same == UNCHANGED <<stored, syncerVars, requests, held, height, failures, syncState, shown>>
<1>1. CASE Start
  <2>1. <<With("setSync", "Syncing")>> \o SyncerStart \in Seq(Statements)
    BY SetStatements, ListsOfStatements, HandlersAreStatements, ConcatProperties
  <2>2. todo' \in [Threads -> Seq(Statements)]
    BY <1>1, <2>1, BeginTypes DEF Start
  <2> QED BY <1>1, <2>2 DEF Start, TypeOK, syncerVars, netVars
<1>2. CASE Stop
  <2>2. todo' \in [Threads -> Seq(Statements)]
    BY <1>2, HandlersAreStatements, BeginTypes DEF Stop
  <2>3. started' \in BOOLEAN
    <3>1. started' = FALSE
      BY <1>2 DEF Stop
    <3> QED BY <3>1, Zenon
  <2>4. calls' \in 0..MaxCalls
    BY <1>2 DEF Stop, TypeOK
  <2> QED BY <1>2, <2>2, <2>3, <2>4 DEF Stop, TypeOK, syncerVars, netVars
<1>3. CASE RefreshCalled
  <2>1. Refresh(state) \in Seq(Statements)
    BY HandlersAreStatements DEF Refresh
  <2>2. todo' \in [Threads -> Seq(Statements)]
    BY <1>3, <2>1, BeginTypes DEF RefreshCalled
  <2> QED BY <1>3, <2>2 DEF RefreshCalled, TypeOK, appVars, syncerVars, netVars, counters
<1>4. <<Do("handle")>> \in Seq(Statements)
  BY PlainStatements, ListsOfStatements
<1>5. CASE EnterForeground
  <2>2. todo' \in [Threads -> Seq(Statements)]
    BY <1>4, <1>5, BeginTypes DEF EnterForeground
  <2> QED BY <1>5, <2>2 DEF EnterForeground, TypeOK, appVars, syncerVars
<1>6. CASE TransactionsHandled
  <2>2. todo' \in [Threads -> Seq(Statements)]
    BY <1>6, HandlersAreStatements, BeginTypes DEF TransactionsHandled
  <2> QED BY <1>6, <2>2 DEF TransactionsHandled, TypeOK, appVars, syncerVars, netVars
<1>7. CASE ConnectionChanges
  <2>2. todo' \in [Threads -> Seq(Statements)]
    BY <1>4, <1>7, BeginTypes DEF ConnectionChanges
  <2> QED BY <1>7, <2>2 DEF ConnectionChanges, TypeOK, appVars, syncerVars
<1>8. ASSUME NEW t \in Timers, FireTimer(t) PROVE TypeOK'
  <2>1. <<Launch("poll")>> \in Seq(Statements)
    BY RequestStatements, ListsOfStatements DEF Kinds
  <2>2. todo' \in [Threads -> Seq(Statements)]
    BY <1>8, <2>1, BeginTypes DEF FireTimer
  <2> QED BY <1>8, <2>2 DEF FireTimer, TypeOK, appVars, syncerVars, netVars
<1> QED BY <1>1, <1>2, <1>3, <1>5, <1>6, <1>7, <1>8

\* A request is free, at the node, or answered or failed and not yet called back.
AtNode == [kind : Kinds, phase : {"sent", "failed"}, value : {None}]
Answered == [kind : Kinds, phase : {"answered"}, value : Values]

LEMMA RequestsAre ==
  ASSUME TypeOK, NEW r \in Requests
  PROVE  /\ requests[r] \in AtNode \cup Answered \cup {Free}
         /\ requests[r].phase # "free" => requests[r].kind \in Kinds /\ requests[r] # Free
         /\ requests[r].phase = "answered" => requests[r].value \in Values
         /\ requests[r].phase = "free" <=> requests[r] = Free
         /\ requests[r].phase = "sent" => requests[r].value = None
<1>1. requests[r] \in AtNode \cup Answered \cup {Free}
  BY DEF TypeOK, AtNode, Answered
<1> QED BY <1>1 DEF AtNode, Answered, Free

\* The chain and the node
LEMMA NodeTypeOK ==
  ASSUME TypeOK, NewBlock \/ \E r \in Requests : Answer(r) \/ Fail(r)
  PROVE  TypeOK'
<1> USE BoundsAreNaturals
<1>1. CASE NewBlock
  BY <1>1 DEF NewBlock, TypeOK, Values, appVars, syncerVars, counters
<1>2. ASSUME NEW r \in Requests, Answer(r) PROVE TypeOK'
  <2>1. requests[r] \in AtNode /\ requests \in [Requests -> AtNode \cup Answered \cup {Free}]
    BY <1>2, RequestsAre DEF Answer, TypeOK, AtNode, Answered, Free
  <2>2. requests' = [requests EXCEPT ![r] = [[requests[r] EXCEPT !.phase = "answered"] EXCEPT !.value = height]]
    BY <1>2 DEF Answer
  <2>3. [[requests[r] EXCEPT !.phase = "answered"] EXCEPT !.value = height] \in Answered
    <3>1. height \in Values
      BY DEF TypeOK
    <3>2. [requests[r] EXCEPT !.phase = "answered"] \in [kind : Kinds, phase : {"answered"}, value : {None}]
      BY <2>1 DEF AtNode
    <3> QED BY <3>1, <3>2 DEF Answered
  <2>4. requests' \in [Requests -> AtNode \cup Answered \cup {Free}]
    BY <2>1, <2>2, <2>3
  <2> QED BY <1>2, <2>4 DEF Answer, TypeOK, AtNode, Answered, appVars, syncerVars, netVars, counters
<1>3. ASSUME NEW r \in Requests, Fail(r) PROVE TypeOK'
  <2>1. requests[r] \in AtNode
    BY <1>3, RequestsAre DEF Fail, Answered, Free
  <2>2. [requests[r] EXCEPT !.phase = "failed"] \in AtNode
    BY <2>1 DEF AtNode
  <2>3. requests' = [requests EXCEPT ![r] = [requests[r] EXCEPT !.phase = "failed"]]
    BY <1>3 DEF Fail
  <2>4. requests' \in [Requests -> AtNode \cup Answered \cup {Free}]
    BY <2>2, <2>3 DEF TypeOK, AtNode, Answered
  <2> QED BY <1>3, <2>4 DEF Fail, TypeOK, AtNode, Answered, appVars, syncerVars, netVars
<1> QED BY <1>1, <1>2, <1>3

\* What a callback runs
LEMMA CallbackSteps ==
  ASSUME TypeOK, NEW r \in Requests, Callback(r)
  PROVE  \E steps \in Seq(Statements) :
           /\ Begin(r, steps)
           /\ \/ requests[r].phase = "answered" /\ steps = OnSuccess(requests[r].kind, requests[r].value)
              \/ requests[r].phase = "failed" /\ steps = OnFailure(requests[r].kind)
           /\ requests[r].kind \in Kinds
<1>1. requests[r].kind \in Kinds /\ (requests[r].phase = "answered" => requests[r].value \in Values)
  BY RequestsAre DEF Callback
<1>2. CASE requests[r].phase = "answered"
  BY <1>1, <1>2, CallbackStatements DEF Callback
<1>3. CASE requests[r].phase = "failed"
  BY <1>1, <1>3, CallbackStatements DEF Callback
<1> QED BY <1>2, <1>3 DEF Callback

LEMMA CallbackTypeOK == ASSUME TypeOK, NEW r \in Requests, Callback(r) PROVE TypeOK'
<1>1. todo' \in [Threads -> Seq(Statements)]
  BY CallbackSteps, BeginTypes, ThreadsAre
<1> QED BY <1>1 DEF Callback, TypeOK, appVars, syncerVars, netVars, counters

\* The statements
LEMMA StepTypeOK == ASSUME TypeOK, NEW th \in Threads, Step(th) PROVE TypeOK'
<1>1. todo[th] # <<>>
  BY DEF Step, SetStarted, Handle, Branch, SetState, SetSync, Subscribe, Hold, Dispose, NewTimer, CancelTimer,
         ForgetTimer, Save, Show, At
<1>2. todo[th] \in Seq(Statements)
  BY DEF TypeOK
<1>3. Head(todo[th]) \in Statements
  BY <1>1, <1>2, HeadAndTail
<1> DEFINE x == Head(todo[th])
<1>4. /\ x.op = "setState" => x.arg \in {"Ready", "NotReady"}
      /\ x.op = "setSync" => x.arg \in {"NotSynced", "Syncing", "Synced"}
      /\ x.op = "subscribe" => x.arg \in Kinds
      /\ x.op = "hold" => x.arg \in Requests
      /\ x.op \in {"save", "show"} => x.arg \in {"height", "account"} /\ x.value \in Values
  BY <1>3, Arguments
<1>5. Done(th) => todo' \in [Threads -> Seq(Statements)]
  BY <1>1, DoneTypes
<1>6. \A steps \in Seq(Statements) : Run(th, steps) => todo' \in [Threads -> Seq(Statements)]
  BY <1>1, RunTypes
<1>7. <<>> \in Seq(Statements)
  OBVIOUS
<1>8. ASSUME Done(th), UNCHANGED <<height, counters>>,
             started' \in BOOLEAN, shown' \in [{"height", "account"} -> Values \cup {None}],
             stored' \in [{"height", "account"} -> Values \cup {None}],
             syncState' \in {"NotSynced", "Syncing", "Synced"}, isStarted' \in BOOLEAN, state' = state,
             timer' \in Timers \cup {NoTimer}, live' \subseteq Timers, isConnected' = isConnected,
             requests' \in [Requests -> AtNode \cup Answered \cup {Free}], held' \subseteq Requests
      PROVE  TypeOK'
  <2>1. todo' \in [Threads -> Seq(Statements)]
    BY <1>5, <1>8
  <2> QED BY <1>8, <2>1 DEF TypeOK, AtNode, Answered, counters
<1>9. requests \in [Requests -> AtNode \cup Answered \cup {Free}]
  BY DEF TypeOK, AtNode, Answered
<1> HIDE DEF x
<1>10. CASE SetStarted(th)
  <2>1. isStarted' \in BOOLEAN
    <3>1. isStarted' = TRUE \/ isStarted' = FALSE
      BY <1>10 DEF SetStarted
    <3> QED BY <3>1, Zenon
  <2> QED BY <1>8, <1>9, <1>10, <2>1 DEF SetStarted, TypeOK, appVars, netVars
<1>11. CASE Handle(th)
  <2>1. (IF isStarted THEN <<Do("branch")>> ELSE <<>>) \in Seq(Statements)
    BY <1>7, PlainStatements, ListsOfStatements
  <2>2. todo' \in [Threads -> Seq(Statements)]
    BY <1>6, <1>11, <2>1 DEF Handle
  <2> QED BY <1>11, <2>2 DEF Handle, TypeOK, appVars, syncerVars, netVars, counters
<1>12. CASE Branch(th)
  <2>1. OnConnection(isConnected) \in Seq(Statements)
    BY ConnectionStatements DEF TypeOK
  <2>2. todo' \in [Threads -> Seq(Statements)]
    BY <1>6, <1>12, <2>1 DEF Branch
  <2> QED BY <1>12, <2>2 DEF Branch, TypeOK, appVars, syncerVars, netVars, counters
<1>13. CASE SetState(th)
  <2>1. DidUpdate(Arg(th)) \in Seq(Statements)
    BY HandlersAreStatements DEF DidUpdate
  <2>2. (IF state = "Ready" /\ Arg(th) = "Ready" THEN <<>> ELSE DidUpdate(Arg(th))) \in Seq(Statements)
    BY <1>7, <2>1
  <2>3. todo' \in [Threads -> Seq(Statements)]
    BY <1>6, <1>13, <2>2 DEF SetState
  <2>4. state' \in {"Ready", "NotReady"}
    BY <1>4, <1>13 DEF SetState, At, Arg, x
  <2> QED BY <1>13, <2>3, <2>4 DEF SetState, TypeOK, appVars, netVars, counters
<1>14. CASE SetSync(th)
  <2>1. syncState' \in {"NotSynced", "Syncing", "Synced"}
    BY <1>4, <1>14 DEF SetSync, At, Arg, x
  <2> QED BY <1>8, <1>9, <1>14, <2>1 DEF SetSync, TypeOK, appVars, syncerVars, netVars
<1>15. CASE Subscribe(th)
  <2>1. PICK r \in Requests : /\ requests' = [requests EXCEPT ![r] = [kind |-> Arg(th), phase |-> "sent", value |-> None]]
                              /\ Run(th, <<With("hold", r)>>)
    BY <1>15 DEF Subscribe
  <2>2. <<With("hold", r)>> \in Seq(Statements)
    BY RequestStatements, ListsOfStatements
  <2>3. todo' \in [Threads -> Seq(Statements)]
    BY <1>6, <2>1, <2>2
  <2>4. [kind |-> Arg(th), phase |-> "sent", value |-> None] \in AtNode
    BY <1>4, <1>15 DEF Subscribe, At, Arg, x, AtNode
  <2>5. requests' \in [Requests -> AtNode \cup Answered \cup {Free}]
    BY <1>9, <2>1, <2>4
  <2> QED BY <1>15, <2>3, <2>5 DEF Subscribe, TypeOK, appVars, syncerVars, netVars, counters, AtNode, Answered
<1>16. CASE Hold(th)
  <2>1. held' \subseteq Requests
    <3>1. Arg(th) \in Requests
      BY <1>4, <1>16 DEF Hold, At, Arg, x
    <3> QED BY <1>16, <3>1 DEF Hold, TypeOK
  <2> QED BY <1>8, <1>9, <1>16, <2>1 DEF Hold, TypeOK, appVars, syncerVars, netVars
<1>17. CASE Dispose(th)
  <2>1. held' \subseteq Requests
    BY <1>17 DEF Dispose, TypeOK
  <2>2. requests' \in [Requests -> AtNode \cup Answered \cup {Free}]
    BY <1>9, <1>17 DEF Dispose
  <2> QED BY <1>8, <1>17, <2>1, <2>2 DEF Dispose, TypeOK, appVars, syncerVars, netVars
<1>18. CASE NewTimer(th)
  <2>1. timer' \in Timers /\ live' = live \cup {timer'}
    BY <1>18 DEF NewTimer
  <2>2. live' \subseteq Timers
    BY <2>1 DEF TypeOK
  <2> QED BY <1>8, <1>9, <1>18, <2>1, <2>2 DEF NewTimer, TypeOK, appVars, netVars
<1>19. CASE CancelTimer(th)
  BY <1>8, <1>9, <1>19 DEF CancelTimer, TypeOK, appVars, netVars
<1>20. CASE ForgetTimer(th)
  BY <1>8, <1>9, <1>20 DEF ForgetTimer, TypeOK, appVars, netVars
<1>21. CASE Save(th)
  <2>1. stored' \in [{"height", "account"} -> Values \cup {None}]
    <3>1. Arg(th) \in {"height", "account"} /\ Head(todo[th]).value \in Values
      BY <1>4, <1>21 DEF Save, At, Arg, x
    <3> QED BY <1>21, <3>1 DEF Save, TypeOK
  <2> QED BY <1>8, <1>9, <1>21, <2>1 DEF Save, TypeOK, syncerVars, netVars
<1>22. CASE Show(th)
  <2>1. shown' \in [{"height", "account"} -> Values \cup {None}]
    <3>1. CASE At(th, "show")
      <4>1. Arg(th) \in {"height", "account"} /\ Head(todo[th]).value \in Values
        BY <1>4, <3>1 DEF At, Arg, x
      <4>2. shown' = [shown EXCEPT ![Arg(th)] = Head(todo[th]).value]
        BY <1>22, <3>1 DEF Show, At
      <4> QED BY <4>1, <4>2 DEF TypeOK
    <3>2. CASE ~At(th, "show")
      BY <1>22, <3>2 DEF Show
    <3> QED BY <3>1, <3>2
  <2> QED BY <1>8, <1>9, <1>22, <2>1 DEF Show, TypeOK, syncerVars, netVars
<1> QED BY <1>10, <1>11, <1>12, <1>13, <1>14, <1>15, <1>16, <1>17, <1>18, <1>19, <1>20, <1>21, <1>22 DEF Step

\* The variables keep their types however many threads are inside this code at once, whichever
\* requests fail and whenever they are disposed (EthereumKit, RpcBlockchain, ApiRpcSyncer).
THEOREM TypeCorrect == Spec => []TypeOK
<1>1. Init => TypeOK
  BY InitTypeOK
<1>2. TypeOK /\ [Next]_vars => TypeOK'
  <2> SUFFICES ASSUME TypeOK, [Next]_vars PROVE TypeOK'
    OBVIOUS
  <2>1. CASE UNCHANGED vars
    BY <2>1 DEF vars, TypeOK, appVars, syncerVars, netVars, counters
  <2>2. CASE Start \/ Stop \/ RefreshCalled \/ EnterForeground \/ TransactionsHandled \/ ConnectionChanges
             \/ \E t \in Timers : FireTimer(t)
    BY <2>2, CallsTypeOK
  <2>3. CASE NewBlock \/ \E r \in Requests : Answer(r) \/ Fail(r)
    BY <2>3, NodeTypeOK
  <2>4. CASE \E r \in Requests : Callback(r)
    BY <2>4, CallbackTypeOK
  <2>5. CASE \E th \in Threads : Step(th)
    BY <2>5, StepTypeOK
  <2> QED BY <2>1, <2>2, <2>3, <2>4, <2>5 DEF Next
<1> QED BY <1>1, <1>2, PTL DEF Spec

-----------------------------------------------------------------------------
(* What a list of statements ends with, and what follows its first one        *)

LEMMA EndOfTail ==
  ASSUME NEW s \in Seq(Statements), s # <<>>
  PROVE  /\ Tail(s) = <<>> => End(s) = Head(s).op
         /\ Tail(s) # <<>> => End(Tail(s)) = End(s)
<1> DEFINE d == Tail(s)
<1>1. /\ d \in Seq(Statements) /\ Head(s) = s[1] /\ Len(s) \in Nat /\ Len(s) > 0
      /\ Len(d) = Len(s) - 1 /\ \A i \in 1 .. Len(s) - 1 : d[i] = s[i + 1]
  BY HeadAndTail
<1> HIDE DEF d
<1>2. ASSUME d = <<>> PROVE End(s) = Head(s).op
  <2>1. Len(s) = 1
    <3>1. Len(d) = 0
      BY <1>2
    <3> QED BY <1>1, <3>1
  <2> QED BY <1>1, <2>1 DEF End
<1>3. ASSUME d # <<>> PROVE End(d) = End(s)
  <2>1. Len(d) > 0
    BY <1>1, <1>3, HeadAndTail
  <2>2. d[Len(s) - 1] = s[Len(s)]
    BY <1>1, <2>1
  <2> QED BY <1>1, <2>2 DEF End
<1> QED BY <1>2, <1>3 DEF d

LEMMA EndOfPut ==
  ASSUME NEW x \in Statements, NEW s \in Seq(Statements)
  PROVE  LET t == <<x>> \o s
         IN  /\ t \in Seq(Statements) /\ t # <<>> /\ Head(t) = x /\ Tail(t) = s
             /\ End(t) = IF s = <<>> THEN x.op ELSE End(s)
<1> DEFINE t == <<x>> \o s
<1>1. t \in Seq(Statements) /\ t # <<>> /\ Head(t) = x /\ Tail(t) = s
  BY PutBefore
<1> HIDE DEF t
<1>2. End(t) = IF s = <<>> THEN x.op ELSE End(s)
  BY <1>1, EndOfTail
<1> QED BY <1>1, <1>2 DEF t

Known(s) == Stops(s) \/ Fetches(s) \/ Stores(s)

\* What each kind of list may end with
LEMMA StopEnds ==
  ASSUME NEW s \in Seq(Statements)
  PROVE  /\ AtClear(s) => End(s) = "clearShown"
         /\ AtForget(s) => End(s) \in {"forgetTimer", "clearShown"}
<1>1. AtClear(s) => End(s) = "clearShown"
  BY EndOfTail DEF AtClear, Is
<1>2. AtForget(s) /\ Tail(s) = <<>> => End(s) = "forgetTimer"
  BY EndOfTail DEF AtForget, Is
<1>3. ASSUME AtForget(s), Tail(s) # <<>> PROVE End(s) = "clearShown"
  <2>1. Tail(s) \in Seq(Statements) /\ End(Tail(s)) = End(s) /\ AtClear(Tail(s))
    BY <1>3, EndOfTail, HeadAndTail DEF AtForget, Is
  <2> QED BY <2>1, EndOfTail DEF AtClear, Is
<1> QED BY <1>1, <1>2, <1>3

LEMMA CancelEnds == ASSUME NEW s \in Seq(Statements), AtCancel(s) PROVE End(s) \in {"forgetTimer", "clearShown"}
<1>1. s # <<>> /\ AtForget(Tail(s))
  BY DEF AtCancel, Is
<1>2. Tail(s) \in Seq(Statements) /\ Tail(s) # <<>>
  BY <1>1, HeadAndTail DEF AtForget, Is
<1> QED BY <1>1, <1>2, EndOfTail, StopEnds

LEMMA DisposeSyncerEnds ==
  ASSUME NEW s \in Seq(Statements), AtDisposeSyncer(s) PROVE End(s) \in {"forgetTimer", "clearShown"}
<1>1. s # <<>> /\ AtCancel(Tail(s))
  BY DEF AtDisposeSyncer, IsWith, Is
<1>2. Tail(s) \in Seq(Statements) /\ Tail(s) # <<>>
  BY <1>1, HeadAndTail DEF AtCancel, Is
<1> QED BY <1>1, <1>2, EndOfTail, CancelEnds

LEMMA DisposeEnds ==
  ASSUME NEW s \in Seq(Statements), AtDispose(s)
  PROVE  IF Tail(s) = <<>> THEN End(s) = "dispose" ELSE End(s) \in {"forgetTimer", "clearShown"}
<1>1. s # <<>> /\ Head(s).op = "dispose" /\ (Tail(s) = <<>> \/ AtCancel(Tail(s)) \/ AtDisposeSyncer(Tail(s)))
  BY DEF AtDispose, IsWith, Is
<1>2. Tail(s) \in Seq(Statements)
  BY <1>1, HeadAndTail
<1> QED BY <1>1, <1>2, EndOfTail, CancelEnds, DisposeSyncerEnds

LEMMA HeightEnds ==
  ASSUME NEW s \in Seq(Statements)
  PROVE  /\ AtNewTimer(s) => End(s) = "newTimer"
         /\ AtHeight(s) => End(s) = IF Tail(s) = <<>> THEN "subscribe" ELSE "newTimer"
<1>1. AtNewTimer(s) => End(s) = "newTimer"
  BY EndOfTail DEF AtNewTimer, Is
<1>2. AtHeight(s) /\ Tail(s) = <<>> => End(s) = "subscribe"
  BY EndOfTail DEF AtHeight, IsWith, Is
<1>3. ASSUME AtHeight(s), Tail(s) # <<>> PROVE End(s) = "newTimer"
  <2>1. Tail(s) \in Seq(Statements) /\ End(Tail(s)) = End(s) /\ AtNewTimer(Tail(s))
    BY <1>3, EndOfTail, HeadAndTail DEF AtHeight, IsWith, Is
  <2> QED BY <2>1, EndOfTail DEF AtNewTimer, Is
<1> QED BY <1>1, <1>2, <1>3

\* What follows a statement, and what the list ends with
LEMMA StopFollows ==
  ASSUME NEW s \in Seq(Statements), Stops(s)
  PROVE  /\ s # <<>> /\ Tail(s) \in Seq(Statements)
         /\ Head(s).op \in {"unstart", "setState", "setSync", "dispose", "cancelTimer", "forgetTimer", "clearShown"}
         /\ Is(s, "unstart") => /\ AtNotReady(Tail(s)) /\ AtDisposeSyncer(Tail(Tail(s)))
                                /\ End(s) \in {"forgetTimer", "clearShown"}
         /\ Is(s, "setState") => Head(s).arg = "NotReady"
         /\ Is(s, "setState") => \/ Tail(s) = <<>> /\ End(s) = "setState"
                                 \/ /\ AtCancel(Tail(s)) \/ AtDisposeSyncer(Tail(s))
                                    /\ End(s) \in {"forgetTimer", "clearShown"}
         /\ Is(s, "setSync") => Head(s).arg = "NotSynced"
         /\ Is(s, "setSync") => \/ Tail(s) = <<>> /\ End(s) = "setSync"
                                \/ AtDispose(Tail(s)) /\ End(s) \in {"dispose", "forgetTimer", "clearShown"}
         /\ Is(s, "dispose") => \/ Tail(s) = <<>> /\ End(s) = "dispose"
                                \/ /\ AtCancel(Tail(s)) \/ AtDisposeSyncer(Tail(s))
                                   /\ End(s) \in {"forgetTimer", "clearShown"}
         /\ Is(s, "cancelTimer") => AtForget(Tail(s)) /\ End(s) \in {"forgetTimer", "clearShown"}
         /\ Is(s, "forgetTimer") => \/ Tail(s) = <<>> /\ End(s) = "forgetTimer"
                                    \/ AtClear(Tail(s)) /\ End(s) = "clearShown"
         /\ Is(s, "clearShown") => Tail(s) = <<>> /\ End(s) = "clearShown"
<1> DEFINE d == Tail(s)
<1>1. /\ s # <<>>
      /\ Head(s).op \in {"unstart", "setState", "setSync", "dispose", "cancelTimer", "forgetTimer", "clearShown"}
  BY Zenon DEF Stops, AtClear, AtForget, AtCancel, AtDisposeSyncer, AtDispose, AtNotSynced, AtNotReady, AtUnstart, IsWith, Is
<1>2. d \in Seq(Statements)
  BY <1>1, HeadAndTail
<1>3. (d = <<>> => End(s) = Head(s).op) /\ (d # <<>> => End(d) = End(s))
  BY <1>1, EndOfTail
<1>4. /\ AtCancel(d) => d # <<>> /\ End(d) \in {"forgetTimer", "clearShown"}
      /\ AtDisposeSyncer(d) => d # <<>> /\ End(d) \in {"forgetTimer", "clearShown"}
      /\ AtDispose(d) => d # <<>> /\ End(d) \in {"dispose", "forgetTimer", "clearShown"}
      /\ AtForget(d) => d # <<>> /\ End(d) \in {"forgetTimer", "clearShown"}
      /\ AtClear(d) => d # <<>> /\ End(d) = "clearShown"
  BY <1>2, CancelEnds, DisposeSyncerEnds, DisposeEnds, StopEnds DEF AtCancel, AtDisposeSyncer, AtDispose, AtForget, AtClear, IsWith, Is
<1>5. AtNotReady(d) /\ AtDisposeSyncer(Tail(d)) => d # <<>> /\ End(d) \in {"forgetTimer", "clearShown"}
  <2> SUFFICES ASSUME AtNotReady(d), AtDisposeSyncer(Tail(d)) PROVE d # <<>> /\ End(d) \in {"forgetTimer", "clearShown"}
    OBVIOUS
  <2>1. d # <<>> /\ Tail(d) # <<>>
    BY Zenon DEF AtNotReady, AtDisposeSyncer, IsWith, Is
  <2>2. Tail(d) \in Seq(Statements)
    BY <1>2, <2>1, HeadAndTail
  <2> QED BY <1>2, <2>1, <2>2, EndOfTail, DisposeSyncerEnds
<1> HIDE DEF d
<1>6. Is(s, "unstart") => AtNotReady(d) /\ AtDisposeSyncer(Tail(d))
  BY Zenon DEF d, Stops, AtClear, AtForget, AtCancel, AtDisposeSyncer, AtDispose, AtNotSynced, AtNotReady, AtUnstart, IsWith, Is
<1>7. Is(s, "setState") => Head(s).arg = "NotReady" /\ (d = <<>> \/ AtCancel(d) \/ AtDisposeSyncer(d))
  BY Zenon DEF d, Stops, AtClear, AtForget, AtCancel, AtDisposeSyncer, AtDispose, AtNotSynced, AtNotReady, AtUnstart, IsWith, Is
<1>8. Is(s, "setSync") => Head(s).arg = "NotSynced" /\ (d = <<>> \/ AtDispose(d))
  BY Zenon DEF d, Stops, AtClear, AtForget, AtCancel, AtDisposeSyncer, AtDispose, AtNotSynced, AtNotReady, AtUnstart, IsWith, Is
<1>9. Is(s, "dispose") => d = <<>> \/ AtCancel(d) \/ AtDisposeSyncer(d)
  BY Zenon DEF d, Stops, AtClear, AtForget, AtCancel, AtDisposeSyncer, AtDispose, AtNotSynced, AtNotReady, AtUnstart, IsWith, Is
<1>10. Is(s, "cancelTimer") => AtForget(d)
  BY Zenon DEF d, Stops, AtClear, AtForget, AtCancel, AtDisposeSyncer, AtDispose, AtNotSynced, AtNotReady, AtUnstart, IsWith, Is
<1>11. Is(s, "forgetTimer") => d = <<>> \/ AtClear(d)
  BY Zenon DEF d, Stops, AtClear, AtForget, AtCancel, AtDisposeSyncer, AtDispose, AtNotSynced, AtNotReady, AtUnstart, IsWith, Is
<1>12. Is(s, "clearShown") => d = <<>>
  BY Zenon DEF d, Stops, AtClear, AtForget, AtCancel, AtDisposeSyncer, AtDispose, AtNotSynced, AtNotReady, AtUnstart, IsWith, Is
<1>13. \A op \in {"unstart", "setState", "setSync", "dispose", "cancelTimer", "forgetTimer", "clearShown"} :
         Is(s, op) => Head(s).op = op
  BY DEF Is
<1> QED BY <1>1, <1>2, <1>3, <1>4, <1>5, <1>6, <1>7, <1>8, <1>9, <1>10, <1>11, <1>12, <1>13 DEF d

LEMMA FetchFollows ==
  ASSUME NEW s \in Seq(Statements), Fetches(s)
  PROVE  /\ s # <<>> /\ Tail(s) \in Seq(Statements)
         /\ Head(s).op \in {"newTimer", "subscribe", "hold", "handle", "branch", "start", "setState", "setSync"}
         /\ Is(s, "newTimer") => Tail(s) = <<>> /\ End(s) = "newTimer"
         /\ Is(s, "subscribe") => \/ Tail(s) = <<>> /\ End(s) = "subscribe"
                                  \/ AtNewTimer(Tail(s)) /\ End(s) = "newTimer"
                                  \/ /\ IsWith(s, "subscribe", "account") /\ AtHeight(Tail(s))
                                     /\ End(s) \in {"subscribe", "newTimer"}
         /\ Is(s, "hold") => \/ Tail(s) = <<>> /\ End(s) = "hold"
                             \/ AtNewTimer(Tail(s)) /\ End(s) = "newTimer"
                             \/ AtHeight(Tail(s)) /\ End(s) \in {"subscribe", "newTimer"}
         /\ Is(s, "handle") => Tail(s) = <<>> /\ End(s) = "handle"
         /\ Is(s, "branch") => Tail(s) = <<>> /\ End(s) = "branch"
         /\ Is(s, "start") => AtHandle(Tail(s)) /\ End(s) = "handle"
         /\ Is(s, "setState") => Head(s).arg = "Ready" /\ AtNewTimer(Tail(s)) /\ End(s) = "newTimer"
         /\ Is(s, "setSync") => Head(s).arg = "Syncing"
         /\ Is(s, "setSync") => \/ AtStart(Tail(s)) /\ End(s) = "handle"
                                \/ AtAccount(Tail(s)) /\ End(s) \in {"subscribe", "newTimer"}
<1> DEFINE d == Tail(s)
<1>1. /\ s # <<>>
      /\ Head(s).op \in {"newTimer", "subscribe", "hold", "handle", "branch", "start", "setState", "setSync"}
  BY DEF Fetches, AtNewTimer, AtHeight, AtHold, AtAccount, AtPoll, AtHandle, AtBranch, AtStart, AtReady, AtSyncing, IsWith, Is
<1>2. d \in Seq(Statements)
  BY <1>1, HeadAndTail
<1>3. (d = <<>> => End(s) = Head(s).op) /\ (d # <<>> => End(d) = End(s))
  BY <1>1, EndOfTail
<1>4. /\ AtNewTimer(d) => d # <<>> /\ End(d) = "newTimer"
      /\ AtHeight(d) => d # <<>> /\ End(d) \in {"subscribe", "newTimer"}
  BY <1>2, HeightEnds DEF AtNewTimer, AtHeight, IsWith, Is
<1>5. AtHandle(d) => d # <<>> /\ End(d) = "handle"
  BY <1>2, EndOfTail DEF AtHandle, Is
<1>6. AtStart(d) => d # <<>> /\ End(d) = "handle"
  <2> SUFFICES ASSUME AtStart(d) PROVE d # <<>> /\ End(d) = "handle"
    OBVIOUS
  <2>1. d # <<>> /\ Tail(d) # <<>> /\ Head(Tail(d)).op = "handle" /\ Tail(Tail(d)) = <<>>
    BY DEF AtStart, AtHandle, Is
  <2>2. Tail(d) \in Seq(Statements)
    BY <1>2, <2>1, HeadAndTail
  <2> QED BY <1>2, <2>1, <2>2, EndOfTail
<1>7. AtAccount(d) => d # <<>> /\ End(d) \in {"subscribe", "newTimer"}
  <2> SUFFICES ASSUME AtAccount(d) PROVE d # <<>> /\ End(d) \in {"subscribe", "newTimer"}
    OBVIOUS
  <2>1. d # <<>> /\ Head(d).op = "subscribe" /\ (Tail(d) = <<>> \/ AtHeight(Tail(d)))
    BY DEF AtAccount, IsWith, Is
  <2>2. Tail(d) \in Seq(Statements)
    BY <1>2, <2>1, HeadAndTail
  <2> QED BY <1>2, <2>1, <2>2, EndOfTail, HeightEnds
<1> HIDE DEF d
<1>8. /\ Is(s, "newTimer") => d = <<>>
      /\ Is(s, "handle") => d = <<>>
      /\ Is(s, "branch") => d = <<>>
      /\ Is(s, "start") => AtHandle(d)
  BY DEF d, Fetches, AtNewTimer, AtHeight, AtHold, AtAccount, AtPoll, AtHandle, AtBranch, AtStart, AtReady, AtSyncing, IsWith, Is
<1>9. Is(s, "subscribe") => d = <<>> \/ AtNewTimer(d) \/ (IsWith(s, "subscribe", "account") /\ AtHeight(d))
  BY DEF d, Fetches, AtNewTimer, AtHeight, AtHold, AtAccount, AtPoll, AtHandle, AtBranch, AtStart, AtReady, AtSyncing, IsWith, Is
<1>10. Is(s, "hold") => d = <<>> \/ AtNewTimer(d) \/ AtHeight(d)
  BY DEF d, Fetches, AtNewTimer, AtHeight, AtHold, AtAccount, AtPoll, AtHandle, AtBranch, AtStart, AtReady, AtSyncing, IsWith, Is
<1>11. Is(s, "setState") => Head(s).arg = "Ready" /\ AtNewTimer(d)
  BY Zenon DEF d, Fetches, AtNewTimer, AtHeight, AtHold, AtAccount, AtPoll, AtHandle, AtBranch, AtStart, AtReady, AtSyncing, IsWith, Is
<1>12. Is(s, "setSync") => Head(s).arg = "Syncing" /\ (AtStart(d) \/ AtAccount(d))
  BY DEF d, Fetches, AtNewTimer, AtHeight, AtHold, AtAccount, AtPoll, AtHandle, AtBranch, AtStart, AtReady, AtSyncing, IsWith, Is
<1>13. \A op \in {"newTimer", "subscribe", "hold", "handle", "branch", "start", "setState", "setSync"} :
         Is(s, op) => Head(s).op = op
  BY DEF Is
<1> QED BY <1>1, <1>2, <1>3, <1>4, <1>5, <1>6, <1>7, <1>8, <1>9, <1>10, <1>11, <1>12, <1>13 DEF d

LEMMA StoreFollows ==
  ASSUME NEW s \in Seq(Statements), Stores(s)
  PROVE  /\ s # <<>> /\ Tail(s) \in Seq(Statements)
         /\ Head(s).op \in {"setSync", "show", "save"}
         /\ Is(s, "setSync") => Head(s).arg = "Synced" /\ Tail(s) = <<>> /\ End(s) = "setSync"
         /\ Is(s, "show") => \/ Tail(s) = <<>> /\ End(s) = "show"
                             \/ AtSynced(Tail(s)) /\ End(s) = "setSync"
         /\ Is(s, "save") => AtShow(Tail(s)) /\ End(s) \in {"show", "setSync"}
<1> DEFINE d == Tail(s)
<1>1. s # <<>> /\ Head(s).op \in {"setSync", "show", "save"}
  BY DEF Stores, AtSynced, AtShow, AtSave, IsWith, Is
<1>2. d \in Seq(Statements)
  BY <1>1, HeadAndTail
<1>3. (d = <<>> => End(s) = Head(s).op) /\ (d # <<>> => End(d) = End(s))
  BY <1>1, EndOfTail
<1>4. AtSynced(d) => d # <<>> /\ End(d) = "setSync"
  BY <1>2, EndOfTail DEF AtSynced, IsWith, Is
<1>5. AtShow(d) => d # <<>> /\ End(d) \in {"show", "setSync"}
  <2> SUFFICES ASSUME AtShow(d) PROVE d # <<>> /\ End(d) \in {"show", "setSync"}
    OBVIOUS
  <2>1. d # <<>> /\ Head(d).op = "show" /\ (Tail(d) = <<>> \/ AtSynced(Tail(d)))
    BY DEF AtShow, Is
  <2>2. Tail(d) \in Seq(Statements)
    BY <1>2, <2>1, HeadAndTail
  <2>3. AtSynced(Tail(d)) => Tail(d) # <<>> /\ End(Tail(d)) = "setSync"
    BY <2>2, EndOfTail DEF AtSynced, IsWith, Is
  <2> QED BY <1>2, <2>1, <2>3, EndOfTail
<1> HIDE DEF d
<1>6. /\ Is(s, "setSync") => Head(s).arg = "Synced" /\ d = <<>>
      /\ Is(s, "show") => d = <<>> \/ AtSynced(d)
      /\ Is(s, "save") => AtShow(d)
  BY DEF d, Stores, AtSynced, AtShow, AtSave, IsWith, Is
<1>7. \A op \in {"setSync", "show", "save"} : Is(s, op) => Head(s).op = op
  BY DEF Is
<1> QED BY <1>1, <1>2, <1>3, <1>4, <1>5, <1>6, <1>7 DEF d

-----------------------------------------------------------------------------
(* The lists that the handlers put                                          *)

LEMMA PutThreeBefore ==
  ASSUME NEW x \in Statements, NEW y \in Statements, NEW z \in Statements, NEW s \in Seq(Statements)
  PROVE  <<x, y, z>> \o s = <<x>> \o (<<y>> \o (<<z>> \o s))
<1>1. <<x, y, z>> = <<x>> \o <<y, z>>
  <2>1. <<y, z>> \in Seq(Statements) /\ Len(<<y, z>>) = 2 /\ <<y, z>>[1] = y /\ <<y, z>>[2] = z
    OBVIOUS
  <2>2. LET t == <<x>> \o <<y, z>>
        IN  t \in Seq(Statements) /\ Len(t) = 3 /\ t[1] = x /\ \A i \in 1 .. 2 : t[i + 1] = <<y, z>>[i]
    BY <2>1, PutBefore
  <2>3. <<x, y, z>> \in Seq(Statements) /\ Len(<<x, y, z>>) = 3
        /\ <<x, y, z>>[1] = x /\ <<x, y, z>>[2] = y /\ <<x, y, z>>[3] = z
    OBVIOUS
  <2>4. (<<x>> \o <<y, z>>)[2] = y /\ (<<x>> \o <<y, z>>)[3] = z
    BY <2>1, <2>2
  <2>5. \A i \in 1 .. Len(<<x, y, z>>) : <<x, y, z>>[i] = (<<x>> \o <<y, z>>)[i]
    <3>1. 1 .. Len(<<x, y, z>>) = {1, 2, 3}
      BY <2>3
    <3> QED BY <2>2, <2>3, <2>4, <3>1
  <2> QED BY <2>2, <2>3, <2>5, SeqEqual
<1>2. <<x>> \in Seq(Statements) /\ <<y, z>> \in Seq(Statements)
  OBVIOUS
<1>3. <<x, y, z>> \o s = <<x>> \o (<<y, z>> \o s)
  BY <1>1, <1>2, ConcatAssociative
<1>4. <<y, z>> \o s = <<y>> \o (<<z>> \o s)
  BY PutTwoBefore
<1> QED BY <1>3, <1>4

\* The same for statements, where nothing is left to be found by the provers.
LEMMA StatementsBefore ==
  /\ \A x, y \in Statements, s \in Seq(Statements) : <<x, y>> \o s = <<x>> \o (<<y>> \o s)
  /\ \A a, b, c \in Seq(Statements) : (a \o b) \o c = a \o (b \o c)
<1>1. ASSUME NEW x \in Statements, NEW y \in Statements, NEW s \in Seq(Statements)
      PROVE  <<x, y>> \o s = <<x>> \o (<<y>> \o s)
  BY PutTwoBefore
<1>2. ASSUME NEW a \in Seq(Statements), NEW b \in Seq(Statements), NEW c \in Seq(Statements)
      PROVE  (a \o b) \o c = a \o (b \o c)
  BY ConcatAssociative
<1> QED BY <1>1, <1>2

LEMMA OneStatement ==
  ASSUME NEW x \in Statements
  PROVE  /\ <<x>> \in Seq(Statements) /\ <<x>> # <<>> /\ Head(<<x>>) = x /\ Tail(<<x>>) = <<>> /\ End(<<x>>) = x.op
         /\ <<x>> \o <<>> = <<x>>
<1>1. <<x>> \o <<>> = <<x>>
  BY ConcatEmptySeq, ListsOfStatements
<1>2. <<>> \in Seq(Statements)
  OBVIOUS
<1> QED BY <1>1, <1>2, EndOfPut

\* syncAccountState, fetch, start and onReady, before what else is left
LEMMA FetchLists ==
  ASSUME NEW d \in Seq(Statements), d = <<>> \/ AtNewTimer(d)
  PROVE  /\ AtHeight(<<Launch("height")>> \o d)
         /\ Fetch \o d \in Seq(Statements) /\ AtAccount(Fetch \o d)
         /\ OnReady \o d \in Seq(Statements) /\ AtSyncing(OnReady \o d)
         /\ End(Fetch \o d) = IF d = <<>> THEN "subscribe" ELSE "newTimer"
         /\ End(OnReady \o d) = IF d = <<>> THEN "subscribe" ELSE "newTimer"
<1> DEFINE a == Launch("account") h == Launch("height") y == With("setSync", "Syncing")
           d1 == <<h>> \o d  d2 == <<a>> \o d1  d3 == <<y>> \o d2
<1>1. /\ a \in Statements /\ a.op = "subscribe" /\ a.arg = "account"
      /\ h \in Statements /\ h.op = "subscribe" /\ h.arg = "height"
      /\ y \in Statements /\ y.op = "setSync" /\ y.arg = "Syncing"
  BY RequestStatements, SetStatements DEF Kinds
<1>2. <<a>> \in Seq(Statements) /\ <<h>> \in Seq(Statements) /\ <<y>> \in Seq(Statements) /\ Fetch = <<a>> \o <<h>>
  BY <1>1, ListsOfStatements DEF Fetch, SyncAccountState
<1>3. Fetch \o d = d2
  BY <1>2, ConcatAssociative
<1>4. OnReady \o d = d3
  <2>1. Fetch \in Seq(Statements)
    BY HandlersAreStatements
  <2>2. (<<y>> \o Fetch) \o d = <<y>> \o (Fetch \o d)
    <3>1. PICK c : c = <<y>> /\ c \in Seq(Statements)
      BY <1>2
    <3>2. (c \o Fetch) \o d = c \o (Fetch \o d)
      BY <2>1, <3>1, StatementsBefore
    <3> QED BY <3>1, <3>2
  <2> QED BY <1>3, <2>2 DEF OnReady
<1>5. d # <<>> => End(d) = "newTimer"
  BY HeightEnds
<1> HIDE DEF a, h, y
<1>6. /\ d1 \in Seq(Statements) /\ d1 # <<>> /\ Head(d1) = h /\ Tail(d1) = d
      /\ End(d1) = IF d = <<>> THEN "subscribe" ELSE "newTimer"
  BY <1>1, <1>5, EndOfPut
<1> HIDE DEF d1
<1>7. d2 \in Seq(Statements) /\ d2 # <<>> /\ Head(d2) = a /\ Tail(d2) = d1 /\ End(d2) = End(d1)
  BY <1>1, <1>6, EndOfPut
<1> HIDE DEF d2
<1>8. d3 \in Seq(Statements) /\ d3 # <<>> /\ Head(d3) = y /\ Tail(d3) = d2 /\ End(d3) = End(d2)
  BY <1>1, <1>7, EndOfPut
<1> HIDE DEF d3
<1>9. AtHeight(d1)
  BY <1>1, <1>6 DEF AtHeight, IsWith, Is
<1>10. AtAccount(d2)
  BY <1>1, <1>7, <1>9 DEF AtAccount, IsWith, Is
<1>11. AtSyncing(d3)
  BY <1>1, <1>8, <1>10 DEF AtSyncing, IsWith, Is
<1> QED BY <1>3, <1>4, <1>6, <1>7, <1>8, <1>9, <1>10, <1>11 DEF d1, h

LEMMA StartLists ==
  /\ AtHandle(<<Do("handle")>>) /\ End(<<Do("handle")>>) = "handle" /\ <<Do("handle")>> \in Seq(Statements)
  /\ AtStart(SyncerStart) /\ End(SyncerStart) = "handle"
  /\ AtSyncing(<<With("setSync", "Syncing")>> \o SyncerStart)
  /\ End(<<With("setSync", "Syncing")>> \o SyncerStart) = "handle"
  /\ <<With("setSync", "Syncing")>> \o SyncerStart \in Seq(Statements)
<1> DEFINE s == Do("start") h == Do("handle") y == With("setSync", "Syncing") d1 == <<h>> d2 == SyncerStart
           d3 == <<y>> \o SyncerStart
<1>1. /\ s \in Statements /\ s.op = "start" /\ h \in Statements /\ h.op = "handle"
      /\ y \in Statements /\ y.op = "setSync" /\ y.arg = "Syncing"
  BY PlainStatements, SetStatements
<1>2. d2 = <<s>> \o d1
  BY <1>1, OneStatement, PutTwoBefore, ListsOfStatements, ConcatEmptySeq DEF SyncerStart
<1>3. d1 \in Seq(Statements) /\ d1 # <<>> /\ Head(d1) = h /\ Tail(d1) = <<>> /\ End(d1) = "handle"
  BY <1>1, OneStatement
<1> HIDE DEF s, h, y, d1
<1>4. d2 \in Seq(Statements) /\ d2 # <<>> /\ Head(d2) = s /\ Tail(d2) = d1 /\ End(d2) = "handle"
  BY <1>1, <1>2, <1>3, EndOfPut
<1> HIDE DEF d2
<1>5. d3 \in Seq(Statements) /\ d3 # <<>> /\ Head(d3) = y /\ Tail(d3) = d2 /\ End(d3) = "handle"
  BY <1>1, <1>4, EndOfPut DEF d2
<1>6. AtHandle(d1) /\ AtStart(d2)
  BY <1>1, <1>3, <1>4 DEF AtHandle, AtStart, Is
<1> HIDE DEF d3
<1>7. AtSyncing(d3)
  BY <1>1, <1>5, <1>6 DEF AtSyncing, IsWith, Is
<1> QED BY <1>3, <1>4, <1>5, <1>6, <1>7 DEF d1, d2, d3, h, y

\* stopTimer before what else is left, stop, and didUpdateSyncerState for a syncer that is not ready
LEMMA StopTimerLists ==
  ASSUME NEW d \in Seq(Statements), d = <<>> \/ AtClear(d)
  PROVE  StopTimer \o d \in Seq(Statements) /\ AtCancel(StopTimer \o d)
         /\ End(StopTimer \o d) = IF d = <<>> THEN "forgetTimer" ELSE "clearShown"
<1> DEFINE c == Do("cancelTimer") f == Do("forgetTimer") d1 == <<f>> \o d d2 == <<c>> \o d1
<1>1. c \in Statements /\ c.op = "cancelTimer" /\ f \in Statements /\ f.op = "forgetTimer"
  BY PlainStatements
<1>2. StopTimer \o d = d2
  <2>1. <<c, f>> \o d = <<c>> \o (<<f>> \o d)
    <3> HIDE DEF c, f
    <3> QED BY <1>1, StatementsBefore
  <2> QED BY <2>1 DEF StopTimer
<1>3. d # <<>> => End(d) = "clearShown"
  BY StopEnds
<1> HIDE DEF c, f
<1>4. /\ d1 \in Seq(Statements) /\ d1 # <<>> /\ Head(d1) = f /\ Tail(d1) = d
      /\ End(d1) = IF d = <<>> THEN "forgetTimer" ELSE "clearShown"
  BY <1>1, <1>3, EndOfPut
<1> HIDE DEF d1
<1>5. d2 \in Seq(Statements) /\ d2 # <<>> /\ Head(d2) = c /\ Tail(d2) = d1 /\ End(d2) = End(d1)
  BY <1>1, <1>4, EndOfPut
<1> HIDE DEF d2
<1>6. AtForget(d1)
  BY <1>1, <1>4 DEF AtForget, Is
<1>7. AtCancel(d2)
  BY <1>1, <1>5, <1>6 DEF AtCancel, Is
<1> QED BY <1>2, <1>4, <1>5, <1>7

LEMMA StopLists == AtUnstart(KitStop) /\ End(KitStop) = "clearShown" /\ Head(KitStop).op = "unstart"
<1> DEFINE u == Do("unstart") n == With("setState", "NotReady") p == With("dispose", "syncer") l == Do("clearShown")
           d1 == <<l>> d2 == StopTimer \o d1 d3 == <<p>> \o d2 d4 == <<n>> \o d3 d5 == <<u>> \o d4
<1>1. /\ u \in Statements /\ u.op = "unstart" /\ n \in Statements /\ n.op = "setState" /\ n.arg = "NotReady"
      /\ p \in Statements /\ p.op = "dispose" /\ p.arg = "syncer" /\ l \in Statements /\ l.op = "clearShown"
  BY PlainStatements, SetStatements, RequestStatements DEF Owners
<1>2. d1 \in Seq(Statements) /\ AtClear(d1) /\ d1 # <<>>
  BY <1>1, OneStatement DEF AtClear, Is
<1>3. <<u, n, p>> \in Seq(Statements) /\ StopTimer \in Seq(Statements)
  BY <1>1, ListsOfStatements, HandlersAreStatements
<1>4. KitStop = <<u, n, p>> \o d2
  BY <1>2, <1>3, ConcatAssociative DEF KitStop, SyncerStop
<1> HIDE DEF u, n, p, d1
<1>5. d2 \in Seq(Statements) /\ AtCancel(d2) /\ End(d2) = "clearShown" /\ d2 # <<>>
  BY <1>2, StopTimerLists DEF AtCancel, Is
<1> HIDE DEF d2
<1>6. KitStop = d5
  <2>1. <<u, n, p>> \o d2 = <<u>> \o (<<n>> \o (<<p>> \o d2))
    <3>1. u \in Statements /\ n \in Statements /\ p \in Statements /\ d2 \in Seq(Statements)
      BY <1>1, <1>5
    <3> QED BY <3>1, PutThreeBefore
  <2> QED BY <1>4, <2>1
<1>7. d3 \in Seq(Statements) /\ d3 # <<>> /\ Head(d3) = p /\ Tail(d3) = d2 /\ End(d3) = "clearShown"
  BY <1>1, <1>5, EndOfPut
<1> HIDE DEF d3
<1>8. d4 \in Seq(Statements) /\ d4 # <<>> /\ Head(d4) = n /\ Tail(d4) = d3 /\ End(d4) = "clearShown"
  BY <1>1, <1>7, EndOfPut
<1> HIDE DEF d4
<1>9. d5 \in Seq(Statements) /\ d5 # <<>> /\ Head(d5) = u /\ Tail(d5) = d4 /\ End(d5) = "clearShown"
  BY <1>1, <1>8, EndOfPut
<1> HIDE DEF d5
<1>10. AtDisposeSyncer(d3)
  BY <1>1, <1>5, <1>7 DEF AtDisposeSyncer, IsWith, Is
<1>11. AtNotReady(d4)
  BY <1>1, <1>8, <1>10 DEF AtNotReady, IsWith, Is
<1>12. AtUnstart(d5)
  BY <1>1, <1>8, <1>9, <1>10, <1>11 DEF AtUnstart, Is
<1> QED BY <1>1, <1>6, <1>9, <1>12

LEMMA NotReadyLists ==
  ASSUME NEW d \in Seq(Statements), d = <<>> \/ AtCancel(d) \/ AtDisposeSyncer(d)
  PROVE  /\ OnNotReady \o d \in Seq(Statements) /\ AtNotSynced(OnNotReady \o d)
         /\ End(OnNotReady \o d) = IF d = <<>> THEN "dispose" ELSE End(d)
<1> DEFINE n == With("setSync", "NotSynced") p == With("dispose", "blockchain") d1 == <<p>> \o d d2 == <<n>> \o d1
<1>1. /\ n \in Statements /\ n.op = "setSync" /\ n.arg = "NotSynced"
      /\ p \in Statements /\ p.op = "dispose" /\ p.arg = "blockchain"
  BY SetStatements, RequestStatements DEF Owners
<1>2. OnNotReady \o d = d2
  <2>1. <<n, p>> \o d = <<n>> \o (<<p>> \o d)
    <3> HIDE DEF n, p
    <3> QED BY <1>1, StatementsBefore
  <2> QED BY <2>1 DEF OnNotReady
<1> HIDE DEF n, p
<1>3. /\ d1 \in Seq(Statements) /\ d1 # <<>> /\ Head(d1) = p /\ Tail(d1) = d
      /\ End(d1) = IF d = <<>> THEN "dispose" ELSE End(d)
  BY <1>1, EndOfPut
<1> HIDE DEF d1
<1>4. d2 \in Seq(Statements) /\ d2 # <<>> /\ Head(d2) = n /\ Tail(d2) = d1 /\ End(d2) = End(d1)
  BY <1>1, <1>3, EndOfPut
<1> HIDE DEF d2
<1>5. AtDispose(d1)
  BY <1>1, <1>3 DEF AtDispose, IsWith, Is
<1>6. AtNotSynced(d2)
  BY <1>1, <1>4, <1>5 DEF AtNotSynced, IsWith, Is
<1> QED BY <1>2, <1>3, <1>4, <1>6

\* handleConnectionChange
LEMMA ConnectionLists ==
  /\ OnConnection(TRUE) \in Seq(Statements) /\ AtReady(OnConnection(TRUE)) /\ End(OnConnection(TRUE)) = "newTimer"
  /\ OnConnection(FALSE) \in Seq(Statements) /\ AtNotReady(OnConnection(FALSE))
  /\ End(OnConnection(FALSE)) = "forgetTimer"
  /\ AtBranch(<<Do("branch")>>) /\ End(<<Do("branch")>>) = "branch" /\ <<Do("branch")>> \in Seq(Statements)
<1> DEFINE y == With("setState", "Ready") n == With("setState", "NotReady") t == Do("newTimer") b == Do("branch")
           d1 == <<t>> d2 == <<y>> \o d1 e1 == StopTimer \o <<>> e2 == <<n>> \o e1
<1>1. /\ y \in Statements /\ y.op = "setState" /\ y.arg = "Ready" /\ t \in Statements /\ t.op = "newTimer"
      /\ n \in Statements /\ n.op = "setState" /\ n.arg = "NotReady" /\ b \in Statements /\ b.op = "branch"
  BY PlainStatements, SetStatements
<1>2. OnConnection(TRUE) = d2
  <2>1. <<y, t>> \o <<>> = <<y>> \o (<<t>> \o <<>>) /\ <<t>> \o <<>> = <<t>> /\ <<y, t>> \o <<>> = <<y, t>>
    BY <1>1, PutTwoBefore, ListsOfStatements, ConcatEmptySeq
  <2> QED BY <2>1 DEF OnConnection
<1>3. OnConnection(FALSE) = e2
  <2>1. StopTimer \o <<>> = StopTimer
    BY HandlersAreStatements, ConcatEmptySeq
  <2> QED BY <2>1 DEF OnConnection
<1>4. <<>> \in Seq(Statements)
  OBVIOUS
<1>5. AtBranch(<<b>>) /\ End(<<b>>) = "branch" /\ <<b>> \in Seq(Statements)
  BY <1>1, OneStatement DEF AtBranch, Is
<1>6. d1 \in Seq(Statements) /\ AtNewTimer(d1) /\ End(d1) = "newTimer" /\ d1 # <<>>
  BY <1>1, OneStatement DEF AtNewTimer, Is
<1>7. e1 \in Seq(Statements) /\ AtCancel(e1) /\ End(e1) = "forgetTimer" /\ e1 # <<>>
  BY <1>4, StopTimerLists DEF AtCancel, Is
<1> HIDE DEF y, n, t, d1, e1
<1>8. d2 \in Seq(Statements) /\ d2 # <<>> /\ Head(d2) = y /\ Tail(d2) = d1 /\ End(d2) = "newTimer"
  BY <1>1, <1>6, EndOfPut
<1>9. e2 \in Seq(Statements) /\ e2 # <<>> /\ Head(e2) = n /\ Tail(e2) = e1 /\ End(e2) = "forgetTimer"
  BY <1>1, <1>7, EndOfPut
<1> HIDE DEF d2, e2
<1>10. AtReady(d2)
  BY <1>1, <1>6, <1>8 DEF AtReady, IsWith, Is
<1>11. AtNotReady(e2)
  BY <1>1, <1>7, <1>9 DEF AtNotReady, IsWith, Is
<1> QED BY <1>2, <1>3, <1>5, <1>8, <1>9, <1>10, <1>11

\* What a callback runs
LEMMA CallbackLists ==
  ASSUME NEW kind \in Kinds, NEW v \in Values
  PROVE  /\ AtSave(OnSuccess(kind, v)) /\ OnSuccess(kind, v) \in Seq(Statements)
         /\ End(OnSuccess(kind, v)) = IF kind = "account" THEN "setSync" ELSE "show"
         /\ OnFailure(kind) \in Seq(Statements)
         /\ AtNotReady(OnFailure(kind)) \/ AtNotSynced(OnFailure(kind))
         /\ End(OnFailure(kind)) = IF kind = "poll" THEN "setState" ELSE "setSync"
<1> DEFINE x == Put("save", Datum(kind), v) w == Put("show", Datum(kind), v) y == With("setSync", "Synced")
           d0 == IF kind = "account" THEN <<y>> ELSE <<>> d1 == <<w>> \o d0 d2 == <<x>> \o d1
<1>1. /\ x \in Statements /\ x.op = "save" /\ w \in Statements /\ w.op = "show"
      /\ y \in Statements /\ y.op = "setSync" /\ y.arg = "Synced"
  BY PutStatements, SetStatements DEF Datum
<1>2. <<>> \in Seq(Statements)
  OBVIOUS
<1>3. /\ d0 \in Seq(Statements) /\ (d0 = <<>> <=> kind # "account")
      /\ d0 # <<>> => AtSynced(d0) /\ End(d0) = "setSync"
  BY <1>1, <1>2, OneStatement DEF AtSynced, IsWith, Is
<1>4. OnSuccess(kind, v) = <<x, w>> \o d0
  BY DEF OnSuccess, Update
<1> HIDE DEF x, w, y, d0
<1>5. OnSuccess(kind, v) = d2
  <2>1. <<x, w>> \o d0 = <<x>> \o (<<w>> \o d0)
    BY <1>1, <1>3, StatementsBefore
  <2> QED BY <1>4, <2>1
<1>6. /\ d1 \in Seq(Statements) /\ d1 # <<>> /\ Head(d1) = w /\ Tail(d1) = d0
      /\ End(d1) = IF kind = "account" THEN "setSync" ELSE "show"
  BY <1>1, <1>3, EndOfPut
<1> HIDE DEF d1
<1>7. d2 \in Seq(Statements) /\ d2 # <<>> /\ Head(d2) = x /\ Tail(d2) = d1 /\ End(d2) = End(d1)
  BY <1>1, <1>6, EndOfPut
<1> HIDE DEF d2
<1>8. AtShow(d1)
  BY <1>1, <1>3, <1>6 DEF AtShow, Is
<1>9. AtSave(d2)
  BY <1>1, <1>7, <1>8 DEF AtSave, Is
<1>10. /\ OnFailure(kind) \in Seq(Statements)
       /\ AtNotReady(OnFailure(kind)) \/ AtNotSynced(OnFailure(kind))
       /\ End(OnFailure(kind)) = IF kind = "poll" THEN "setState" ELSE "setSync"
  BY SetStatements, OneStatement DEF OnFailure, AtNotReady, AtNotSynced, IsWith, Is
<1> QED BY <1>5, <1>6, <1>7, <1>9, <1>10

LEMMA HoldLists ==
  ASSUME NEW r \in Requests, NEW d \in Seq(Statements), d = <<>> \/ AtNewTimer(d) \/ AtHeight(d)
  PROVE  LET t == <<With("hold", r)>> \o d
         IN  /\ t \in Seq(Statements) /\ AtHold(t) /\ End(t) = IF d = <<>> THEN "hold" ELSE End(d)
             /\ t # <<>> /\ Head(t).op = "hold" /\ Head(t).arg = r /\ Tail(t) = d
<1> DEFINE x == With("hold", r) t == <<x>> \o d
<1>1. x \in Statements /\ x.op = "hold" /\ x.arg = r
  BY RequestStatements
<1> HIDE DEF x
<1>2. t \in Seq(Statements) /\ t # <<>> /\ Head(t) = x /\ Tail(t) = d /\ End(t) = IF d = <<>> THEN "hold" ELSE End(d)
  BY <1>1, EndOfPut
<1> HIDE DEF t
<1>3. AtHold(t)
  BY <1>1, <1>2 DEF AtHold, Is
<1> QED BY <1>1, <1>2, <1>3 DEF t, x

-----------------------------------------------------------------------------
(* One thread begins only when all are done, and goes on alone                *)

OneAtATime == Overlap = 1 /\ IsFiniteSet(Requests) /\ IsFiniteSet(Timers)

LEMMA NobodyWaits ==
  ASSUME TypeOK, Placed, NEW th \in Threads, todo[th] # <<>>
  PROVE  ~Waiting(th)
<1> SUFFICES ASSUME At(th, "subscribe"), \A r \in Requests : ~Unused(r) PROVE FALSE
  BY DEF Waiting
<1> DEFINE s == todo[th]
<1>1. s \in Seq(Statements) /\ s # <<>> /\ Head(s).op = "subscribe"
  BY DEF TypeOK, At
<1>2. Head(s).arg \in {"poll", "height", "account"}
  BY <1>1, HeadAndTail, Arguments DEF Kinds
<1>3. MayLaunchTwo(s) \/ MayLaunch(s)
  BY <1>1, <1>2 DEF MayLaunchTwo, MayLaunch, IsWith, Is
<1>4. \E r \in Requests : Unused(r)
  BY <1>3 DEF Placed, Room
<1> QED BY <1>4

LEMMA BeginsAlone ==
  ASSUME OneAtATime, TypeOK, Placed, NEW th \in Threads, NEW steps, Begin(th, steps)
  PROVE  Quiet /\ todo' = [todo EXCEPT ![th] = steps]
<1>1. IsFiniteSet(Threads)
  <2>1. IsFiniteSet({"app", "connectivity", "transactions"})
    <3>1. IsFiniteSet({"app"})
      BY FS_Singleton
    <3>2. IsFiniteSet({"app"} \cup {"connectivity"})
      BY <3>1, FS_AddElement
    <3>3. IsFiniteSet(({"app"} \cup {"connectivity"}) \cup {"transactions"})
      BY <3>2, FS_AddElement
    <3>4. {"app", "connectivity", "transactions"} = ({"app"} \cup {"connectivity"}) \cup {"transactions"}
      OBVIOUS
    <3> QED BY <3>3, <3>4
  <2>2. IsFiniteSet({"app", "connectivity", "transactions"} \cup Timers)
    BY <2>1, FS_Union DEF OneAtATime
  <2> QED BY <2>2, FS_Union DEF OneAtATime, Threads
<1>2. IsFiniteSet(Busy)
  <2>1. Busy \subseteq Threads
    BY DEF Busy
  <2> QED BY <1>1, <2>1, FS_Subset
<1>3. Cardinality(Busy) = 0
  <2>1. Cardinality(Busy) \in Nat
    BY <1>2, FS_CardinalityType
  <2> QED BY <2>1 DEF Begin, OneAtATime
<1>4. Busy = {}
  BY <1>2, <1>3, FS_EmptySet
<1>5. Quiet
  BY <1>4, NobodyWaits DEF Quiet, Busy
<1> QED BY <1>5 DEF Begin

\* The thread th goes on with t, all others being done.
LEMMA OneGoesOn ==
  ASSUME TypeOK, NEW th \in Threads, NEW t \in Seq(Statements), todo' = [todo EXCEPT ![th] = t],
         \A u \in Threads : u # th => todo[u] = <<>>
  PROVE  /\ todo'[th] = t /\ \A u \in Threads : u # th => todo'[u] = <<>>
         /\ OneRuns'
         /\ Quiet' <=> t = <<>>
<1>1. todo'[th] = t /\ \A u \in Threads : u # th => todo'[u] = <<>>
  BY DEF TypeOK
<1>2. OneRuns'
  BY <1>1 DEF OneRuns
<1>3. Quiet' <=> t = <<>>
  BY <1>1 DEF Quiet
<1> QED BY <1>1, <1>2, <1>3

LEMMA OneIsPlaced ==
  ASSUME NEW th \in Threads, NEW t \in Seq(Statements), todo'[th] = t, \A u \in Threads : u # th => todo'[u] = <<>>,
         t # <<>> => Known(t), MayLaunchTwo(t) => Room', MayLaunch(t) => (\E r \in Requests : Unused(r))'
  PROVE  Placed'
<1> SUFFICES ASSUME NEW u \in Threads, todo'[u] # <<>>
             PROVE  /\ Stops(todo'[u]) \/ Fetches(todo'[u]) \/ Stores(todo'[u])
                    /\ MayLaunchTwo(todo'[u]) => Room'
                    /\ MayLaunch(todo'[u]) => (\E r \in Requests : Unused(r))'
  BY DEF Placed
<1>1. u = th /\ todo'[u] = t
  OBVIOUS
<1> QED BY <1>1 DEF Known

LEMMA OnePolls ==
  ASSUME NEW th \in Threads, NEW t \in Seq(Statements), todo'[th] = t, \A u \in Threads : u # th => todo'[u] = <<>>,
         t = <<>> => Polling', t # <<>> => PollsAt(t)'
  PROVE  PollsInv'
<1>1. Quiet' => Polling'
  BY DEF Quiet
<1>2. ASSUME NEW u \in Threads, todo'[u] # <<>> PROVE PollsAt(todo[u])'
  <2>1. u = th /\ todo'[u] = t
    BY <1>2
  <2>2. PollsAt(t)'
    BY <1>2, <2>1
  <2> QED BY <2>1, <2>2 DEF PollsAt, End
<1> QED BY <1>1, <1>2 DEF PollsInv

LEMMA OneWorks ==
  ASSUME NEW th \in Threads, NEW t \in Seq(Statements), todo'[th] = t, \A u \in Threads : u # th => todo'[u] = <<>>,
         t = <<>> => (HasWork /\ StoppedIsNotReady)', t # <<>> => WorkAt(t)'
  PROVE  WorkInv'
<1>1. Quiet' => HasWork' /\ StoppedIsNotReady'
  BY DEF Quiet
<1>2. ASSUME NEW u \in Threads, todo'[u] # <<>> PROVE WorkAt(todo[u])'
  <2>1. u = th /\ todo'[u] = t
    BY <1>2
  <2>2. WorkAt(t)'
    BY <1>2, <2>1
  <2> QED BY <2>1, <2>2 DEF WorkAt, WorkIsNext, IsWith, Is, End
<1> QED BY <1>1, <1>2 DEF WorkInv

\* A request nobody uses stays so, unless it is the one launched.
LEMMA UnusedStays ==
  ASSUME NEW th \in Threads, NEW t \in Seq(Statements), todo'[th] = t, \A u \in Threads : u # th => todo'[u] = <<>>,
         NEW r \in Requests, requests'[r] = Free, r = th => t = <<>>, ~(Is(t, "hold") /\ Head(t).arg = r)
  PROVE  Unused(r)'
<1>1. todo'[r] = <<>>
  BY ThreadsAre
<1>2. \A u \in Threads : ~(At(u, "hold") /\ Arg(u) = r)'
  BY DEF At, Arg, Is
<1> QED BY <1>1, <1>2 DEF Unused

LEMMA RoomStays ==
  ASSUME NEW th \in Threads, NEW t \in Seq(Statements), todo'[th] = t, \A u \in Threads : u # th => todo'[u] = <<>>,
         todo[th] # <<>> \/ th \notin Requests, ~Is(t, "hold"),
         \A r \in Requests : Unused(r) => requests'[r] = Free
  PROVE  /\ Room => Room'
         /\ (\E r \in Requests : Unused(r)) => (\E r \in Requests : Unused(r))'
<1>1. ASSUME NEW r \in Requests, Unused(r) PROVE Unused(r)'
  <2>1. r # th
    BY <1>1 DEF Unused
  <2> QED BY <1>1, <2>1, UnusedStays
<1>2. Room => Room'
  BY <1>1 DEF Room
<1> QED BY <1>1, <1>2

-----------------------------------------------------------------------------
(* What begins                                                              *)

ApiInv == TypeOK /\ OneRuns /\ Placed /\ PollsInv

LEMMA BeginKeeps ==
  ASSUME OneAtATime, ApiInv, NEW th \in Threads, NEW t \in Seq(Statements), Begin(th, t), t # <<>>, Known(t),
         ~Is(t, "hold"), MayLaunchTwo(t) \/ MayLaunch(t) => Room /\ th \notin Requests /\ UNCHANGED requests
  PROVE  /\ OneRuns' /\ Placed' /\ Polling
         /\ PollsAt(t)' => PollsInv'
         /\ WorkInv => HasWork /\ StoppedIsNotReady
         /\ WorkAt(t)' => WorkInv'
<1>1. Quiet /\ todo' = [todo EXCEPT ![th] = t]
  BY BeginsAlone DEF ApiInv
<1>2. \A u \in Threads : u # th => todo[u] = <<>>
  BY <1>1 DEF Quiet
<1>3. todo'[th] = t /\ (\A u \in Threads : u # th => todo'[u] = <<>>) /\ OneRuns'
  BY <1>1, <1>2, OneGoesOn DEF ApiInv
<1>4. MayLaunchTwo(t) \/ MayLaunch(t) => Room' /\ (\E r \in Requests : Unused(r))'
  <2> SUFFICES ASSUME MayLaunchTwo(t) \/ MayLaunch(t) PROVE Room' /\ (\E r \in Requests : Unused(r))'
    OBVIOUS
  <2>1. \A r \in Requests : Unused(r) => requests'[r] = Free
    BY DEF Unused
  <2>2. Room => Room'
    BY <1>3, <2>1, RoomStays
  <2> QED BY <2>2 DEF Room
<1>5. Placed'
  BY <1>3, <1>4, OneIsPlaced
<1>6. Polling /\ (WorkInv => HasWork /\ StoppedIsNotReady)
  BY <1>1 DEF ApiInv, PollsInv, WorkInv
<1>7. PollsAt(t)' => PollsInv'
  BY <1>3, OnePolls
<1>8. WorkAt(t)' => WorkInv'
  BY <1>3, OneWorks
<1> QED BY <1>3, <1>5, <1>6, <1>7, <1>8

LEMMA StartKeeps ==
  ASSUME OneAtATime, ApiInv, Start PROVE OneRuns' /\ Placed' /\ PollsInv' /\ (WorkInv => WorkInv')
<1> DEFINE t == <<With("setSync", "Syncing")>> \o SyncerStart
<1>1. t \in Seq(Statements) /\ AtSyncing(t) /\ End(t) = "handle"
  BY StartLists
<1>2. Begin("app", t) /\ Room /\ UNCHANGED <<requests, state, isStarted, timer, live, isConnected, syncState>>
      /\ started' = TRUE /\ ~started
  BY DEF Start, syncerVars, netVars
<1> HIDE DEF t
<1>3. t # <<>> /\ Known(t) /\ ~Is(t, "hold") /\ Head(t).op = "setSync"
  BY <1>1 DEF AtSyncing, Known, Fetches, IsWith, Is
<1>4. "app" \in Threads /\ "app" \notin Requests
  BY ThreadsAre, ConstantsAssumption
<1>5. /\ OneRuns' /\ Placed' /\ Polling
      /\ PollsAt(t)' => PollsInv'
      /\ WorkInv => HasWork /\ StoppedIsNotReady
      /\ WorkAt(t)' => WorkInv'
  BY <1>1, <1>2, <1>3, <1>4, BeginKeeps
<1>6. PollsAt(t)'
  BY <1>1, <1>2, <1>3, <1>5 DEF PollsAt, Polling, TimerRuns, End
<1>7. StoppedIsNotReady => WorkAt(t)'
  <2> SUFFICES ASSUME StoppedIsNotReady PROVE WorkAt(t)'
    OBVIOUS
  <2>1. state' = "NotReady" /\ started' /\ StoppedIsNotReady'
    BY <1>2 DEF StoppedIsNotReady
  <2> QED BY <1>1, <1>3, <2>1 DEF WorkAt, WorkIsNext, IsWith, Is, End
<1> QED BY <1>5, <1>6, <1>7

LEMMA StopKeeps ==
  ASSUME OneAtATime, ApiInv, Stop PROVE OneRuns' /\ Placed' /\ PollsInv' /\ (WorkInv => WorkInv')
<1> DEFINE t == KitStop
<1>1. t \in Seq(Statements) /\ AtUnstart(t) /\ End(t) = "clearShown" /\ Head(t).op = "unstart"
  BY StopLists, HandlersAreStatements
<1>2. Begin("app", t)
  BY DEF Stop
<1> HIDE DEF t
<1>3. t # <<>> /\ Known(t) /\ ~Is(t, "hold") /\ ~MayLaunchTwo(t) /\ ~MayLaunch(t)
  BY <1>1 DEF AtUnstart, Known, Stops, MayLaunchTwo, MayLaunch, IsWith, Is
<1>4. "app" \in Threads
  BY ThreadsAre
<1>5. /\ OneRuns' /\ Placed'
      /\ PollsAt(t)' => PollsInv'
      /\ WorkAt(t)' => WorkInv'
  BY <1>1, <1>2, <1>3, <1>4, BeginKeeps
<1>6. PollsAt(t)'
  BY <1>1 DEF PollsAt, End
<1>7. WorkAt(t)'
  BY <1>1 DEF WorkAt, WorkIsNext, IsWith, Is, End
<1> QED BY <1>5, <1>6, <1>7

LEMMA RefreshKeeps ==
  ASSUME OneAtATime, ApiInv, RefreshCalled
  PROVE  OneRuns' /\ Placed' /\ PollsInv' /\ (~EarlyRefresh /\ WorkInv => WorkInv')
<1>1. /\ Begin("app", Refresh(state)) /\ Room /\ (started \/ EarlyRefresh)
      /\ UNCHANGED <<requests, state, isStarted, timer, live, isConnected, syncState, started>>
  BY DEF RefreshCalled, appVars, syncerVars, netVars
<1>2. "app" \in Threads /\ "app" \notin Requests
  BY ThreadsAre, ConstantsAssumption
<1>3. CASE state = "Ready"
  <2> DEFINE t == Fetch
  <2>1. t \in Seq(Statements) /\ AtAccount(t) /\ End(t) = "subscribe"
    <3>1. <<>> \in Seq(Statements) /\ t \o <<>> = t
      BY HandlersAreStatements, ConcatEmptySeq
    <3> QED BY <3>1, FetchLists
  <2>2. Begin("app", t)
    BY <1>1, <1>3 DEF Refresh
  <2> HIDE DEF t
  <2>3. t # <<>> /\ Known(t) /\ ~Is(t, "hold") /\ Head(t).op = "subscribe" /\ Head(t).arg = "account"
    BY <2>1 DEF AtAccount, Known, Fetches, IsWith, Is
  <2>4. /\ OneRuns' /\ Placed' /\ Polling
        /\ PollsAt(t)' => PollsInv'
        /\ WorkInv => HasWork /\ StoppedIsNotReady
        /\ WorkAt(t)' => WorkInv'
    BY <1>1, <1>2, <2>1, <2>2, <2>3, BeginKeeps
  <2>5. PollsAt(t)'
    BY <1>1, <2>1, <2>3, <2>4 DEF PollsAt, Polling, TimerRuns, End
  <2>6. StoppedIsNotReady => WorkAt(t)'
    <3> SUFFICES ASSUME StoppedIsNotReady PROVE WorkAt(t)'
      OBVIOUS
    <3>1. StoppedIsNotReady'
      BY <1>1 DEF StoppedIsNotReady
    <3> QED BY <2>1, <2>3, <3>1 DEF WorkAt, WorkIsNext, IsWith, Is, End
  <2> QED BY <2>4, <2>5, <2>6
<1>4. CASE state # "Ready"
  <2> DEFINE t == SyncerStart
  <2>1. t \in Seq(Statements) /\ AtStart(t) /\ End(t) = "handle"
    BY StartLists, HandlersAreStatements
  <2>2. Begin("app", t)
    BY <1>1, <1>4 DEF Refresh
  <2> HIDE DEF t
  <2>3. t # <<>> /\ Known(t) /\ ~Is(t, "hold") /\ Head(t).op = "start"
    BY <2>1 DEF AtStart, Known, Fetches, Is
  <2>4. /\ OneRuns' /\ Placed' /\ Polling
        /\ PollsAt(t)' => PollsInv'
        /\ WorkInv => HasWork /\ StoppedIsNotReady
        /\ WorkAt(t)' => WorkInv'
    BY <1>1, <1>2, <2>1, <2>2, <2>3, BeginKeeps
  <2>5. PollsAt(t)'
    BY <1>1, <2>1, <2>3, <2>4 DEF PollsAt, Polling, TimerRuns, End
  <2>6. ~EarlyRefresh /\ StoppedIsNotReady => WorkAt(t)'
    <3> SUFFICES ASSUME ~EarlyRefresh, StoppedIsNotReady PROVE WorkAt(t)'
      OBVIOUS
    <3>1. StoppedIsNotReady' /\ started' /\ state' = "NotReady"
      BY <1>1, <1>4 DEF StoppedIsNotReady, ApiInv, TypeOK
    <3> QED BY <2>1, <2>3, <3>1 DEF WorkAt, WorkIsNext, IsWith, Is, End
  <2> QED BY <2>4, <2>5, <2>6
<1> QED BY <1>3, <1>4

\* A handler of the connection's state, whichever it is now
LEMMA ConnectionKeeps ==
  ASSUME OneAtATime, ApiInv, EnterForeground \/ ConnectionChanges
  PROVE  OneRuns' /\ Placed' /\ PollsInv' /\ (WorkInv => WorkInv')
<1> DEFINE t == <<Do("handle")>>
<1>1. t \in Seq(Statements) /\ AtHandle(t) /\ End(t) = "handle"
  BY StartLists
<1>2. PICK th \in {"app", "connectivity"} :
        /\ Begin(th, t) /\ Room /\ UNCHANGED <<requests, state, isStarted, timer, live, syncState, started>>
  BY DEF EnterForeground, ConnectionChanges, appVars, syncerVars
<1> HIDE DEF t
<1>3. t # <<>> /\ Known(t) /\ ~Is(t, "hold") /\ Head(t).op = "handle"
  BY <1>1 DEF AtHandle, Known, Fetches, Is
<1>4. th \in Threads /\ th \notin Requests
  BY ThreadsAre, ConstantsAssumption
<1>5. /\ OneRuns' /\ Placed' /\ Polling
      /\ PollsAt(t)' => PollsInv'
      /\ WorkInv => HasWork /\ StoppedIsNotReady
      /\ WorkAt(t)' => WorkInv'
  BY <1>1, <1>2, <1>3, <1>4, BeginKeeps
<1>6. PollsAt(t)'
  BY <1>1, <1>2, <1>3, <1>5 DEF PollsAt, Polling, TimerRuns, End
<1>7. HasWork /\ StoppedIsNotReady => WorkAt(t)'
  <2> SUFFICES ASSUME HasWork, StoppedIsNotReady PROVE WorkAt(t)'
    OBVIOUS
  <2>1. HasWork' /\ StoppedIsNotReady'
    BY <1>2 DEF StoppedIsNotReady, HasWork
  <2> QED BY <1>1, <1>3, <2>1 DEF WorkAt, WorkIsNext, IsWith, Is, End
<1> QED BY <1>5, <1>6, <1>7

\* A request for the account or for the number of the last block
LEMMA RequestKeeps ==
  ASSUME OneAtATime, ApiInv, TransactionsHandled \/ \E u \in Timers : FireTimer(u)
  PROVE  OneRuns' /\ Placed' /\ PollsInv' /\ (WorkInv => WorkInv')
<1>1. PICK th \in {"transactions"} \cup Timers, kind \in {"account", "poll"} :
        /\ Begin(th, <<Launch(kind)>>) /\ Room
        /\ UNCHANGED <<requests, state, isStarted, timer, live, isConnected, syncState, started>>
  BY DEF TransactionsHandled, SyncAccountState, FireTimer, appVars, syncerVars, netVars
<1> DEFINE t == <<Launch(kind)>>
<1>2. t \in Seq(Statements) /\ t # <<>> /\ Head(t).op = "subscribe" /\ Head(t).arg = kind /\ Tail(t) = <<>> /\ End(t) = "subscribe"
  <2>1. Launch(kind) \in Statements /\ Launch(kind).op = "subscribe" /\ Launch(kind).arg = kind
    BY RequestStatements DEF Kinds
  <2> QED BY <2>1, OneStatement
<1> HIDE DEF t
<1>3. Known(t) /\ ~Is(t, "hold")
  BY <1>2 DEF AtAccount, AtPoll, Known, Fetches, IsWith, Is
<1>4. th \in Threads /\ th \notin Requests
  BY ThreadsAre, ConstantsAssumption
<1>5. /\ OneRuns' /\ Placed' /\ Polling
      /\ PollsAt(t)' => PollsInv'
      /\ WorkInv => HasWork /\ StoppedIsNotReady
      /\ WorkAt(t)' => WorkInv'
  <2>1. Begin(th, t)
    BY <1>1 DEF t
  <2> QED BY <1>1, <1>2, <1>3, <1>4, <2>1, BeginKeeps
<1>6. PollsAt(t)'
  BY <1>1, <1>2, <1>5 DEF PollsAt, Polling, TimerRuns, End
<1>7. HasWork /\ StoppedIsNotReady => WorkAt(t)'
  <2> SUFFICES ASSUME HasWork, StoppedIsNotReady PROVE WorkAt(t)'
    OBVIOUS
  <2>1. HasWork' /\ StoppedIsNotReady'
    BY <1>1 DEF StoppedIsNotReady, HasWork
  <2> QED BY <1>2, <2>1 DEF WorkAt, WorkIsNext, IsWith, Is, End
<1> QED BY <1>5, <1>6, <1>7

LEMMA CallbackKeeps ==
  ASSUME OneAtATime, ApiInv, NEW r \in Requests, Callback(r)
  PROVE  OneRuns' /\ Placed' /\ PollsInv' /\ (WorkInv => WorkInv')
<1> DEFINE kind == requests[r].kind
<1>1. PICK t \in Seq(Statements) :
        /\ Begin(r, t) /\ kind \in Kinds
        /\ \/ requests[r].phase = "answered" /\ t = OnSuccess(kind, requests[r].value) /\ requests[r].value \in Values
           \/ requests[r].phase = "failed" /\ t = OnFailure(kind)
  BY CallbackSteps, RequestsAre DEF ApiInv
<1>2. /\ requests' = [requests EXCEPT ![r] = Free]
      /\ UNCHANGED <<state, isStarted, timer, live, isConnected, syncState, started>>
  BY DEF Callback, appVars, syncerVars, netVars
<1>3. \/ AtSave(t) /\ End(t) = (IF kind = "account" THEN "setSync" ELSE "show")
      \/ AtNotReady(t) /\ End(t) = (IF kind = "poll" THEN "setState" ELSE "setSync")
      \/ AtNotSynced(t) /\ End(t) = (IF kind = "poll" THEN "setState" ELSE "setSync")
  <2>1. 0 \in Values
    BY BoundsAreNaturals DEF Values
  <2> QED BY <1>1, <2>1, CallbackLists
<1>4. t # <<>> /\ Known(t) /\ ~Is(t, "hold") /\ ~MayLaunchTwo(t) /\ ~MayLaunch(t)
      /\ Head(t).op \in {"save", "setState", "setSync"} /\ (Is(t, "setSync") => Head(t).arg = "NotSynced")
      /\ (Is(t, "setState") => Head(t).arg = "NotReady") /\ (Is(t, "save") => AtSave(t))
  BY <1>3 DEF AtSave, AtNotReady, AtNotSynced, Known, Stops, Stores, MayLaunchTwo, MayLaunch, IsWith, Is
<1>5. End(t) \in {"setSync", "show", "setState"} /\ (End(t) = "show" => kind # "account")
  BY <1>3
<1>6. /\ OneRuns' /\ Placed' /\ Polling
      /\ PollsAt(t)' => PollsInv'
      /\ WorkInv => HasWork /\ StoppedIsNotReady
      /\ WorkAt(t)' => WorkInv'
  BY <1>1, <1>4, ThreadsAre, BeginKeeps
<1>7. PollsAt(t)'
  BY <1>2, <1>4, <1>5, <1>6 DEF PollsAt, Polling, TimerRuns, End
<1>8. HasWork /\ StoppedIsNotReady => WorkAt(t)'
  <2> SUFFICES ASSUME HasWork, StoppedIsNotReady PROVE WorkAt(t)'
    OBVIOUS
  <2>1. StoppedIsNotReady'
    BY <1>2 DEF StoppedIsNotReady
  <2>2. kind # "account" => HasWork'
    <3> SUFFICES ASSUME kind # "account", syncState' = "Syncing" PROVE \E q \in Requests : requests'[q].kind = "account"
      BY DEF HasWork
    <3>1. PICK q \in Requests : requests[q].kind = "account"
      BY <1>2 DEF HasWork
    <3>2. requests'[q] = requests[q]
      BY <1>2, <3>1 DEF ApiInv, TypeOK
    <3> QED BY <3>1, <3>2
  <2> HIDE DEF kind
  <2> QED BY <1>4, <1>5, <2>1, <2>2 DEF WorkAt, WorkIsNext, IsWith, Is, End
<1> QED BY <1>6, <1>7, <1>8

-----------------------------------------------------------------------------
(* What the statements do                                                   *)

\* What a list goes on with launches no more than it.
LEMMA TailIsKnown ==
  ASSUME NEW s \in Seq(Statements), Known(s)
  PROVE  /\ Tail(s) # <<>> => Known(Tail(s))
         /\ ~Is(Tail(s), "hold")
         /\ MayLaunchTwo(Tail(s)) => Tail(s) = <<>> \/ MayLaunchTwo(s)
         /\ MayLaunch(Tail(s)) => Tail(s) = <<>> \/ MayLaunch(s) \/ MayLaunchTwo(s)
<1> DEFINE d == Tail(s)
<1>1. CASE Stops(s)
  <2>1. d = <<>> \/ AtNotReady(d) \/ AtCancel(d) \/ AtDisposeSyncer(d) \/ AtDispose(d) \/ AtForget(d) \/ AtClear(d)
    BY <1>1, StopFollows, Zenon DEF Is
  <2> HIDE DEF d
  <2>2. /\ d # <<>> => Known(d)
        /\ ~Is(d, "hold")
        /\ d # <<>> => ~MayLaunchTwo(d) /\ ~MayLaunch(d)
    BY <2>1, Zenon DEF Known, Stops, AtNotReady, AtCancel, AtDisposeSyncer, AtDispose, AtForget, AtClear, MayLaunchTwo, MayLaunch, IsWith, Is
  <2> QED BY <2>2 DEF d
<1>2. CASE Fetches(s)
  <2>1. \/ d = <<>> \/ AtNewTimer(d)
        \/ AtHeight(d) /\ (Is(s, "hold") \/ IsWith(s, "subscribe", "account"))
        \/ AtHandle(d) /\ Is(s, "start")
        \/ (AtStart(d) \/ AtAccount(d)) /\ IsWith(s, "setSync", "Syncing")
    BY <1>2, FetchFollows DEF Is, IsWith
  <2>2. d = Tail(s)
    OBVIOUS
  <2> HIDE DEF d
  <2>3. d # <<>> => Known(d)
    BY <2>1 DEF Known, Fetches
  <2>4. ~Is(d, "hold")
    BY <2>1 DEF AtNewTimer, AtHeight, AtHandle, AtStart, AtAccount, IsWith, Is
  <2>5. AtNewTimer(d) => ~MayLaunchTwo(d) /\ ~MayLaunch(d)
    BY DEF AtNewTimer, MayLaunchTwo, MayLaunch, IsWith, Is
  <2>6. AtHeight(d) => ~MayLaunchTwo(d)
    BY DEF AtHeight, MayLaunchTwo, IsWith, Is
  <2>7. AtHeight(d) /\ (Is(s, "hold") \/ IsWith(s, "subscribe", "account")) => MayLaunch(s) \/ MayLaunchTwo(s)
    BY <2>2 DEF MayLaunchTwo, MayLaunch
  <2>8. Is(s, "start") \/ IsWith(s, "setSync", "Syncing") => MayLaunchTwo(s)
    BY DEF MayLaunchTwo, Is
  <2> QED BY <2>1, <2>2, <2>3, <2>4, <2>5, <2>6, <2>7, <2>8
<1>3. CASE Stores(s)
  <2>1. d = <<>> \/ AtSynced(d) \/ AtShow(d)
    BY <1>3, StoreFollows DEF Is
  <2> HIDE DEF d
  <2>2. /\ d # <<>> => Known(d)
        /\ ~Is(d, "hold")
        /\ d # <<>> => ~MayLaunchTwo(d) /\ ~MayLaunch(d)
    BY <2>1 DEF Known, Stores, AtSynced, AtShow, MayLaunchTwo, MayLaunch, IsWith, Is
  <2> QED BY <2>2 DEF d
<1> QED BY <1>1, <1>2, <1>3 DEF Known

\* The one thread that has something to execute
LEMMA Running ==
  ASSUME ApiInv, NEW th \in Threads, todo[th] # <<>>
  PROVE  /\ todo[th] \in Seq(Statements) /\ Known(todo[th])
         /\ Head(todo[th]) \in Statements /\ Tail(todo[th]) \in Seq(Statements)
         /\ Tail(todo[th]) = <<>> => End(todo[th]) = Head(todo[th]).op
         /\ Tail(todo[th]) # <<>> => End(Tail(todo[th])) = End(todo[th])
         /\ PollsAt(todo[th]) /\ (WorkInv => WorkAt(todo[th]))
         /\ MayLaunchTwo(todo[th]) => Room
         /\ MayLaunch(todo[th]) => \E r \in Requests : Unused(r)
         /\ \A u \in Threads : u # th => todo[u] = <<>>
<1>1. todo[th] \in Seq(Statements)
  BY DEF ApiInv, TypeOK
<1>2. Head(todo[th]) \in Statements /\ Tail(todo[th]) \in Seq(Statements)
  BY <1>1, HeadAndTail
<1>3. /\ Known(todo[th])
      /\ MayLaunchTwo(todo[th]) => Room
      /\ MayLaunch(todo[th]) => \E r \in Requests : Unused(r)
  BY DEF ApiInv, Placed, Known
<1>4. PollsAt(todo[th]) /\ (WorkInv => WorkAt(todo[th]))
  BY DEF ApiInv, PollsInv, WorkInv
<1>5. \A u \in Threads : u # th => todo[u] = <<>>
  BY DEF ApiInv, OneRuns
<1> QED BY <1>1, <1>2, <1>3, <1>4, <1>5, EndOfTail

\* It goes on with t, launching no more than before.
LEMMA GoesOn ==
  ASSUME ApiInv, NEW th \in Threads, todo[th] # <<>>, NEW t \in Seq(Statements), todo' = [todo EXCEPT ![th] = t],
         t # <<>> => Known(t) /\ ~Is(t, "hold"), \A r \in Requests : Unused(r) => requests'[r] = Free,
         t # <<>> /\ MayLaunchTwo(t) => MayLaunchTwo(todo[th]),
         t # <<>> /\ MayLaunch(t) => MayLaunch(todo[th]) \/ MayLaunchTwo(todo[th])
  PROVE  /\ OneRuns' /\ Placed'
         /\ (t = <<>> => Polling') /\ (t # <<>> => PollsAt(t)') => PollsInv'
         /\ (t = <<>> => (HasWork /\ StoppedIsNotReady)') /\ (t # <<>> => WorkAt(t)') => WorkInv'
<1>1. todo'[th] = t /\ (\A u \in Threads : u # th => todo'[u] = <<>>) /\ OneRuns'
  BY Running, OneGoesOn DEF ApiInv
<1>2. Placed'
  <2>1. CASE t = <<>>
    BY <1>1, <2>1 DEF Placed
  <2>2. CASE t # <<>>
    <3>1. /\ Room => Room'
          /\ (\E r \in Requests : Unused(r)) => (\E r \in Requests : Unused(r))'
      BY <1>1, <2>2, RoomStays
    <3>2. Room => \E r \in Requests : Unused(r)
      BY DEF Room
    <3>3. MayLaunchTwo(t) => Room'
      BY <2>2, <3>1, Running
    <3>4. MayLaunch(t) => (\E r \in Requests : Unused(r))'
      BY <2>2, <3>1, <3>2, Running
    <3> QED BY <1>1, <2>2, <3>3, <3>4, OneIsPlaced
  <2> QED BY <2>1, <2>2
<1>3. (t = <<>> => Polling') /\ (t # <<>> => PollsAt(t)') => PollsInv'
  BY <1>1, OnePolls
<1>4. (t = <<>> => (HasWork /\ StoppedIsNotReady)') /\ (t # <<>> => WorkAt(t)') => WorkInv'
  BY <1>1, OneWorks
<1> QED BY <1>1, <1>2, <1>3, <1>4

\* A statement that only sets a variable
LEMMA DoneKeeps ==
  ASSUME ApiInv, NEW th \in Threads, todo[th] # <<>>, Done(th), \A r \in Requests : Unused(r) => requests'[r] = Free
  PROVE  \E s, t \in Seq(Statements) :
           /\ s = todo[th] /\ s # <<>> /\ t = Tail(s) /\ Known(s)
           /\ t = <<>> => End(s) = Head(s).op
           /\ t # <<>> => End(t) = End(s)
           /\ PollsAt(s) /\ (WorkInv => WorkAt(s))
           /\ OneRuns' /\ Placed'
           /\ (t = <<>> => Polling') /\ (t # <<>> => PollsAt(t)') => PollsInv'
           /\ (t = <<>> => (HasWork /\ StoppedIsNotReady)') /\ (t # <<>> => WorkAt(t)') => WorkInv'
<1>1. PICK s \in Seq(Statements) : s = todo[th]
  BY Running
<1>2. PICK t \in Seq(Statements) : t = Tail(todo[th])
  BY Running
<1>3. todo' = [todo EXCEPT ![th] = t]
  <2>1. <<>> \o Tail(todo[th]) = t
    BY <1>2, PutNothingBefore
  <2> QED BY <2>1 DEF Done, Run
<1>4. /\ t # <<>> => Known(t) /\ ~Is(t, "hold")
      /\ t # <<>> /\ MayLaunchTwo(t) => MayLaunchTwo(todo[th])
      /\ t # <<>> /\ MayLaunch(t) => MayLaunch(todo[th]) \/ MayLaunchTwo(todo[th])
  BY <1>2, Running, TailIsKnown
<1>5. /\ OneRuns' /\ Placed'
      /\ (t = <<>> => Polling') /\ (t # <<>> => PollsAt(t)') => PollsInv'
      /\ (t = <<>> => (HasWork /\ StoppedIsNotReady)') /\ (t # <<>> => WorkAt(t)') => WorkInv'
  BY <1>3, <1>4, GoesOn
<1>6. /\ s = todo[th] /\ s # <<>> /\ t = Tail(s) /\ Known(s)
      /\ t = <<>> => End(s) = Head(s).op
      /\ t # <<>> => End(t) = End(s)
      /\ PollsAt(s) /\ (WorkInv => WorkAt(s))
  <2>1. s = todo[th] /\ s # <<>> /\ t = Tail(s)
    BY <1>1, <1>2
  <2> QED BY <2>1, Running
<1> QED BY <1>5, <1>6

LEMMA StartedKeeps ==
  ASSUME ApiInv, NEW th \in Threads, SetStarted(th) PROVE OneRuns' /\ Placed' /\ PollsInv' /\ (WorkInv => WorkInv')
<1>1. PICK s, t \in Seq(Statements) :
        /\ s = todo[th] /\ s # <<>> /\ t = Tail(s) /\ Known(s)
        /\ t = <<>> => End(s) = Head(s).op
        /\ t # <<>> => End(t) = End(s)
        /\ PollsAt(s) /\ (WorkInv => WorkAt(s))
        /\ OneRuns' /\ Placed'
        /\ (t = <<>> => Polling') /\ (t # <<>> => PollsAt(t)') => PollsInv'
        /\ (t = <<>> => (HasWork /\ StoppedIsNotReady)') /\ (t # <<>> => WorkAt(t)') => WorkInv'
  <2>1. todo[th] # <<>> /\ Done(th) /\ \A r \in Requests : Unused(r) => requests'[r] = Free
    BY DEF SetStarted, At, Unused
  <2> QED BY <2>1, DoneKeeps
<1>2. UNCHANGED <<started, requests, syncState, state, timer, live, isConnected>>
  BY DEF SetStarted, appVars, netVars
<1>3. CASE Is(s, "start") /\ isStarted' = TRUE
  <2>1. t # <<>> /\ Head(t).op = "handle" /\ End(s) = "handle"
    BY <1>1, <1>3, StopFollows, FetchFollows, StoreFollows DEF Known, AtHandle, Is
  <2>2. PollsAt(t)'
    BY <1>1, <1>2, <1>3, <2>1 DEF PollsAt, TimerRuns, End
  <2>3. WorkAt(s) => WorkAt(t)'
    <3> SUFFICES ASSUME WorkAt(s) PROVE WorkAt(t)'
      OBVIOUS
    <3>1. started /\ (HasWork \/ state = "NotReady")
      BY <1>3 DEF WorkAt, Is
    <3>2. HasWork' \/ state' = "NotReady"
      BY <1>2, <3>1 DEF HasWork
    <3>3. StoppedIsNotReady'
      BY <1>2, <3>1 DEF StoppedIsNotReady
    <3> QED BY <1>1, <1>3, <2>1, <3>2, <3>3 DEF WorkAt, WorkIsNext, IsWith, Is, End
  <2> QED BY <1>1, <2>1, <2>2, <2>3
<1>4. CASE Is(s, "unstart") /\ isStarted' = FALSE
  <2>1. t # <<>> /\ Head(t).op = "setState" /\ Head(t).arg = "NotReady" /\ End(s) \in {"forgetTimer", "clearShown"}
    BY <1>1, <1>4, StopFollows, FetchFollows, StoreFollows DEF Known, AtNotReady, IsWith, Is
  <2>2. PollsAt(t)'
    BY <1>1, <2>1 DEF PollsAt, End
  <2>3. WorkAt(s) => WorkAt(t)'
    <3> SUFFICES ASSUME WorkAt(s) PROVE WorkAt(t)'
      OBVIOUS
    <3>1. End(s) # "clearShown" => StoppedIsNotReady'
      BY <1>2, <1>4 DEF WorkAt, StoppedIsNotReady
    <3> QED BY <1>1, <1>4, <2>1, <3>1 DEF WorkAt, WorkIsNext, IsWith, Is, End
  <2> QED BY <1>1, <2>1, <2>2, <2>3
<1>5. (Is(s, "start") /\ isStarted' = TRUE) \/ (Is(s, "unstart") /\ isStarted' = FALSE)
  BY <1>1 DEF SetStarted, At, Is
<1> QED BY <1>3, <1>4, <1>5

LEMMA SyncKeeps ==
  ASSUME ApiInv, NEW th \in Threads, SetSync(th) PROVE OneRuns' /\ Placed' /\ PollsInv' /\ (WorkInv => WorkInv')
<1>1. PICK s, t \in Seq(Statements) :
        /\ s = todo[th] /\ s # <<>> /\ t = Tail(s) /\ Known(s)
        /\ t = <<>> => End(s) = Head(s).op
        /\ t # <<>> => End(t) = End(s)
        /\ PollsAt(s) /\ (WorkInv => WorkAt(s))
        /\ OneRuns' /\ Placed'
        /\ (t = <<>> => Polling') /\ (t # <<>> => PollsAt(t)') => PollsInv'
        /\ (t = <<>> => (HasWork /\ StoppedIsNotReady)') /\ (t # <<>> => WorkAt(t)') => WorkInv'
  <2>1. todo[th] # <<>> /\ Done(th) /\ \A r \in Requests : Unused(r) => requests'[r] = Free
    BY DEF SetSync, At, Unused
  <2> QED BY <2>1, DoneKeeps
<1>2. UNCHANGED <<started, requests, isStarted, state, timer, live, isConnected>>
      /\ Is(s, "setSync") /\ syncState' = Head(s).arg
  BY <1>1 DEF SetSync, At, Arg, Is, appVars, syncerVars, netVars
<1>3. \/ Head(s).arg \in {"NotSynced", "Synced"} /\ t = <<>> /\ End(s) = "setSync"
      \/ Head(s).arg = "NotSynced" /\ AtDispose(t) /\ End(s) \in {"dispose", "forgetTimer", "clearShown"}
      \/ Head(s).arg = "Syncing" /\ AtStart(t) /\ End(s) = "handle"
      \/ Head(s).arg = "Syncing" /\ AtAccount(t) /\ End(s) \in {"subscribe", "newTimer"}
  BY <1>1, <1>2, StopFollows, FetchFollows, StoreFollows DEF Known, Is
<1>4. /\ AtDispose(t) => t # <<>> /\ Head(t).op = "dispose"
      /\ AtStart(t) => t # <<>> /\ Head(t).op = "start"
      /\ AtAccount(t) => t # <<>> /\ Head(t).op = "subscribe" /\ Head(t).arg = "account"
  BY DEF AtDispose, AtStart, AtAccount, IsWith, Is
<1>5. t = <<>> => Polling'
  BY <1>1, <1>2, <1>3, <1>4 DEF PollsAt, Polling, TimerRuns
<1>6. t # <<>> => PollsAt(t)'
  BY <1>1, <1>2, <1>3, <1>4 DEF PollsAt, Polling, TimerRuns, End, Is
<1>7. syncState' # "Syncing" => HasWork'
  BY DEF HasWork
<1>8. StoppedIsNotReady => StoppedIsNotReady'
  BY <1>2 DEF StoppedIsNotReady
<1>9. WorkAt(s) /\ t = <<>> => (HasWork /\ StoppedIsNotReady)'
  <2> SUFFICES ASSUME WorkAt(s), t = <<>> PROVE HasWork' /\ StoppedIsNotReady'
    OBVIOUS
  <2>1. syncState' # "Syncing" /\ End(s) = "setSync"
    BY <1>2, <1>3, <1>4
  <2> QED BY <1>7, <1>8, <2>1 DEF WorkAt
<1>10. WorkAt(s) /\ t # <<>> => WorkAt(t)'
  <2> SUFFICES ASSUME WorkAt(s), t # <<>> PROVE WorkAt(t)'
    OBVIOUS
  <2>1. /\ End(s) # "clearShown" => StoppedIsNotReady'
        /\ End(s) = "clearShown" => ~isStarted' /\ state' = "NotReady"
    BY <1>2, <1>8 DEF WorkAt, Is
  <2>2. Head(s).arg = "Syncing" /\ End(s) = "handle" => started' /\ state' = "NotReady"
    BY <1>2 DEF WorkAt, IsWith
  <2>3. CASE Head(s).arg = "NotSynced"
    <3>1. AtDispose(t) /\ syncState' = "NotSynced" /\ End(t) \in {"dispose", "forgetTimer", "clearShown"}
      BY <1>1, <1>2, <1>3, <2>3
    <3> QED BY <1>1, <1>4, <2>1, <3>1 DEF WorkAt, WorkIsNext, IsWith, Is, End
  <2>4. CASE Head(s).arg = "Syncing" /\ AtStart(t) /\ End(s) = "handle"
    BY <1>1, <1>4, <2>1, <2>2, <2>4 DEF WorkAt, WorkIsNext, IsWith, Is, End
  <2>5. CASE Head(s).arg = "Syncing" /\ AtAccount(t) /\ End(s) \in {"subscribe", "newTimer"}
    BY <1>1, <1>4, <2>1, <2>5 DEF WorkAt, WorkIsNext, IsWith, Is, End
  <2> QED BY <1>3, <2>3, <2>4, <2>5
<1> QED BY <1>1, <1>5, <1>6, <1>9, <1>10

\* A request is held or not; either way it is there.
LEMMA HoldKeeps ==
  ASSUME ApiInv, NEW th \in Threads, Hold(th) PROVE OneRuns' /\ Placed' /\ PollsInv' /\ (WorkInv => WorkInv')
<1>1. PICK s, t \in Seq(Statements) :
        /\ s = todo[th] /\ s # <<>> /\ t = Tail(s) /\ Known(s)
        /\ t = <<>> => End(s) = Head(s).op
        /\ t # <<>> => End(t) = End(s)
        /\ PollsAt(s) /\ (WorkInv => WorkAt(s))
        /\ OneRuns' /\ Placed'
        /\ (t = <<>> => Polling') /\ (t # <<>> => PollsAt(t)') => PollsInv'
        /\ (t = <<>> => (HasWork /\ StoppedIsNotReady)') /\ (t # <<>> => WorkAt(t)') => WorkInv'
  <2>1. todo[th] # <<>> /\ Done(th) /\ \A r \in Requests : Unused(r) => requests'[r] = Free
    BY DEF Hold, At, Unused
  <2> QED BY <2>1, DoneKeeps
<1>2. UNCHANGED <<started, requests, syncState, isStarted, state, timer, live, isConnected>> /\ Is(s, "hold")
  BY <1>1 DEF Hold, At, Is, appVars, syncerVars, netVars
<1>3. /\ t = <<>> \/ AtNewTimer(t) \/ AtHeight(t)
      /\ End(s) \in {"hold", "subscribe", "newTimer"} /\ (t = <<>> => End(s) = "hold")
  BY <1>1, <1>2, StopFollows, FetchFollows, StoreFollows DEF Known, Is
<1>4. t # <<>> => Head(t).op \in {"newTimer", "subscribe"}
  BY <1>3 DEF AtNewTimer, AtHeight, IsWith, Is
<1>5. t = <<>> => Polling'
  BY <1>1, <1>2, <1>3 DEF PollsAt, Polling, TimerRuns
<1>6. t # <<>> => PollsAt(t)'
  BY <1>1, <1>2, <1>3, <1>4 DEF PollsAt, Polling, TimerRuns, End
<1>7. WorkAt(s) => HasWork' /\ StoppedIsNotReady'
  BY <1>2, <1>3 DEF WorkAt, WorkIsNext, HasWork, StoppedIsNotReady, Is
<1>8. HasWork' /\ StoppedIsNotReady' /\ t # <<>> => WorkAt(t)'
  BY <1>1, <1>3, <1>4 DEF WorkAt, WorkIsNext, IsWith, Is, End
<1> QED BY <1>1, <1>5, <1>6, <1>7, <1>8

\* dispose is called when the sync state is NotSynced, so that no sync loses its request.
LEMMA DisposeKeeps ==
  ASSUME ApiInv, NEW th \in Threads, Dispose(th) PROVE OneRuns' /\ Placed' /\ PollsInv' /\ (WorkInv => WorkInv')
<1>1. PICK s, t \in Seq(Statements) :
        /\ s = todo[th] /\ s # <<>> /\ t = Tail(s) /\ Known(s)
        /\ t = <<>> => End(s) = Head(s).op
        /\ t # <<>> => End(t) = End(s)
        /\ PollsAt(s) /\ (WorkInv => WorkAt(s))
        /\ OneRuns' /\ Placed'
        /\ (t = <<>> => Polling') /\ (t # <<>> => PollsAt(t)') => PollsInv'
        /\ (t = <<>> => (HasWork /\ StoppedIsNotReady)') /\ (t # <<>> => WorkAt(t)') => WorkInv'
  <2>1. todo[th] # <<>> /\ Done(th)
    BY DEF Dispose, At
  <2>2. \A r \in Requests : Unused(r) => requests'[r] = Free
    BY DEF Dispose, Unused
  <2> QED BY <2>1, <2>2, DoneKeeps
<1>2. UNCHANGED <<started, syncState, isStarted, state, timer, live, isConnected>> /\ Is(s, "dispose")
  BY <1>1 DEF Dispose, At, Is, appVars, syncerVars, netVars
<1>3. \/ t = <<>> /\ End(s) = "dispose"
      \/ (AtCancel(t) \/ AtDisposeSyncer(t)) /\ End(s) \in {"forgetTimer", "clearShown"}
  BY <1>1, <1>2, StopFollows, FetchFollows, StoreFollows DEF Known, Is
<1>4. t # <<>> => Head(t).op \in {"cancelTimer", "dispose"}
  BY <1>3 DEF AtCancel, AtDisposeSyncer, IsWith, Is
<1>5. t = <<>> => Polling'
  BY <1>1, <1>2, <1>3 DEF PollsAt, Polling, TimerRuns, AtCancel, AtDisposeSyncer, IsWith, Is
<1>6. t # <<>> => PollsAt(t)'
  BY <1>1, <1>2, <1>3, <1>4 DEF PollsAt, End, Is
<1>7. WorkAt(s) => HasWork' /\ syncState' = "NotSynced"
  BY <1>2 DEF WorkAt, HasWork, Is
<1>8. /\ WorkAt(s) /\ End(s) # "clearShown" => StoppedIsNotReady'
      /\ WorkAt(s) /\ End(s) = "clearShown" => ~isStarted' /\ state' = "NotReady"
  BY <1>2 DEF WorkAt, StoppedIsNotReady, Is
<1>9. t = <<>> => End(s) = "dispose"
  BY <1>1, <1>2 DEF Is
<1>10. WorkAt(s) /\ t # <<>> => WorkAt(t)'
  BY <1>1, <1>3, <1>4, <1>7, <1>8 DEF WorkAt, WorkIsNext, IsWith, Is, End
<1> QED BY <1>1, <1>5, <1>6, <1>7, <1>8, <1>9, <1>10

\* A new timer is made after isStarted and isConnected were read.
LEMMA NewTimerKeeps ==
  ASSUME ApiInv, NEW th \in Threads, NewTimer(th) PROVE OneRuns' /\ Placed' /\ PollsInv' /\ (WorkInv => WorkInv')
<1>1. PICK s, t \in Seq(Statements) :
        /\ s = todo[th] /\ s # <<>> /\ t = Tail(s) /\ Known(s)
        /\ t = <<>> => End(s) = Head(s).op
        /\ t # <<>> => End(t) = End(s)
        /\ PollsAt(s) /\ (WorkInv => WorkAt(s))
        /\ OneRuns' /\ Placed'
        /\ (t = <<>> => Polling') /\ (t # <<>> => PollsAt(t)') => PollsInv'
        /\ (t = <<>> => (HasWork /\ StoppedIsNotReady)') /\ (t # <<>> => WorkAt(t)') => WorkInv'
  <2>1. todo[th] # <<>> /\ Done(th) /\ \A r \in Requests : Unused(r) => requests'[r] = Free
    BY DEF NewTimer, At, Unused
  <2> QED BY <2>1, DoneKeeps
<1>2. UNCHANGED <<started, requests, syncState, isStarted, state, isConnected>> /\ Is(s, "newTimer") /\ timer' \in live'
  BY <1>1 DEF NewTimer, At, Is, appVars, netVars
<1>3. t = <<>> /\ End(s) = "newTimer"
  BY <1>1, <1>2, StopFollows, FetchFollows, StoreFollows DEF Known, Is
<1>4. Polling'
  BY <1>1, <1>2, <1>3 DEF PollsAt, Polling, TimerRuns
<1>5. WorkAt(s) => HasWork' /\ StoppedIsNotReady'
  BY <1>2, <1>3 DEF WorkAt, WorkIsNext, HasWork, StoppedIsNotReady, Is
<1> QED BY <1>1, <1>3, <1>4, <1>5

\* The timer is cancelled, and then forgotten, while the state is NotReady.
LEMMA CancelKeeps ==
  ASSUME ApiInv, NEW th \in Threads, CancelTimer(th) PROVE OneRuns' /\ Placed' /\ PollsInv' /\ (WorkInv => WorkInv')
<1>1. PICK s, t \in Seq(Statements) :
        /\ s = todo[th] /\ s # <<>> /\ t = Tail(s) /\ Known(s)
        /\ t = <<>> => End(s) = Head(s).op
        /\ t # <<>> => End(t) = End(s)
        /\ PollsAt(s) /\ (WorkInv => WorkAt(s))
        /\ OneRuns' /\ Placed'
        /\ (t = <<>> => Polling') /\ (t # <<>> => PollsAt(t)') => PollsInv'
        /\ (t = <<>> => (HasWork /\ StoppedIsNotReady)') /\ (t # <<>> => WorkAt(t)') => WorkInv'
  <2>1. todo[th] # <<>> /\ Done(th) /\ \A r \in Requests : Unused(r) => requests'[r] = Free
    BY DEF CancelTimer, At, Unused
  <2> QED BY <2>1, DoneKeeps
<1>2. UNCHANGED <<started, requests, syncState, isStarted, state, isConnected>> /\ Is(s, "cancelTimer")
  BY <1>1 DEF CancelTimer, At, Is, appVars, netVars
<1>3. AtForget(t) /\ End(s) \in {"forgetTimer", "clearShown"}
  BY <1>1, <1>2, StopFollows, FetchFollows, StoreFollows DEF Known, Is
<1>4. t # <<>> /\ Head(t).op = "forgetTimer"
  BY <1>3 DEF AtForget, Is
<1>5. PollsAt(t)'
  BY <1>1, <1>2, <1>3, <1>4 DEF PollsAt, End, Is
<1>6. WorkAt(s) => WorkAt(t)'
  <2> SUFFICES ASSUME WorkAt(s) PROVE WorkAt(t)'
    OBVIOUS
  <2>1. /\ End(s) # "clearShown" => StoppedIsNotReady'
        /\ End(s) = "clearShown" => ~isStarted' /\ state' = "NotReady"
        /\ HasWork'
    BY <1>2 DEF WorkAt, WorkIsNext, HasWork, StoppedIsNotReady, Is
  <2> QED BY <1>1, <1>3, <1>4, <2>1 DEF WorkAt, WorkIsNext, IsWith, Is, End
<1> QED BY <1>1, <1>4, <1>5, <1>6

LEMMA ForgetKeeps ==
  ASSUME ApiInv, NEW th \in Threads, ForgetTimer(th) PROVE OneRuns' /\ Placed' /\ PollsInv' /\ (WorkInv => WorkInv')
<1>1. PICK s, t \in Seq(Statements) :
        /\ s = todo[th] /\ s # <<>> /\ t = Tail(s) /\ Known(s)
        /\ t = <<>> => End(s) = Head(s).op
        /\ t # <<>> => End(t) = End(s)
        /\ PollsAt(s) /\ (WorkInv => WorkAt(s))
        /\ OneRuns' /\ Placed'
        /\ (t = <<>> => Polling') /\ (t # <<>> => PollsAt(t)') => PollsInv'
        /\ (t = <<>> => (HasWork /\ StoppedIsNotReady)') /\ (t # <<>> => WorkAt(t)') => WorkInv'
  <2>1. todo[th] # <<>> /\ Done(th) /\ \A r \in Requests : Unused(r) => requests'[r] = Free
    BY DEF ForgetTimer, At, Unused
  <2> QED BY <2>1, DoneKeeps
<1>2. UNCHANGED <<started, requests, syncState, isStarted, state, live, isConnected>> /\ Is(s, "forgetTimer")
      /\ timer' = NoTimer
  BY <1>1 DEF ForgetTimer, At, Is, appVars, netVars
<1>3. \/ t = <<>> /\ End(s) = "forgetTimer"
      \/ AtClear(t) /\ End(s) = "clearShown"
  BY <1>1, <1>2, StopFollows, FetchFollows, StoreFollows DEF Known, Is
<1>4. AtClear(t) => t # <<>> /\ Head(t).op = "clearShown"
  BY DEF AtClear, Is
<1>5. state' = "NotReady"
  BY <1>1, <1>2, <1>3 DEF PollsAt, Is
<1>6. t = <<>> => Polling'
  BY <1>2, <1>5 DEF Polling, TimerRuns
<1>7. t # <<>> => PollsAt(t)'
  BY <1>1, <1>2, <1>3, <1>4, <1>5, Zenon DEF PollsAt, End
<1>8. WorkAt(s) => /\ End(s) # "clearShown" => StoppedIsNotReady'
                   /\ End(s) = "clearShown" => ~isStarted' /\ state' = "NotReady"
                   /\ HasWork'
  BY <1>2 DEF WorkAt, WorkIsNext, HasWork, StoppedIsNotReady, Is
<1>9. WorkAt(s) /\ t # <<>> => WorkAt(t)'
  BY <1>1, <1>3, <1>4, <1>8 DEF WorkAt, WorkIsNext, IsWith, Is, End
<1>10. t = <<>> => End(s) # "clearShown"
  BY <1>3, <1>4
<1> QED BY <1>1, <1>6, <1>7, <1>8, <1>9, <1>10

\* What is stored and shown does not matter here, but a stop ends by clearing it.
LEMMA SaveKeeps ==
  ASSUME ApiInv, NEW th \in Threads, Save(th) PROVE OneRuns' /\ Placed' /\ PollsInv' /\ (WorkInv => WorkInv')
<1>1. PICK s, t \in Seq(Statements) :
        /\ s = todo[th] /\ s # <<>> /\ t = Tail(s) /\ Known(s)
        /\ t = <<>> => End(s) = Head(s).op
        /\ t # <<>> => End(t) = End(s)
        /\ PollsAt(s) /\ (WorkInv => WorkAt(s))
        /\ OneRuns' /\ Placed'
        /\ (t = <<>> => Polling') /\ (t # <<>> => PollsAt(t)') => PollsInv'
        /\ (t = <<>> => (HasWork /\ StoppedIsNotReady)') /\ (t # <<>> => WorkAt(t)') => WorkInv'
  <2>1. todo[th] # <<>> /\ Done(th) /\ \A r \in Requests : Unused(r) => requests'[r] = Free
    BY DEF Save, At, Unused
  <2> QED BY <2>1, DoneKeeps
<1>2. UNCHANGED <<started, requests, syncState, isStarted, state, timer, live, isConnected>> /\ Is(s, "save")
  BY <1>1 DEF Save, At, Is, syncerVars, netVars
<1>3. AtShow(t) /\ End(s) \in {"show", "setSync"}
  BY <1>1, <1>2, StopFollows, FetchFollows, StoreFollows DEF Known, Is
<1>4. t # <<>> /\ Head(t).op = "show"
  BY <1>3 DEF AtShow, Is
<1>5. PollsAt(t)'
  BY <1>1, <1>2, <1>3, <1>4 DEF PollsAt, Polling, TimerRuns, End
<1>6. WorkAt(s) => WorkAt(t)'
  <2> SUFFICES ASSUME WorkAt(s) PROVE WorkAt(t)'
    OBVIOUS
  <2>1. StoppedIsNotReady' /\ (End(s) = "show" => HasWork')
    BY <1>2, <1>3 DEF WorkAt, WorkIsNext, HasWork, StoppedIsNotReady, Is
  <2> QED BY <1>1, <1>3, <1>4, <2>1 DEF WorkAt, WorkIsNext, IsWith, Is, End
<1> QED BY <1>1, <1>4, <1>5, <1>6

LEMMA ShowKeeps ==
  ASSUME ApiInv, NEW th \in Threads, Show(th) PROVE OneRuns' /\ Placed' /\ PollsInv' /\ (WorkInv => WorkInv')
<1>1. PICK s, t \in Seq(Statements) :
        /\ s = todo[th] /\ s # <<>> /\ t = Tail(s) /\ Known(s)
        /\ t = <<>> => End(s) = Head(s).op
        /\ t # <<>> => End(t) = End(s)
        /\ PollsAt(s) /\ (WorkInv => WorkAt(s))
        /\ OneRuns' /\ Placed'
        /\ (t = <<>> => Polling') /\ (t # <<>> => PollsAt(t)') => PollsInv'
        /\ (t = <<>> => (HasWork /\ StoppedIsNotReady)') /\ (t # <<>> => WorkAt(t)') => WorkInv'
  <2>1. todo[th] # <<>> /\ Done(th) /\ \A r \in Requests : Unused(r) => requests'[r] = Free
    BY DEF Show, At, Unused
  <2> QED BY <2>1, DoneKeeps
<1>2. UNCHANGED <<started, requests, syncState, isStarted, state, timer, live, isConnected>>
      /\ (Is(s, "show") \/ Is(s, "clearShown"))
  BY <1>1 DEF Show, At, Is, syncerVars, netVars
<1>3. \/ Is(s, "show") /\ t = <<>> /\ End(s) = "show"
      \/ Is(s, "show") /\ AtSynced(t) /\ End(s) = "setSync"
      \/ Is(s, "clearShown") /\ t = <<>> /\ End(s) = "clearShown"
  BY <1>1, <1>2, StopFollows, FetchFollows, StoreFollows DEF Known, Is
<1>4. AtSynced(t) => t # <<>> /\ Head(t).op = "setSync" /\ Head(t).arg = "Synced"
  BY DEF AtSynced, IsWith, Is
<1>5. t = <<>> => Polling'
  BY <1>1, <1>2, <1>3, <1>4 DEF PollsAt, Polling, TimerRuns, Is
<1>6. t # <<>> => PollsAt(t)'
  BY <1>1, <1>2, <1>3, <1>4 DEF PollsAt, Polling, TimerRuns, End
<1>7. WorkAt(s) => StoppedIsNotReady' /\ (t = <<>> => HasWork')
  BY <1>2, <1>3, <1>4 DEF WorkAt, WorkIsNext, HasWork, StoppedIsNotReady, Is
<1>8. WorkAt(s) /\ t # <<>> => WorkAt(t)'
  BY <1>1, <1>3, <1>4, <1>7 DEF WorkAt, WorkIsNext, IsWith, Is, End
<1> QED BY <1>1, <1>5, <1>6, <1>7, <1>8

\* It goes on with other statements before what is left.
LEMMA RunKeeps ==
  ASSUME ApiInv, NEW th \in Threads, todo[th] # <<>>, NEW steps \in Seq(Statements), Run(th, steps), UNCHANGED requests
  PROVE  \E s, d, t \in Seq(Statements) :
           /\ s = todo[th] /\ s # <<>> /\ d = Tail(s) /\ t = steps \o d /\ Known(s) /\ Head(s) \in Statements
           /\ d = <<>> => End(s) = Head(s).op
           /\ d # <<>> => End(d) = End(s)
           /\ PollsAt(s) /\ (WorkInv => WorkAt(s))
           /\ (t # <<>> => /\ Known(t) /\ ~Is(t, "hold")
                           /\ MayLaunchTwo(t) => MayLaunchTwo(s)
                           /\ MayLaunch(t) => MayLaunch(s) \/ MayLaunchTwo(s))
              => /\ OneRuns' /\ Placed'
                 /\ (t = <<>> => Polling') /\ (t # <<>> => PollsAt(t)') => PollsInv'
                 /\ (t = <<>> => (HasWork /\ StoppedIsNotReady)') /\ (t # <<>> => WorkAt(t)') => WorkInv'
<1>1. PICK s \in Seq(Statements) : s = todo[th]
  BY Running
<1>2. PICK d \in Seq(Statements) : d = Tail(todo[th])
  BY Running
<1>3. steps \o Tail(todo[th]) \in Seq(Statements)
  BY Running, ConcatProperties
<1>4. PICK t \in Seq(Statements) : t = steps \o Tail(todo[th])
  BY <1>3
<1>5. todo' = [todo EXCEPT ![th] = t]
  BY <1>4 DEF Run
<1>6. \A r \in Requests : Unused(r) => requests'[r] = Free
  BY DEF Unused
<1>7. s = todo[th] /\ s # <<>> /\ d = Tail(s) /\ t = steps \o d
  BY <1>1, <1>2, <1>4
<1>8. /\ Known(s) /\ Head(s) \in Statements
      /\ d = <<>> => End(s) = Head(s).op
      /\ d # <<>> => End(d) = End(s)
      /\ PollsAt(s) /\ (WorkInv => WorkAt(s))
  BY <1>7, Running
<1>9. ASSUME t # <<>> => /\ Known(t) /\ ~Is(t, "hold")
                         /\ MayLaunchTwo(t) => MayLaunchTwo(s)
                         /\ MayLaunch(t) => MayLaunch(s) \/ MayLaunchTwo(s)
      PROVE  /\ OneRuns' /\ Placed'
             /\ (t = <<>> => Polling') /\ (t # <<>> => PollsAt(t)') => PollsInv'
             /\ (t = <<>> => (HasWork /\ StoppedIsNotReady)') /\ (t # <<>> => WorkAt(t)') => WorkInv'
  <2>1. /\ t # <<>> => Known(t) /\ ~Is(t, "hold")
        /\ t # <<>> /\ MayLaunchTwo(t) => MayLaunchTwo(todo[th])
        /\ t # <<>> /\ MayLaunch(t) => MayLaunch(todo[th]) \/ MayLaunchTwo(todo[th])
    BY <1>9, <1>7
  <2> QED BY <1>5, <1>6, <2>1, GoesOn
<1> QED BY <1>7, <1>8, <1>9

LEMMA HandleKeeps ==
  ASSUME ApiInv, NEW th \in Threads, Handle(th) PROVE OneRuns' /\ Placed' /\ PollsInv' /\ (WorkInv => WorkInv')
<1> DEFINE steps == IF isStarted THEN <<Do("branch")>> ELSE <<>>
<1>1. /\ AtBranch(<<Do("branch")>>) /\ End(<<Do("branch")>>) = "branch" /\ <<Do("branch")>> \in Seq(Statements)
      /\ steps \in Seq(Statements)
  BY ConnectionLists
<1>2. UNCHANGED requests /\ todo[th] # <<>> /\ Run(th, steps)
  BY DEF Handle, At
<1>3. PICK b \in Seq(Statements) : b = steps
  BY <1>1
<1> HIDE DEF steps
<1>4. PICK s, d, t \in Seq(Statements) :
        /\ s = todo[th] /\ s # <<>> /\ d = Tail(s) /\ t = steps \o d /\ Known(s) /\ Head(s) \in Statements
        /\ d = <<>> => End(s) = Head(s).op
        /\ d # <<>> => End(d) = End(s)
        /\ PollsAt(s) /\ (WorkInv => WorkAt(s))
        /\ (t # <<>> => /\ Known(t) /\ ~Is(t, "hold")
                        /\ MayLaunchTwo(t) => MayLaunchTwo(s)
                        /\ MayLaunch(t) => MayLaunch(s) \/ MayLaunchTwo(s))
           => /\ OneRuns' /\ Placed'
              /\ (t = <<>> => Polling') /\ (t # <<>> => PollsAt(t)') => PollsInv'
              /\ (t = <<>> => (HasWork /\ StoppedIsNotReady)') /\ (t # <<>> => WorkAt(t)') => WorkInv'
  BY <1>1, <1>2, RunKeeps
<1>5. Is(s, "handle") /\ UNCHANGED <<started, requests, syncState, isStarted, state, timer, live, isConnected>>
  BY <1>4 DEF Handle, At, Is, appVars, syncerVars, netVars
<1>6. d = <<>> /\ End(s) = "handle"
  BY <1>4, <1>5, StopFollows, FetchFollows, StoreFollows DEF Known, Is
<1>7. t = steps
  BY <1>1, <1>4, <1>6, ConcatEmptySeq
<1>8. CASE isStarted
  <2>1. AtBranch(t) /\ End(t) = "branch"
    BY <1>1, <1>7, <1>8 DEF steps
  <2>2. t # <<>> /\ Known(t) /\ Head(t).op = "branch" /\ ~Is(t, "hold") /\ MayLaunchTwo(s)
    BY <1>5, <2>1 DEF AtBranch, Known, Fetches, MayLaunchTwo, Is
  <2>3. ~MayLaunch(t)
    BY <2>2 DEF MayLaunch, IsWith, Is
  <2>4. PollsAt(t)'
    BY <1>4, <1>5, <1>6, <1>8, <2>1, <2>2 DEF PollsAt, TimerRuns, End
  <2>5. WorkAt(s) => WorkAt(t)'
    <3> SUFFICES ASSUME WorkAt(s) PROVE WorkAt(t)'
      OBVIOUS
    <3>1. StoppedIsNotReady' /\ (HasWork' \/ state' = "NotReady")
      BY <1>5, <1>6 DEF WorkAt, StoppedIsNotReady, HasWork, Is
    <3> QED BY <2>1, <2>2, <3>1 DEF WorkAt, WorkIsNext, IsWith, Is, End
  <2> QED BY <1>4, <2>2, <2>3, <2>4, <2>5
<1>9. CASE ~isStarted
  <2>1. t = <<>>
    BY <1>7, <1>9 DEF steps
  <2>2. Polling'
    BY <1>4, <1>5, <1>6, <1>9 DEF PollsAt, Polling, TimerRuns
  <2>3. WorkAt(s) => (HasWork /\ StoppedIsNotReady)'
    BY <1>5, <1>6, <1>9 DEF WorkAt, StoppedIsNotReady, HasWork, Is
  <2> QED BY <1>4, <2>1, <2>2, <2>3
<1> QED BY <1>8, <1>9

LEMMA BranchKeeps ==
  ASSUME ApiInv, NEW th \in Threads, Branch(th) PROVE OneRuns' /\ Placed' /\ PollsInv' /\ (WorkInv => WorkInv')
<1> DEFINE steps == OnConnection(isConnected)
<1>1. isConnected \in BOOLEAN
  BY DEF ApiInv, TypeOK
<1>2. /\ \/ isConnected /\ AtReady(steps) /\ End(steps) = "newTimer"
         \/ ~isConnected /\ AtNotReady(steps) /\ End(steps) = "forgetTimer"
      /\ steps \in Seq(Statements)
  BY <1>1, ConnectionLists
<1>3. UNCHANGED requests /\ todo[th] # <<>> /\ Run(th, steps)
  BY DEF Branch, At
<1> HIDE DEF steps
<1>4. PICK s, d, t \in Seq(Statements) :
        /\ s = todo[th] /\ s # <<>> /\ d = Tail(s) /\ t = steps \o d /\ Known(s) /\ Head(s) \in Statements
        /\ d = <<>> => End(s) = Head(s).op
        /\ d # <<>> => End(d) = End(s)
        /\ PollsAt(s) /\ (WorkInv => WorkAt(s))
        /\ (t # <<>> => /\ Known(t) /\ ~Is(t, "hold")
                        /\ MayLaunchTwo(t) => MayLaunchTwo(s)
                        /\ MayLaunch(t) => MayLaunch(s) \/ MayLaunchTwo(s))
           => /\ OneRuns' /\ Placed'
              /\ (t = <<>> => Polling') /\ (t # <<>> => PollsAt(t)') => PollsInv'
              /\ (t = <<>> => (HasWork /\ StoppedIsNotReady)') /\ (t # <<>> => WorkAt(t)') => WorkInv'
  BY <1>2, <1>3, RunKeeps
<1>5. Is(s, "branch") /\ UNCHANGED <<started, requests, syncState, isStarted, state, timer, live, isConnected>>
  BY <1>4 DEF Branch, At, Is, appVars, syncerVars, netVars
<1>6. d = <<>> /\ End(s) = "branch"
  BY <1>4, <1>5, StopFollows, FetchFollows, StoreFollows DEF Known, Is
<1>7. t = steps
  BY <1>2, <1>4, <1>6, ConcatEmptySeq
<1>8. isStarted /\ TimerRuns
  BY <1>4, <1>6 DEF PollsAt
<1>9. WorkAt(s) => StoppedIsNotReady' /\ (HasWork' \/ state' = "NotReady")
  BY <1>5, <1>6 DEF WorkAt, StoppedIsNotReady, HasWork, Is
<1>10. CASE isConnected /\ AtReady(t) /\ End(t) = "newTimer"
  <2>1. t # <<>> /\ Known(t) /\ Head(t).op = "setState" /\ Head(t).arg = "Ready" /\ ~Is(t, "hold") /\ MayLaunchTwo(s)
    BY <1>5, <1>10 DEF AtReady, Known, Fetches, MayLaunchTwo, IsWith, Is
  <2>2. ~MayLaunch(t)
    BY <2>1 DEF MayLaunch, IsWith, Is
  <2>3. PollsAt(t)'
    BY <1>5, <1>8, <1>10, <2>1 DEF PollsAt, End
  <2>4. WorkAt(s) => WorkAt(t)'
    BY <1>9, <1>10, <2>1 DEF WorkAt, WorkIsNext, IsWith, Is, End
  <2> QED BY <1>4, <2>1, <2>2, <2>3, <2>4
<1>11. CASE AtNotReady(t) /\ End(t) = "forgetTimer"
  <2>1. t # <<>> /\ Known(t) /\ Head(t).op = "setState" /\ Head(t).arg = "NotReady" /\ ~Is(t, "hold")
    BY <1>11 DEF AtNotReady, Known, Stops, IsWith, Is
  <2>2. ~MayLaunch(t) /\ ~MayLaunchTwo(t)
    BY <2>1 DEF MayLaunch, MayLaunchTwo, IsWith, Is
  <2>3. PollsAt(t)'
    BY <1>11, <2>1 DEF PollsAt, End
  <2>4. WorkAt(s) => WorkAt(t)'
    BY <1>9, <1>11, <2>1 DEF WorkAt, WorkIsNext, IsWith, Is, End
  <2> QED BY <1>4, <2>1, <2>2, <2>3, <2>4
<1> QED BY <1>2, <1>7, <1>10, <1>11

LEMMA SetStateKeeps ==
  ASSUME ApiInv, NEW th \in Threads, SetState(th) PROVE OneRuns' /\ Placed' /\ PollsInv' /\ (WorkInv => WorkInv')
<1> DEFINE steps == IF state = "Ready" /\ Arg(th) = "Ready" THEN <<>> ELSE DidUpdate(Arg(th))
<1>1. OnReady \in Seq(Statements) /\ OnNotReady \in Seq(Statements) /\ <<>> \in Seq(Statements)
  BY HandlersAreStatements
<1>2. steps \in Seq(Statements)
  BY <1>1 DEF DidUpdate
<1>3. UNCHANGED requests /\ todo[th] # <<>> /\ Run(th, steps)
  BY DEF SetState, At
<1> HIDE DEF steps
<1>4. PICK s, d, t \in Seq(Statements) :
        /\ s = todo[th] /\ s # <<>> /\ d = Tail(s) /\ t = steps \o d /\ Known(s) /\ Head(s) \in Statements
        /\ d = <<>> => End(s) = Head(s).op
        /\ d # <<>> => End(d) = End(s)
        /\ PollsAt(s) /\ (WorkInv => WorkAt(s))
        /\ (t # <<>> => /\ Known(t) /\ ~Is(t, "hold")
                        /\ MayLaunchTwo(t) => MayLaunchTwo(s)
                        /\ MayLaunch(t) => MayLaunch(s) \/ MayLaunchTwo(s))
           => /\ OneRuns' /\ Placed'
              /\ (t = <<>> => Polling') /\ (t # <<>> => PollsAt(t)') => PollsInv'
              /\ (t = <<>> => (HasWork /\ StoppedIsNotReady)') /\ (t # <<>> => WorkAt(t)') => WorkInv'
  BY <1>2, <1>3, RunKeeps
<1>5. /\ Is(s, "setState") /\ state' = Head(s).arg /\ Arg(th) = Head(s).arg
      /\ UNCHANGED <<started, requests, syncState, isStarted, timer, live, isConnected>>
  BY <1>4 DEF SetState, At, Arg, Is, appVars, netVars
<1>6. \/ Head(s).arg = "Ready" /\ AtNewTimer(d) /\ End(s) = "newTimer"
      \/ Head(s).arg = "NotReady" /\ d = <<>> /\ End(s) = "setState"
      \/ /\ Head(s).arg = "NotReady" /\ (AtCancel(d) \/ AtDisposeSyncer(d))
         /\ d # <<>> /\ End(s) \in {"forgetTimer", "clearShown"}
  <2>1. AtCancel(d) \/ AtDisposeSyncer(d) => d # <<>>
    BY DEF AtCancel, AtDisposeSyncer, IsWith, Is
  <2> QED BY <1>4, <1>5, <2>1, StopFollows, FetchFollows, StoreFollows DEF Known, Is
<1>7. CASE Head(s).arg = "Ready" /\ AtNewTimer(d) /\ End(s) = "newTimer"
  <2>1. isStarted /\ isConnected /\ MayLaunchTwo(s)
    BY <1>4, <1>5, <1>7 DEF PollsAt, MayLaunchTwo, IsWith
  <2>2. WorkAt(s) => StoppedIsNotReady' /\ (HasWork' \/ state = "NotReady")
    BY <1>5, <1>7, <2>1 DEF WorkAt, StoppedIsNotReady, HasWork, IsWith
  <2>3. d # <<>> /\ Head(d).op = "newTimer" /\ End(d) = "newTimer"
    BY <1>4, <1>7 DEF AtNewTimer, Is
  <2>4. CASE state = "Ready"
    <3>1. t = d
      <4>1. steps = <<>>
        BY <1>5, <1>7, <2>4 DEF steps
      <4> QED BY <1>4, <4>1, PutNothingBefore
    <3>2. Known(t) /\ ~Is(t, "hold") /\ ~MayLaunch(t)
      BY <1>7, <2>3, <3>1 DEF Known, Fetches, MayLaunch, IsWith, Is
    <3>3. PollsAt(t)'
      BY <1>5, <2>1, <2>3, <3>1 DEF PollsAt, End
    <3>4. WorkAt(s) => WorkAt(t)'
      BY <2>2, <2>3, <2>4, <3>1 DEF WorkAt, WorkIsNext, IsWith, Is, End
    <3> QED BY <1>4, <2>1, <2>3, <3>1, <3>2, <3>3, <3>4
  <2>5. CASE state # "Ready"
    <3>1. AtSyncing(t) /\ End(t) = "newTimer"
      <4>1. steps = OnReady
        BY <1>5, <1>7, <2>5 DEF steps, DidUpdate
      <4> QED BY <1>4, <1>7, <2>3, <4>1, FetchLists
    <3>2. t # <<>> /\ Known(t) /\ Head(t).op = "setSync" /\ ~Is(t, "hold") /\ ~MayLaunch(t)
      BY <3>1 DEF AtSyncing, Known, Fetches, MayLaunch, IsWith, Is
    <3>3. PollsAt(t)'
      BY <1>5, <2>1, <3>1, <3>2 DEF PollsAt, End
    <3>4. WorkAt(s) => WorkAt(t)'
      BY <2>2, <3>1, <3>2 DEF WorkAt, WorkIsNext, IsWith, Is, End
    <3> QED BY <1>4, <2>1, <3>2, <3>3, <3>4
  <2> QED BY <2>4, <2>5
<1>8. CASE /\ Head(s).arg = "NotReady"
           /\ \/ d = <<>> /\ End(s) = "setState"
              \/ (AtCancel(d) \/ AtDisposeSyncer(d)) /\ d # <<>> /\ End(s) \in {"forgetTimer", "clearShown"}
  <2>1. steps = OnNotReady
    BY <1>5, <1>8 DEF steps, DidUpdate
  <2>2. AtNotSynced(t) /\ End(t) = IF d = <<>> THEN "dispose" ELSE End(d)
    BY <1>4, <1>8, <2>1, NotReadyLists
  <2>3. t # <<>> /\ Known(t) /\ Head(t).op = "setSync" /\ Head(t).arg = "NotSynced"
    BY <2>2 DEF AtNotSynced, Known, Stops, IsWith, Is
  <2>4. ~Is(t, "hold") /\ ~MayLaunch(t) /\ ~MayLaunchTwo(t)
    BY <2>3 DEF MayLaunch, MayLaunchTwo, IsWith, Is
  <2>5. \/ d = <<>> /\ End(s) = "setState" /\ End(t) = "dispose"
        \/ End(s) \in {"forgetTimer", "clearShown"} /\ End(t) = End(s)
    BY <1>4, <1>8, <2>2
  <2>6. state' = "NotReady" /\ (d = <<>> => Polling)
    BY <1>4, <1>5, <1>8 DEF PollsAt, AtCancel, AtDisposeSyncer, IsWith, Is
  <2>7. PollsAt(t)'
    BY <1>5, <2>3, <2>5, <2>6 DEF PollsAt, Polling, TimerRuns, End
  <2>8. WorkAt(s) => WorkAt(t)'
    <3> SUFFICES ASSUME WorkAt(s) PROVE WorkAt(t)'
      OBVIOUS
    <3>1. /\ End(s) # "clearShown" => StoppedIsNotReady'
          /\ End(s) = "clearShown" => ~isStarted'
      BY <1>5, <2>6 DEF WorkAt, StoppedIsNotReady, Is
    <3> QED BY <2>3, <2>5, <2>6, <3>1 DEF WorkAt, WorkIsNext, IsWith, Is, End
  <2> QED BY <1>4, <2>3, <2>4, <2>7, <2>8
<1> QED BY <1>6, <1>7, <1>8

LEMMA SubscribeKeeps ==
  ASSUME ApiInv, NEW th \in Threads, Subscribe(th) PROVE OneRuns' /\ Placed' /\ PollsInv' /\ (WorkInv => WorkInv')
<1>1. PICK r \in Requests :
        /\ Unused(r) /\ Run(th, <<With("hold", r)>>)
        /\ requests' = [requests EXCEPT ![r] = [kind |-> Arg(th), phase |-> "sent", value |-> None]]
  BY DEF Subscribe
<1>2. todo[th] # <<>>
  BY DEF Subscribe, At
<1>3. PICK s \in Seq(Statements) : s = todo[th]
  BY <1>2, Running
<1>4. PICK d \in Seq(Statements) : d = Tail(todo[th])
  BY <1>2, Running
<1>5. /\ s # <<>> /\ Known(s) /\ d = Tail(s)
      /\ d = <<>> => End(s) = Head(s).op
      /\ d # <<>> => End(d) = End(s)
      /\ PollsAt(s) /\ (WorkInv => WorkAt(s)) /\ (MayLaunchTwo(s) => Room)
      /\ \A u \in Threads : u # th => todo[u] = <<>>
  BY <1>2, <1>3, <1>4, Running
<1>6. /\ Is(s, "subscribe") /\ Arg(th) = Head(s).arg
      /\ UNCHANGED <<started, syncState, isStarted, state, timer, live, isConnected>>
  BY <1>3 DEF Subscribe, At, Arg, Is, appVars, syncerVars, netVars
<1>7. /\ d = <<>> \/ AtNewTimer(d) \/ (AtHeight(d) /\ IsWith(s, "subscribe", "account"))
      /\ End(s) \in {"subscribe", "newTimer"} /\ (d = <<>> => End(s) = "subscribe")
  BY <1>5, <1>6, StopFollows, FetchFollows, StoreFollows DEF Known, Is
<1>8. PICK t \in Seq(Statements) : t = <<With("hold", r)>> \o d
  BY <1>7, HoldLists
<1>9. AtHold(t) /\ End(t) = (IF d = <<>> THEN "hold" ELSE End(d)) /\ t # <<>> /\ Head(t).op = "hold" /\ Head(t).arg = r /\ Tail(t) = d
  BY <1>7, <1>8, HoldLists
<1>10. todo' = [todo EXCEPT ![th] = t]
  BY <1>1, <1>4, <1>8 DEF Run
<1>11. todo'[th] = t /\ (\A u \in Threads : u # th => todo'[u] = <<>>) /\ OneRuns'
  BY <1>5, <1>10, OneGoesOn DEF ApiInv
<1>12. /\ requests'[r] = [kind |-> Head(s).arg, phase |-> "sent", value |-> None]
       /\ \A q \in Requests : q # r => requests'[q] = requests[q]
       /\ requests[r].kind = "none"
  BY <1>1, <1>6 DEF ApiInv, TypeOK, Unused, Free
<1>13. Placed'
  <2>1. Known(t) /\ ~MayLaunchTwo(t)
    BY <1>9 DEF Known, Fetches, MayLaunchTwo, IsWith, Is
  <2>2. ASSUME MayLaunch(t) PROVE (\E q \in Requests : Unused(q))'
    <3>1. AtHeight(d)
      BY <1>9, <2>2 DEF MayLaunch, IsWith, Is
    <3>2. IsWith(s, "subscribe", "account")
      BY <1>7, <3>1 DEF AtNewTimer, AtHeight, IsWith, Is
    <3>3. Room
      BY <1>5, <3>2 DEF MayLaunchTwo
    <3>4. PICK q \in Requests : q # r /\ Unused(q)
      BY <3>3 DEF Room
    <3>5. requests'[q] = Free /\ q # th
      BY <1>2, <1>12, <3>4 DEF Unused
    <3>6. ~(Is(t, "hold") /\ Head(t).arg = q)
      BY <1>9, <3>4
    <3>7. Unused(q)'
      BY <1>11, <3>5, <3>6, UnusedStays
    <3> QED BY <3>7
  <2> QED BY <1>11, <2>1, <2>2, OneIsPlaced
<1>14. End(t) \in {"hold", "subscribe", "newTimer"} /\ (End(t) = "newTimer" <=> End(s) = "newTimer")
  BY <1>5, <1>7, <1>9
<1>15. PollsAt(t)'
  <2>1. \/ End(s) = "newTimer" /\ isStarted' /\ isConnected' /\ End(t) = "newTimer"
        \/ Polling' /\ End(t) \in {"hold", "subscribe"}
    BY <1>5, <1>6, <1>7, <1>14 DEF PollsAt, Polling, TimerRuns
  <2> QED BY <1>9, <2>1 DEF PollsAt, End
<1>16. PollsInv'
  BY <1>9, <1>11, <1>15, OnePolls
<1>17. ASSUME WorkAt(s) PROVE WorkAt(t)'
  <2>1. StoppedIsNotReady'
    BY <1>6, <1>7, <1>17 DEF WorkAt, StoppedIsNotReady
  <2>2. HasWork'
    <3>1. CASE Head(s).arg = "account"
      BY <1>12, <3>1 DEF HasWork
    <3>2. CASE Head(s).arg # "account"
      <4> SUFFICES ASSUME syncState' = "Syncing" PROVE \E q \in Requests : requests'[q].kind = "account"
        BY DEF HasWork
      <4>1. HasWork
        BY <1>6, <1>17, <3>2 DEF WorkAt, WorkIsNext, Is
      <4>2. PICK q \in Requests : requests[q].kind = "account"
        BY <1>6, <4>1 DEF HasWork
      <4> QED BY <1>12, <4>2
    <3> QED BY <3>1, <3>2
  <2> QED BY <1>9, <1>14, <2>1, <2>2 DEF WorkAt, WorkIsNext, IsWith, Is, End
<1>18. WorkInv => WorkInv'
  <2>1. WorkInv => WorkAt(t)'
    BY <1>5, <1>17
  <2> QED BY <1>9, <1>11, <2>1, OneWorks
<1> QED BY <1>11, <1>13, <1>16, <1>18

-----------------------------------------------------------------------------
(* The whole specification                                                  *)

\* The chain and the node move no thread.
LEMMA NodeKeeps ==
  ASSUME ApiInv, NewBlock \/ (\E r \in Requests : Answer(r) \/ Fail(r)) \/ UNCHANGED vars
  PROVE  OneRuns' /\ Placed' /\ PollsInv' /\ (WorkInv => WorkInv')
<1>1. UNCHANGED <<todo, started, syncState, isStarted, state, timer, live, isConnected>>
  BY DEF NewBlock, Answer, Fail, vars, appVars, syncerVars, netVars
<1>2. \A q \in Requests : requests'[q].kind = requests[q].kind /\ (requests[q] = Free => requests'[q] = Free)
  <2>1. CASE NewBlock \/ UNCHANGED vars
    BY <2>1 DEF NewBlock, vars
  <2>2. ASSUME NEW r \in Requests, Answer(r) \/ Fail(r)
        PROVE  \A q \in Requests : requests'[q].kind = requests[q].kind /\ (requests[q] = Free => requests'[q] = Free)
    <3>1. requests[r].phase = "sent" /\ requests[r] # Free
      BY <2>2 DEF Answer, Fail, Free
    <3>2. PICK p \in {"answered", "failed"}, v \in {requests[r].value, height} :
            requests' = [requests EXCEPT ![r] = [requests[r] EXCEPT !.phase = p, !.value = v]]
      <4>1. requests \in [Requests -> AtNode \cup Answered \cup {Free}]
        BY DEF ApiInv, TypeOK, AtNode, Answered
      <4>2. requests[r] = [kind |-> requests[r].kind, phase |-> requests[r].phase, value |-> requests[r].value]
        BY <4>1 DEF AtNode, Answered, Free
      <4>3. CASE Answer(r)
        BY <4>1, <4>2, <4>3 DEF Answer
      <4>4. CASE Fail(r)
        <5>1. [requests[r] EXCEPT !.phase = "failed", !.value = requests[r].value] = [requests[r] EXCEPT !.phase = "failed"]
          BY <4>2
        <5> QED BY <4>1, <4>4, <5>1 DEF Fail
      <4> QED BY <2>2, <4>3, <4>4
    <3>3. requests'[r].kind = requests[r].kind /\ \A q \in Requests : q # r => requests'[q] = requests[q]
      <4>1. requests \in [Requests -> AtNode \cup Answered \cup {Free}]
        BY DEF ApiInv, TypeOK, AtNode, Answered
      <4>2. [requests[r] EXCEPT !.phase = p, !.value = v].kind = requests[r].kind
        BY <4>1 DEF AtNode, Answered, Free
      <4> QED BY <3>2, <4>1, <4>2
    <3> QED BY <3>1, <3>3
  <2> QED BY <2>1, <2>2
<1>3. \A q \in Requests : Unused(q) => Unused(q)'
  BY <1>1, <1>2 DEF Unused, At, Arg
<1>4. OneRuns'
  BY <1>1 DEF ApiInv, OneRuns
<1>5. Placed'
  <2>1. (Room => Room') /\ ((\E r \in Requests : Unused(r)) => (\E r \in Requests : Unused(r))')
    BY <1>3 DEF Room
  <2> QED BY <1>1, <2>1 DEF ApiInv, Placed
<1>6. PollsInv'
  BY <1>1 DEF ApiInv, PollsInv, PollsAt, Polling, TimerRuns, Quiet, End
<1>7. WorkInv => WorkInv'
  <2>1. HasWork => HasWork'
    BY <1>1, <1>2 DEF HasWork
  <2>2. StoppedIsNotReady => StoppedIsNotReady'
    BY <1>1 DEF StoppedIsNotReady
  <2>3. ASSUME NEW th \in Threads, WorkAt(todo[th]) PROVE WorkAt(todo[th])'
    <3>1. PICK s : s = todo[th]
      OBVIOUS
    <3>2. todo'[th] = s
      BY <1>1, <3>1
    <3>3. WorkAt(s)'
      BY <1>1, <2>1, <2>2, <2>3, <3>1 DEF WorkAt, WorkIsNext, IsWith, Is, End
    <3> QED BY <3>2, <3>3
  <2>4. Quiet' => Quiet
    BY <1>1 DEF Quiet
  <2> QED BY <1>1, <2>1, <2>2, <2>3, <2>4 DEF WorkInv
<1> QED BY <1>4, <1>5, <1>6, <1>7

LEMMA StepKeeps ==
  ASSUME ApiInv, NEW th \in Threads, Step(th) PROVE OneRuns' /\ Placed' /\ PollsInv' /\ (WorkInv => WorkInv')
<1>1. CASE SetStarted(th) \/ Handle(th) \/ Branch(th) \/ SetState(th) \/ SetSync(th)
  BY <1>1, StartedKeeps, HandleKeeps, BranchKeeps, SetStateKeeps, SyncKeeps
<1>2. CASE Subscribe(th) \/ Hold(th) \/ Dispose(th)
  BY <1>2, SubscribeKeeps, HoldKeeps, DisposeKeeps
<1>3. CASE NewTimer(th) \/ CancelTimer(th) \/ ForgetTimer(th) \/ Save(th) \/ Show(th)
  BY <1>3, NewTimerKeeps, CancelKeeps, ForgetKeeps, SaveKeeps, ShowKeeps
<1> QED BY <1>1, <1>2, <1>3 DEF Step

LEMMA InitKeeps == ASSUME Init PROVE ApiInv /\ WorkInv
<1>1. TypeOK
  BY InitTypeOK
<1>2. \A th \in Threads : todo[th] = <<>>
  BY DEF Init
<1>3. Polling /\ HasWork /\ StoppedIsNotReady
  BY DEF Init, Polling, TimerRuns, HasWork, StoppedIsNotReady
<1> QED BY <1>1, <1>2, <1>3 DEF ApiInv, OneRuns, Placed, PollsInv, WorkInv

LEMMA NextKeeps ==
  ASSUME OneAtATime, ApiInv, [Next]_vars
  PROVE  ApiInv' /\ (~EarlyRefresh /\ WorkInv => WorkInv')
<1>1. CASE UNCHANGED vars \/ NewBlock \/ \E r \in Requests : Answer(r) \/ Fail(r)
  <2>1. TypeOK'
    <3>1. CASE UNCHANGED vars
      BY <3>1 DEF ApiInv, vars, TypeOK, appVars, syncerVars, netVars, counters
    <3> QED BY <1>1, <3>1, NodeTypeOK DEF ApiInv
  <2> QED BY <1>1, <2>1, NodeKeeps DEF ApiInv
<1>2. CASE Start \/ Stop \/ RefreshCalled
  <2>1. TypeOK'
    BY <1>2, CallsTypeOK DEF ApiInv
  <2> QED BY <1>2, <2>1, StartKeeps, StopKeeps, RefreshKeeps DEF ApiInv
<1>3. CASE EnterForeground \/ ConnectionChanges
  <2>1. TypeOK'
    BY <1>3, CallsTypeOK DEF ApiInv
  <2> QED BY <1>3, <2>1, ConnectionKeeps DEF ApiInv
<1>4. CASE TransactionsHandled \/ \E t \in Timers : FireTimer(t)
  <2>1. TypeOK'
    BY <1>4, CallsTypeOK DEF ApiInv
  <2> QED BY <1>4, <2>1, RequestKeeps DEF ApiInv
<1>5. CASE \E r \in Requests : Callback(r)
  BY <1>5, CallbackTypeOK, CallbackKeeps DEF ApiInv
<1>6. CASE \E th \in Threads : Step(th)
  BY <1>6, StepTypeOK, StepKeeps DEF ApiInv
<1> QED BY <1>1, <1>2, <1>3, <1>4, <1>5, <1>6 DEF Next

\* While one thread at a time is inside this code, and the requests and timers alive are finitely
\* many: whenever no handler is under way, a syncer that is Ready polls with the timer it will
\* cancel, and a timer it refers to runs only while it is started and connected
\* (ApiRpcSyncer.handleConnectionChange, startTimer, stopTimer and the setter of state).
THEOREM ReadyPollsAlone == ASSUME OneAtATime PROVE Spec => []ReadyPolls
<1>1. Init => ApiInv
  BY InitKeeps
<1>2. ApiInv /\ [Next]_vars => ApiInv'
  BY NextKeeps
<1>3. ApiInv => ReadyPolls
  BY DEF ApiInv, PollsInv, Polling, TimerRuns, ReadyPolls
<1> QED BY <1>1, <1>2, <1>3, PTL DEF Spec

\* While one thread at a time is inside this code and refresh() is called only between start() and
\* stop(): whenever no handler is under way, a kit that says Syncing has a request for the account on
\* its way (RpcBlockchain.didUpdateSyncerState, syncAccountState and refresh, EthereumKit.stop).
THEOREM SyncingHasWorkAlone == ASSUME OneAtATime, ~EarlyRefresh PROVE Spec => []SyncingHasWork
<1>1. Init => ApiInv /\ WorkInv
  BY InitKeeps
<1>2. ApiInv /\ WorkInv /\ [Next]_vars => (ApiInv /\ WorkInv)'
  BY NextKeeps
<1>3. ApiInv /\ WorkInv => SyncingHasWork
  BY DEF WorkInv, HasWork, SyncingHasWork
<1> QED BY <1>1, <1>2, <1>3, PTL DEF Spec
=============================================================================
