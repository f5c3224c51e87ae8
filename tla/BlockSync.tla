------------------------------ MODULE BlockSync ------------------------------
(***************************************************************************)
(* The SPV client's header sync: BlockSyncer, which follows a LES peer's   *)
(* chain into the table of headers, and AccountStateSyncer, which asks for *)
(* the account's proof at each header synced to.  The client's side runs   *)
(* on the connection's thread only, one message at a time; what is hard is *)
(* the peer, whose chain reorganises between any two of its messages and   *)
(* which announces and answers independently.                              *)
(*                                                                         *)
(* A header is the path of branches that leads to it from the checkpoint:  *)
(* two headers have the same hash iff they are the same path, a header's   *)
(* height is its length and its parent the path without the last step.     *)
(***************************************************************************)
EXTENDS Integers, Sequences

CONSTANTS
  Branches,     \* what tells two blocks with one parent apart
  None,         \* no account state stored, or nothing synced yet
  Limit,        \* headersLimit: headers asked for at once
  MaxHeight,    \* bound: the chain's height above the checkpoint
  MaxReorgs,    \* bound: changes of the peer's chain
  MaxRestarts,  \* bound: restarts of the application
  MaxBreaks     \* bound: both together

ASSUME LimitAssumption == Limit \in Nat \ {0, 1}
ASSUME BoundsAssumption == {MaxHeight, MaxReorgs, MaxRestarts, MaxBreaks} \subseteq Nat
ASSUME NoneAssumption == None \notin Seq(Branches)

VARIABLES
  rows,         \* the table BlockHeader
  account,      \* the table AccountStateSpv: the header its state belongs to
  link,         \* the connection
  statusTask,   \* HandshakeTask: the height our last header had on connecting
  syncing,      \* BlockSyncer.syncing
  requests,     \* requests the peer has not looked at
  answers,      \* answers it has computed and not sent
  inbox,        \* messages on their way to the client
  head,         \* the head of the peer's chain
  greeted,      \* the peer has sent its status
  reorgs, restarts,
  shrunk,       \* history: the peer's chain has become shorter
  forkedAgain,  \* history: the chain forked below a fork being resolved
  overtaken,    \* history: a later request for a proof was answered first
  lastSynced    \* history: the header last synced to, in this process

tables   == <<rows, account>>
wire     == <<requests, answers, inbox>>
peerVars == <<head, greeted, reorgs, shrunk>>
history  == <<forkedAgain, overtaken, lastSynced>>
vars == <<tables, link, statusTask, syncing, wire, peerVars, restarts, history>>

MoreBreaks == reorgs + restarts < MaxBreaks

Checkpoint == <<>>
Headers == UNION {[1..n -> Branches] : n \in 0..MaxHeight}

Parent(b) == SubSeq(b, 1, Len(b) - 1)
Ancestor(b, height) == SubSeq(b, 1, height)
OnChain(b, h) == Len(b) <= Len(h) /\ Ancestor(h, Len(b)) = b

HeadersTasks == [from : Headers, reverse : BOOLEAN]
Requests ==
  [type : {"headers"}, task : HeadersTasks] \cup [type : {"proof"}, task : Headers]
Messages ==
  [type : {"headers"}, task : HeadersTasks,
   headers : UNION {[1..n -> Headers] : n \in 0..Limit}]
  \cup [type : {"proof"}, task : Headers, found : BOOLEAN]
  \cup [type : {"status", "announce"}, head : Headers]

InFlight == requests \o answers \o inbox
OfType(type) == {i \in DOMAIN InFlight : InFlight[i].type = type}

\* Types; the table's primary key is the height.
TypeOK ==
  /\ rows \subseteq Headers
  /\ \A b, c \in rows : Len(b) = Len(c) => b = c
  /\ account \in Headers \cup {None}
  /\ link \in {"down", "open", "closed"}
  /\ statusTask \in 0..MaxHeight
  /\ syncing \in BOOLEAN
  /\ requests \in Seq(Requests)
  /\ answers \in Seq(Messages)
  /\ inbox \in Seq(Messages)
  /\ head \in Headers
  /\ greeted \in BOOLEAN
  /\ reorgs \in 0..MaxReorgs
  /\ restarts \in 0..MaxRestarts
  /\ shrunk \in BOOLEAN
  /\ forkedAgain \in BOOLEAN
  /\ overtaken \in BOOLEAN
  /\ lastSynced \in Headers \cup {None}

Init ==
  /\ rows = {}
  /\ account = None
  /\ link = "down"
  /\ statusTask = 0
  /\ syncing = FALSE
  /\ requests = <<>> /\ answers = <<>> /\ inbox = <<>>
  /\ head \in Headers
  /\ greeted = FALSE
  /\ reorgs = 0 /\ restarts = 0
  /\ shrunk = FALSE /\ forkedAgain = FALSE /\ overtaken = FALSE
  /\ lastSynced = None

-----------------------------------------------------------------------------
(* The storage.                                                            *)

\* BlockHeaderDao.insertAll, REPLACE; the mutant inserts beside what is there.
SaveBeside(hs) == rows \cup hs
Save(hs) == {b \in rows : \A c \in hs : Len(b) # Len(c)} \cup hs

lastBlockHeader ==
  IF rows = {} THEN Checkpoint
  ELSE CHOOSE b \in rows : \A c \in rows : Len(c) <= Len(b)

-----------------------------------------------------------------------------
(* The connection.  It is opened once: Connection is a Thread.             *)

NothingInFlight == requests' = <<>> /\ answers' = <<>> /\ inbox' = <<>>

\* start() and, once the peers have said hello, didConnect.
Connect ==
  /\ link = "down"
  /\ link' = "open"
  /\ statusTask' = Len(lastBlockHeader)
  /\ UNCHANGED <<tables, syncing, wire, peerVars, restarts, history>>

\* The socket fails, and nothing connects again.
LoseConnection ==
  /\ link = "open"
  /\ link' = "closed"
  /\ NothingInFlight
  /\ UNCHANGED <<tables, statusTask, syncing, peerVars, restarts, history>>

\* disconnect(error), when a message's handler throws; the mutant goes on with
\* the next message.
DisconnectNot ==
  /\ inbox' = Tail(inbox)
  /\ UNCHANGED <<link, requests, answers>>

Disconnect ==
  /\ link' = "closed"
  /\ NothingInFlight

\* The process ends and another one begins; the tables remain.
Restart ==
  /\ link # "down"
  /\ restarts < MaxRestarts /\ MoreBreaks
  /\ restarts' = restarts + 1
  /\ link' = "down"
  /\ statusTask' = 0
  /\ syncing' = FALSE
  /\ NothingInFlight
  /\ greeted' = FALSE
  /\ lastSynced' = None
  /\ UNCHANGED <<tables, head, reorgs, shrunk, forkedAgain, overtaken>>

-----------------------------------------------------------------------------
(* The client: one action per message and outcome of its handler.          *)

Receive(type) ==
  /\ link = "open"
  /\ inbox # <<>>
  /\ Head(inbox).type = type
  /\ UNCHANGED <<statusTask, peerVars, restarts, overtaken>>

Proceed(q) == requests' = requests \o q /\ inbox' = Tail(inbox) /\ UNCHANGED <<answers, link>>
Ask(from, reverse) ==
  <<[type |-> "headers", task |-> [from |-> from, reverse |-> reverse]]>>

\* The mutant compares heights only.
onUpdateIfHigher(best) ==
  IF syncing \/ Len(lastBlockHeader) >= Len(best)
  THEN Proceed(<<>>) /\ UNCHANGED syncing
  ELSE Proceed(Ask(lastBlockHeader, FALSE)) /\ syncing' = TRUE

onUpdate(best) ==
  IF \/ syncing
     \/ Len(lastBlockHeader) > Len(best)
     \/ lastBlockHeader = best
  THEN Proceed(<<>>) /\ UNCHANGED syncing
  ELSE Proceed(Ask(lastBlockHeader, FALSE)) /\ syncing' = TRUE

didCompleteHandshake ==
  /\ Receive("status")
  /\ Len(Head(inbox).head) >= statusTask
  /\ onUpdate(Head(inbox).head)
  /\ UNCHANGED <<tables, forkedAgain, lastSynced>>

ExpiredBestBlockHeight ==
  /\ Receive("status")
  /\ Len(Head(inbox).head) < statusTask
  /\ Disconnect
  /\ UNCHANGED <<tables, syncing, forkedAgain, lastSynced>>

didAnnounce ==
  /\ Receive("announce")
  /\ onUpdate(Head(inbox).head)
  /\ UNCHANGED <<tables, forkedAgain, lastSynced>>

\* The mutant keeps syncing.
onFailureSyncing == Proceed(<<>>) /\ UNCHANGED syncing

onFailure == Proceed(<<>>) /\ syncing' = FALSE

\* Local headers among those of the peer, looked for from the lowest.
Common(headers, from) ==
  {b \in rows : /\ Len(b) \in (Len(from) - Len(headers))..Len(from)
                /\ \E i \in DOMAIN headers : headers[i] = b}
Lowest(S) == CHOOSE b \in S : \A c \in S : Len(b) <= Len(c)

handleFork ==
  /\ Receive("headers")
  /\ LET m == Head(inbox)
         common == Common(m.headers, m.task.from)
     IN /\ m.task.reverse
        /\ IF common = {}
           THEN onFailure
           ELSE Proceed(Ask(Lowest(common), FALSE)) /\ UNCHANGED syncing
  /\ UNCHANGED <<tables, forkedAgain, lastSynced>>

\* The mutant does not look where the headers begin.
validateLinks(headers, from) ==
  IF \/ headers = <<>>
     \/ \E i \in 2..Len(headers) : Parent(headers[i]) # headers[i - 1]
  THEN "InvalidChain" ELSE "valid"

validate(headers, from) ==
  IF headers = <<>> THEN "InvalidChain"
  ELSE IF headers[1] # from THEN "ForkDetected"
  ELSE IF \E i \in 2..Len(headers) : Parent(headers[i]) # headers[i - 1] THEN "InvalidChain"
  ELSE "valid"

\* The headers are not what the client has at that height, or no chain.
HeadersRefused ==
  /\ Receive("headers")
  /\ LET m == Head(inbox)
         verdict == validate(m.headers, m.task.from)
     IN /\ ~m.task.reverse
        /\ \/ /\ verdict = "ForkDetected"
              /\ Proceed(Ask(m.task.from, TRUE))
              /\ forkedAgain' = (forkedAgain \/ m.task.from # lastBlockHeader)
              /\ UNCHANGED syncing
           \/ verdict = "InvalidChain" /\ onFailure /\ UNCHANGED forkedAgain
  /\ UNCHANGED <<tables, lastSynced>>

handleBlockHeaders ==
  /\ Receive("headers")
  /\ LET m == Head(inbox)
         last == m.headers[Len(m.headers)]
     IN /\ ~m.task.reverse
        /\ validate(m.headers, m.task.from) = "valid"
        /\ rows' = Save({m.headers[i] : i \in DOMAIN m.headers})
        /\ IF Len(m.headers) < Limit
           THEN /\ Proceed(<<[type |-> "proof", task |-> last]>>)
                /\ syncing' = FALSE
                /\ lastSynced' = last
           ELSE /\ Proceed(Ask(last, FALSE))
                /\ UNCHANGED <<syncing, lastSynced>>
  /\ UNCHANGED <<account, forkedAgain>>

didReceiveProof ==
  /\ Receive("proof")
  /\ IF Head(inbox).found
     THEN Proceed(<<>>) /\ account' = Head(inbox).task
     ELSE Disconnect /\ UNCHANGED account
  /\ UNCHANGED <<rows, syncing, forkedAgain, lastSynced>>

Client ==
  \/ didCompleteHandshake \/ ExpiredBestBlockHeight \/ didAnnounce
  \/ handleFork \/ HeadersRefused \/ handleBlockHeaders \/ didReceiveProof

-----------------------------------------------------------------------------
(* The peer.                                                               *)

Forward(from) ==
  LET last == IF Len(from) + Limit - 1 <= Len(head) THEN Len(from) + Limit - 1 ELSE Len(head)
  IN [i \in 1..(IF Len(from) <= last THEN last - Len(from) + 1 ELSE 0)
        |-> Ancestor(head, Len(from) + i - 1)]

Backward(from) ==
  LET n == IF Len(from) > Len(head) THEN 0
           ELSE IF Len(from) + 1 < Limit THEN Len(from) + 1 ELSE Limit
  IN [i \in 1..n |-> Ancestor(head, Len(from) - i + 1)]

\* The chain grows, or another one with more difficulty takes its place.
Reorganise(b) ==
  /\ reorgs < MaxReorgs /\ MoreBreaks
  /\ b # head
  /\ reorgs' = reorgs + 1
  /\ head' = b
  /\ shrunk' = (shrunk \/ Len(b) < Len(head))
  /\ UNCHANGED <<tables, link, statusTask, syncing, wire, greeted, restarts, history>>

Greet ==
  /\ link = "open" /\ ~greeted
  /\ greeted' = TRUE
  /\ inbox' = Append(inbox, [type |-> "status", head |-> head])
  /\ UNCHANGED <<tables, link, statusTask, syncing, requests, answers, head, reorgs, shrunk,
                 restarts, history>>

\* One announcement at a time on its way; a repeated one stands for a block
\* that came and went.
Announce ==
  /\ link = "open" /\ greeted
  /\ \A i \in DOMAIN inbox : inbox[i].type # "announce"
  /\ inbox' = Append(inbox, [type |-> "announce", head |-> head])
  /\ UNCHANGED <<tables, link, statusTask, syncing, requests, answers, peerVars, restarts, history>>

\* The peer works on several requests at once and answers in any order.
Answer(i) ==
  LET r == requests[i]
      Reply(m) == answers' = Append(answers, m)
  IN /\ requests' = SubSeq(requests, 1, i - 1) \o SubSeq(requests, i + 1, Len(requests))
     /\ \/ /\ r.type = "headers"
           /\ Reply([type |-> "headers", task |-> r.task,
                     headers |-> IF r.task.reverse THEN Backward(r.task.from)
                                 ELSE Forward(r.task.from)])
           /\ UNCHANGED overtaken
        \/ /\ r.type = "proof"
           /\ \E found \in BOOLEAN :
                /\ OnChain(r.task, head) => found
                /\ Reply([type |-> "proof", task |-> r.task, found |-> found])
           /\ overtaken' = (overtaken \/ \E j \in 1..(i - 1) : requests[j].type = "proof")
     /\ UNCHANGED <<tables, link, statusTask, syncing, inbox, peerVars, restarts, forkedAgain,
                    lastSynced>>

SendAnswer ==
  /\ answers # <<>>
  /\ inbox' = Append(inbox, Head(answers))
  /\ answers' = Tail(answers)
  /\ UNCHANGED <<tables, link, statusTask, syncing, requests, peerVars, restarts, history>>

Next ==
  \/ Connect \/ LoseConnection \/ Restart
  \/ Client
  \/ \E b \in Headers : Reorganise(b)
  \/ Greet \/ Announce \/ SendAnswer
  \/ \E i \in DOMAIN requests : Answer(i)

Spec == Init /\ [][Next]_vars

-----------------------------------------------------------------------------
(* Stored headers form one chain that ends in the last one: each but the   *)
(* checkpoint has its parent in the table, whatever forks were rewritten   *)
(* and however often the sync stopped half way.  A peer whose chain        *)
(* becomes shorter breaks it: the rows above its head remain.              *)
HeadersLinked ==
  ~shrunk /\ ~forkedAgain => \A b \in rows : b # Checkpoint => Parent(b) \in rows

(* syncing, which shuts out announcements, is set exactly while a request  *)
(* for headers or its answer is under way, and there is never a second.    *)
SyncingHasRequest ==
  link = "open" =>
    /\ syncing <=> OfType("headers") # {}
    /\ \A i, j \in OfType("headers") : i = j

(* With no proof under way, the account's state is that of the header last *)
(* synced to, unless the peer answered two requests for proofs in the      *)
(* wrong order.                                                            *)
AccountIsLastSynced ==
  (link = "open" /\ ~overtaken /\ lastSynced # None /\ OfType("proof") = {})
    => account = lastSynced

-----------------------------------------------------------------------------
(* Fairness: the connection's thread runs, the peer answers what it was    *)
(* asked, and new blocks go on being announced.                            *)
AnnouncedSpec ==
  /\ Spec
  /\ WF_vars(Client) /\ WF_vars(SendAnswer)
  /\ WF_vars(\E i \in DOMAIN requests : Answer(i))
  /\ WF_vars(Greet) /\ WF_vars(Announce)

(* The fork lies below what one reversed request reaches.                  *)
ForkTooDeep ==
  \A b \in rows : Len(b) > Len(lastBlockHeader) - Limit => ~OnChain(b, head)

(* The chain of a peer that stays connected is stored up to its head, if   *)
(* it is no shorter than the stored one and their fork is within reach:    *)
(* announcements dropped while syncing are made up for by later ones.      *)
HeadIsStored ==
  <>[](link = "open") =>
    <>[](lastBlockHeader = head \/ Len(lastBlockHeader) > Len(head) \/ (rows # {} /\ ForkTooDeep))
=============================================================================
