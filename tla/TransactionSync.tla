--------------------------- MODULE TransactionSync ---------------------------
(***************************************************************************)
(* How a transaction reaches the wallet's history.  Hashes found by the    *)
(* explorer's syncers enter NotSyncedTransactionPool; TransactionSyncer    *)
(* takes batches from it, fetches each transaction, its receipt and its    *)
(* block, and moves it to the Transaction table; transactions sent by the  *)
(* application go to the table at once and PendingTransactionSyncer looks  *)
(* for their receipts.  Both drop the pending transactions that a          *)
(* transaction with the same nonce replaces.                               *)
(*                                                                         *)
(* Nothing serialises TransactionSyncer.sync(): it is called by the thread *)
(* that adds to the pool (inside the pool's monitor), by the kit's sync    *)
(* state, and by the io thread that finishes a batch.                      *)
(***************************************************************************)
EXTENDS Integers, FiniteSets

CONSTANTS
  Txs,          \* transactions, named by their hash
  NonceOf,      \* [Txs -> Nat]
  Incoming,     \* transactions sent by other accounts; the rest are of this one
  Runs,         \* bound: threads inside TransactionSyncer at a time
  PendingRuns,  \* bound: threads inside PendingTransactionSyncer at a time
  NoRun, NoTx,
  BatchSize,    \* txSyncBatchSize
  NodeLags,     \* whether the node may be behind the explorer
  MaxCrashes,   \* bound: process deaths
  MaxFailures,  \* bound: requests that fail
  MaxFaults     \* bound: both together

ASSUME ConstantsAssumption ==
  /\ NonceOf \in [Txs -> Nat]
  /\ Incoming \subseteq Txs
  /\ NoRun \notin Runs
  /\ NoTx \notin Txs
  /\ BatchSize \in Nat \ {0}
  /\ NodeLags \in BOOLEAN

ASSUME BoundsAssumption == MaxCrashes \in Nat /\ MaxFailures \in Nat /\ MaxFaults \in Nat

VARIABLES
  chain,        \* [Txs -> {"none", "pending", "mined"}]: what the network knows
  node,         \* the same, as the node answers it
  pool,         \* NotSyncTransactionRecord: "no", or what the record holds:
                \*   "hash", or a transaction "pending" or "mined"
  rows,         \* Transaction table
  receipts,     \* TransactionReceipt table
  dropped,      \* DroppedTransaction table: replacedWith, or NoTx
  tagged,       \* transactions handed to the listener, which tags them
  state,        \* TransactionSyncer.state
  holder,       \* the run that holds the pool's monitor
  runPc,        \* where each TransactionSyncer thread is
  item,         \* where it is with each transaction of its batch
  detail,       \* the transaction its NotSyncedTransaction object holds
  adding,       \* what a run that is adding to the pool adds
  pendingItem,  \* where a PendingTransactionSyncer thread is with each row
  sending,      \* transactions sent and not yet in the table
  crashes, failures,
  accepted,     \* history: hashes the pool took
  silenced      \* history: rows written by a batch that failed or died

stored   == <<pool, rows, receipts, dropped, tagged>>
world    == <<chain, node>>
syncer   == <<state, holder, runPc, item, detail, adding>>
counters == <<crashes, failures>>

MoreFaults == crashes + failures < MaxFaults
history  == <<accepted, silenced>>
vars == <<stored, world, syncer, pendingItem, sending, counters, history>>

Stages == {"tx", "receipt", "block", "drop", "save", "remove", "done", "absent"}
Finalizing == {"drop", "save", "remove"}

\* Types: the rows, the batches of both syncers, and what replaced a dropped row.
TypeOK ==
  /\ chain \in [Txs -> {"none", "pending", "mined"}]
  /\ node \in [Txs -> {"none", "pending", "mined"}]
  /\ pool \in [Txs -> {"no", "hash", "pending", "mined"}]
  /\ rows \subseteq Txs
  /\ receipts \subseteq Txs
  /\ dropped \in [Txs -> Txs \cup {NoTx}]
  /\ tagged \subseteq Txs
  /\ state \in {"NotSynced", "Syncing", "Synced"}
  /\ holder \in Runs \cup {NoRun}
  /\ runPc \in [Runs -> {"idle", "insert", "check", "read", "setSynced",
                         "setSyncing", "items", "draining"}]
  /\ item \in [Runs -> [Txs -> Stages \cup {"out"}]]
  /\ detail \in [Runs -> [Txs -> {"hash", "pending", "mined"}]]
  /\ adding \in [Runs -> [Txs -> {"no", "hash", "mined"}]]
  /\ pendingItem \in [PendingRuns -> [Txs -> {"out", "fetch", "block", "handle",
                                              "drop", "done"}]]
  /\ sending \subseteq Txs
  /\ crashes \in 0..MaxCrashes
  /\ failures \in 0..MaxFailures
  /\ accepted \subseteq Txs
  /\ silenced \subseteq Txs

NoItems == [t \in Txs |-> "out"]
NoDetail == [t \in Txs |-> "hash"]
NothingAdded == [t \in Txs |-> "no"]

Init ==
  /\ chain = [t \in Txs |-> "none"]
  /\ node = [t \in Txs |-> "none"]
  /\ pool = NothingAdded
  /\ rows = {}
  /\ receipts = {}
  /\ dropped = [t \in Txs |-> NoTx]
  /\ tagged = {}
  /\ state = "NotSynced"
  /\ holder = NoRun
  /\ runPc = [r \in Runs |-> "idle"]
  /\ item = [r \in Runs |-> NoItems]
  /\ detail = [r \in Runs |-> NoDetail]
  /\ adding = [r \in Runs |-> NothingAdded]
  /\ pendingItem = [p \in PendingRuns |-> NoItems]
  /\ sending = {}
  /\ crashes = 0
  /\ failures = 0
  /\ accepted = {}
  /\ silenced = {}

-----------------------------------------------------------------------------
(* The network and the node (external). *)

SameSlot(t, u) ==
  NonceOf[t] = NonceOf[u] /\ (t \in Incoming) = (u \in Incoming)

\* At most one transaction of an account is mined for a nonce.
SlotTaken(t) == \E u \in Txs \ {t} : SameSlot(t, u) /\ chain[u] = "mined"

\* A transaction of this account sent from another device, or an incoming one.
AppearOnNetwork(t) ==
  /\ chain[t] = "none"
  /\ ~SlotTaken(t)
  /\ chain' = [chain EXCEPT ![t] = "pending"]
  /\ node' = IF NodeLags THEN node ELSE chain'
  /\ UNCHANGED <<stored, syncer, pendingItem, sending, counters, history>>

Mine(t) ==
  /\ chain[t] = "pending"
  /\ ~SlotTaken(t)
  /\ chain' = [chain EXCEPT ![t] = "mined"]
  /\ node' = IF NodeLags THEN node ELSE chain'
  /\ UNCHANGED <<stored, syncer, pendingItem, sending, counters, history>>

NodeCatchesUp(t) ==
  /\ node[t] # chain[t]
  /\ node' = [node EXCEPT ![t] = chain[t]]
  /\ UNCHANGED <<stored, chain, syncer, pendingItem, sending, counters, history>>

-----------------------------------------------------------------------------
(* Tables. *)

Pending == {t \in rows : t \notin receipts /\ dropped[t] = NoTx}

\* Mutants of PendingWithNonce: the query forgets that a receipt ends the wait, or
\* takes the transactions of earlier nonces.
AllWithNonce(n) == {u \in rows : dropped[u] = NoTx /\ NonceOf[u] = n}
PendingBelowNonce(n) == {u \in Pending : NonceOf[u] < n}

\* getPendingTransactionList(nonce): whoever the sender is.
PendingWithNonce(n) == {u \in Pending : NonceOf[u] = n}

\* Mutant of DropReplacedBy: the record names the nonce, not the hash.
DropReplacedByNonce(t) ==
  LET duplicates == PendingWithNonce(NonceOf[t])
  IN  /\ dropped' = [u \in Txs |-> IF u \in duplicates THEN NonceOf[t] ELSE dropped[u]]
      /\ tagged' = tagged \cup duplicates

\* The pending transactions of t's nonce are replaced by t, and reported.
DropReplacedBy(t) ==
  LET duplicates == PendingWithNonce(NonceOf[t])
  IN  /\ dropped' = [u \in Txs |-> IF u \in duplicates THEN t ELSE dropped[u]]
      /\ tagged' = tagged \cup duplicates

-----------------------------------------------------------------------------
(* EthereumKit.send: the raw transaction goes out, then into the table. *)

Send(t) ==
  /\ t \notin Incoming
  /\ chain[t] = "none"
  /\ ~SlotTaken(t)
  /\ chain' = [chain EXCEPT ![t] = "pending"]
  /\ node' = IF NodeLags THEN node ELSE chain'
  /\ sending' = sending \cup {t}
  /\ UNCHANGED <<stored, syncer, pendingItem, counters, history>>

SaveSent(t) ==
  /\ t \in sending
  /\ sending' = sending \ {t}
  /\ rows' = rows \cup {t}
  /\ tagged' = tagged \cup {t}
  /\ UNCHANGED <<pool, receipts, dropped, world, syncer, pendingItem, counters, history>>

-----------------------------------------------------------------------------
(* NotSyncedTransactionPool. *)

\* add(): only mined transactions are listed by the explorer; the account's
\* list brings the transaction itself, the other lists its hash.
Discover(r, t, d) ==
  /\ runPc[r] = "idle"
  /\ holder = NoRun
  /\ chain[t] = "mined"
  /\ t \notin rows
  /\ holder' = r
  /\ runPc' = [runPc EXCEPT ![r] = "insert"]
  /\ adding' = [adding EXCEPT ![r][t] = d]
  /\ UNCHANGED <<stored, world, state, item, detail, pendingItem, sending,
                 counters, history>>

\* The record replaces an earlier one; the signal makes this very thread sync().
Insert(r) ==
  /\ runPc[r] = "insert"
  /\ pool' = [t \in Txs |-> IF adding[r][t] = "no" THEN pool[t] ELSE adding[r][t]]
  /\ accepted' = accepted \cup {t \in Txs : adding[r][t] # "no"}
  /\ adding' = [adding EXCEPT ![r] = NothingAdded]
  /\ runPc' = [runPc EXCEPT ![r] = "check"]
  /\ UNCHANGED <<rows, receipts, dropped, tagged, world, state, holder, item, detail,
                 pendingItem, sending, counters, silenced>>

Release(r) == holder' = IF holder = r THEN NoRun ELSE holder

-----------------------------------------------------------------------------
(* TransactionSyncer. *)

\* onEthereumKitSynced()
KitSynced(r) ==
  /\ runPc[r] = "idle"
  /\ runPc' = [runPc EXCEPT ![r] = "check"]
  /\ UNCHANGED <<stored, world, state, holder, item, detail, adding, pendingItem,
                 sending, counters, history>>

\* sync(): a run in progress is expected to take the new hashes as well.
Check(r) ==
  /\ runPc[r] = "check"
  /\ IF state = "Syncing"
       THEN runPc' = [runPc EXCEPT ![r] = "idle"] /\ Release(r)
       ELSE runPc' = [runPc EXCEPT ![r] = "read"] /\ UNCHANGED holder
  /\ UNCHANGED <<stored, world, state, item, detail, adding, pendingItem, sending,
                 counters, history>>

Waiting == {t \in Txs : pool[t] # "no"}

\* SELECT ... LIMIT batchSize, in no order the code states.
Batches ==
  {B \in SUBSET Waiting : \/ B = Waiting /\ Cardinality(B) <= BatchSize
                          \/ Cardinality(B) = BatchSize}

ReadPool(r) ==
  /\ runPc[r] = "read"
  /\ \E B \in Batches :
       /\ runPc' = [runPc EXCEPT ![r] = IF B = {} THEN "setSynced" ELSE "setSyncing"]
       /\ item' = [item EXCEPT ![r] =
            [t \in Txs |-> IF t \notin B THEN "out"
                           ELSE IF pool[t] = "hash" THEN "tx" ELSE "receipt"]]
       /\ detail' = [detail EXCEPT ![r] =
            [t \in Txs |-> IF t \in B THEN pool[t] ELSE "hash"]]
  /\ UNCHANGED <<stored, world, state, holder, adding, pendingItem, sending,
                 counters, history>>

SetSynced(r) ==
  /\ runPc[r] = "setSynced"
  /\ state' = "Synced"
  /\ runPc' = [runPc EXCEPT ![r] = "idle"]
  /\ Release(r)
  /\ UNCHANGED <<stored, world, item, detail, adding, pendingItem, sending,
                 counters, history>>

SetSyncing(r) ==
  /\ runPc[r] = "setSyncing"
  /\ state' = "Syncing"
  /\ runPc' = [runPc EXCEPT ![r] = "items"]
  /\ Release(r)
  /\ UNCHANGED <<stored, world, item, detail, adding, pendingItem, sending,
                 counters, history>>

Move(r, t, s) == item' = [item EXCEPT ![r][t] = s]

\* syncTransactionSingle: the record is written again, be it there or not.
FetchTransaction(r, t) ==
  /\ runPc[r] = "items"
  /\ item[r][t] = "tx"
  /\ IF node[t] = "none"
       THEN Move(r, t, "absent") /\ UNCHANGED <<pool, detail>>
       ELSE /\ holder = NoRun
            /\ pool' = [pool EXCEPT ![t] = node[t]]
            /\ detail' = [detail EXCEPT ![r][t] = node[t]]
            /\ Move(r, t, "receipt")
  /\ UNCHANGED <<rows, receipts, dropped, tagged, world, state, holder, runPc,
                 adding, pendingItem, sending, counters, history>>

\* Mutant of ReceiptNeeded: the receipt is left to PendingTransactionSyncer.
ReceiptSkipped(r, t) == FALSE

\* A transaction with no block number yet goes on without a receipt.
ReceiptNeeded(r, t) == detail[r][t] = "mined" /\ t \notin receipts

\* syncReceiptSingle: the receipt is stored before the transaction's row.
FetchReceipt(r, t) ==
  /\ runPc[r] = "items"
  /\ item[r][t] = "receipt"
  /\ \/ /\ ~ReceiptNeeded(r, t)
        /\ Move(r, t, IF detail[r][t] = "mined" THEN "block" ELSE "drop")
        /\ UNCHANGED receipts
     \/ /\ ReceiptNeeded(r, t)
        /\ node[t] = "mined"
        /\ receipts' = receipts \cup {t}
        /\ Move(r, t, "block")
     \/ /\ ReceiptNeeded(r, t)
        /\ node[t] # "mined"
        /\ Move(r, t, "absent")
        /\ UNCHANGED receipts
  /\ UNCHANGED <<pool, rows, dropped, tagged, world, state, holder, runPc, detail,
                 adding, pendingItem, sending, counters, history>>

\* syncTimestampSingle: a node that lags may not have the block.
FetchBlock(r, t) ==
  /\ runPc[r] = "items"
  /\ item[r][t] = "block"
  /\ \/ Move(r, t, "drop")
     \/ NodeLags /\ Move(r, t, "absent")
  /\ UNCHANGED <<stored, world, state, holder, runPc, detail, adding, pendingItem,
                 sending, counters, history>>

\* Mutant of FinalizeOrder: the pool's record goes before the row is there.
FinalizeRemovesFirst ==
  [drop |-> "remove", remove |-> "save", save |-> "done"]

\* finalizeSync, three writes: the replaced ones, the row, the pool's record.
FinalizeOrder ==
  [drop |-> "save", save |-> "remove", remove |-> "done"]

FinalizeDrop(r, t) ==
  /\ item[r][t] = "drop"
  /\ DropReplacedBy(t)
  /\ Move(r, t, FinalizeOrder.drop)
  /\ UNCHANGED <<pool, rows, receipts, world, state, holder, runPc, detail,
                 adding, pendingItem, sending, counters, history>>

FinalizeSave(r, t) ==
  /\ item[r][t] = "save"
  /\ rows' = rows \cup {t}
  /\ Move(r, t, FinalizeOrder.save)
  /\ silenced' = IF runPc[r] = "draining" THEN silenced \cup {t} ELSE silenced
  /\ UNCHANGED <<pool, receipts, dropped, tagged, world, state, holder, runPc, detail,
                 adding, pendingItem, sending, counters, accepted>>

FinalizeRemove(r, t) ==
  /\ item[r][t] = "remove"
  /\ holder = NoRun
  /\ pool' = [pool EXCEPT ![t] = "no"]
  /\ Move(r, t, FinalizeOrder.remove)
  /\ UNCHANGED <<rows, receipts, dropped, tagged, world, state, holder, runPc, detail,
                 adding, pendingItem, sending, counters, history>>

Stage(r, S) == {t \in Txs : item[r][t] \in S}

\* Mutant of Reported: only a full batch is reported.
ReportedIfFull(r) ==
  IF Cardinality(Stage(r, {"done"})) = BatchSize THEN Stage(r, {"done"}) ELSE {}

Reported(r) == Stage(r, {"done"})

\* The zip delivers: the rows go to the listener and doSync() looks for more.
FinishBatch(r) ==
  /\ runPc[r] = "items"
  /\ Stage(r, Stages \ {"done", "absent"}) = {}
  /\ tagged' = tagged \cup Reported(r)
  /\ item' = [item EXCEPT ![r] = NoItems]
  /\ detail' = [detail EXCEPT ![r] = NoDetail]
  /\ runPc' = [runPc EXCEPT ![r] = "read"]
  /\ UNCHANGED <<pool, rows, receipts, dropped, world, state, holder, adding,
                 pendingItem, sending, counters, history>>

\* Mutant of StateOnFailure: the error handler leaves the state alone.
StateOnFailureKept == state

StateOnFailure == "NotSynced"

\* One request fails: the zip disposes of the others, save what is already finalizing.
FailBatch(r) ==
  /\ runPc[r] = "items"
  /\ Stage(r, {"tx", "receipt", "block"}) # {}
  /\ failures < MaxFailures /\ MoreFaults
  /\ failures' = failures + 1
  /\ state' = StateOnFailure
  /\ runPc' = [runPc EXCEPT ![r] = "draining"]
  /\ silenced' = silenced \cup Stage(r, {"done", "remove"})
  /\ item' = [item EXCEPT ![r] =
       [t \in Txs |-> IF item[r][t] \in Finalizing THEN item[r][t] ELSE "out"]]
  /\ UNCHANGED <<stored, world, holder, detail, adding, pendingItem, sending,
                 crashes, accepted>>

Drained(r) ==
  /\ runPc[r] = "draining"
  /\ Stage(r, Finalizing) = {}
  /\ runPc' = [runPc EXCEPT ![r] = "idle"]
  /\ item' = [item EXCEPT ![r] = NoItems]
  /\ detail' = [detail EXCEPT ![r] = NoDetail]
  /\ UNCHANGED <<stored, world, state, holder, adding, pendingItem, sending,
                 counters, history>>

-----------------------------------------------------------------------------
(* PendingTransactionSyncer. *)

PendingIdle(p) == pendingItem[p] = NoItems

\* onLastBlockNumber: the state is never Syncing, so that runs may overlap.
ReadPending(p) ==
  /\ PendingIdle(p)
  /\ Pending # {}
  /\ pendingItem' = [pendingItem EXCEPT ![p] =
       [t \in Txs |-> IF t \in Pending THEN "fetch" ELSE "out"]]
  /\ UNCHANGED <<stored, world, syncer, sending, counters, history>>

MovePending(p, t, s) == pendingItem' = [pendingItem EXCEPT ![p][t] = s]

FetchPendingReceipt(p, t) ==
  /\ pendingItem[p][t] = "fetch"
  /\ MovePending(p, t, IF node[t] = "mined" THEN "block" ELSE "done")
  /\ UNCHANGED <<stored, world, syncer, sending, counters, history>>

FetchPendingBlock(p, t) ==
  /\ pendingItem[p][t] = "block"
  /\ \/ MovePending(p, t, "handle")
     \/ NodeLags /\ MovePending(p, t, "done")
  /\ UNCHANGED <<stored, world, syncer, sending, counters, history>>

\* handle(): row, receipt and listener; then the replaced ones.
HandleReceipt(p, t) ==
  /\ pendingItem[p][t] = "handle"
  /\ rows' = rows \cup {t}
  /\ receipts' = receipts \cup {t}
  /\ tagged' = tagged \cup {t}
  /\ MovePending(p, t, "drop")
  /\ UNCHANGED <<pool, dropped, world, syncer, sending, counters, history>>

HandleReplaced(p, t) ==
  /\ pendingItem[p][t] = "drop"
  /\ DropReplacedBy(t)
  /\ MovePending(p, t, "done")
  /\ UNCHANGED <<pool, rows, receipts, world, syncer, sending, counters, history>>

\* The page is done; the next one holds the rows after its last, by nonce and time.
NextPage(p) ==
  /\ ~PendingIdle(p)
  /\ \A t \in Txs : pendingItem[p][t] \in {"out", "done"}
  /\ LET page == {t \in Txs : pendingItem[p][t] = "done"}
         beyond == {t \in Pending : \A u \in page : NonceOf[t] > NonceOf[u]}
         tied == {t \in Pending \ page : \A u \in page : NonceOf[t] >= NonceOf[u]}
     IN  \E later \in SUBSET tied :
           pendingItem' = [pendingItem EXCEPT ![p] =
             [t \in Txs |-> IF t \in beyond \cup later THEN "fetch" ELSE "out"]]
  /\ UNCHANGED <<stored, world, syncer, sending, counters, history>>

FailPending(p) ==
  /\ \E t \in Txs : pendingItem[p][t] \in {"fetch", "block"}
  /\ \A t \in Txs : pendingItem[p][t] \notin {"handle", "drop"}
  /\ failures < MaxFailures /\ MoreFaults
  /\ failures' = failures + 1
  /\ pendingItem' = [pendingItem EXCEPT ![p] = NoItems]
  /\ UNCHANGED <<stored, world, syncer, sending, crashes, history>>

-----------------------------------------------------------------------------
\* The process dies; the tables survive it.
Crash ==
  /\ crashes < MaxCrashes /\ MoreFaults
  /\ crashes' = crashes + 1
  /\ state' = "NotSynced"
  /\ holder' = NoRun
  /\ runPc' = [r \in Runs |-> "idle"]
  /\ item' = [r \in Runs |-> NoItems]
  /\ detail' = [r \in Runs |-> NoDetail]
  /\ adding' = [r \in Runs |-> NothingAdded]
  /\ pendingItem' = [p \in PendingRuns |-> NoItems]
  /\ sending' = {}
  /\ silenced' = silenced \cup UNION {Stage(r, {"remove", "done"}) : r \in Runs}
  /\ UNCHANGED <<stored, world, failures, accepted>>

-----------------------------------------------------------------------------
ItemStep(r, t) ==
  \/ FetchTransaction(r, t)
  \/ FetchReceipt(r, t)
  \/ FetchBlock(r, t)
  \/ FinalizeDrop(r, t)
  \/ FinalizeSave(r, t)
  \/ FinalizeRemove(r, t)

RunStep(r) ==
  \/ Insert(r)
  \/ Check(r)
  \/ ReadPool(r)
  \/ SetSynced(r)
  \/ SetSyncing(r)
  \/ \E t \in Txs : ItemStep(r, t)
  \/ FinishBatch(r)
  \/ Drained(r)

PendingStep(p) ==
  \/ \E t \in Txs : \/ FetchPendingReceipt(p, t)
                    \/ FetchPendingBlock(p, t)
                    \/ HandleReceipt(p, t)
                    \/ HandleReplaced(p, t)
  \/ NextPage(p)

Next ==
  \/ \E t \in Txs : AppearOnNetwork(t) \/ Mine(t) \/ NodeCatchesUp(t)
                    \/ Send(t) \/ SaveSent(t)
  \/ \E r \in Runs, t \in Txs, d \in {"hash", "mined"} : Discover(r, t, d)
  \/ \E r \in Runs : KitSynced(r) \/ RunStep(r) \/ FailBatch(r)
  \/ \E p \in PendingRuns : ReadPending(p) \/ PendingStep(p) \/ FailPending(p)
  \/ Crash

Spec == Init /\ [][Next]_vars

(***************************************************************************)
(* Every thread runs on and the node answers; a thread that waits for the  *)
(* pool's monitor gets it in the end, however often others take it.        *)
(***************************************************************************)
Fairness ==
  /\ \A r \in Runs : SF_vars(RunStep(r))
  /\ \A p \in PendingRuns : WF_vars(PendingStep(p))
  /\ WF_vars(\E t \in Txs : SaveSent(t))

FairSpec == Spec /\ Fairness

(***************************************************************************)
(* Moreover the kit becomes Synced again and again (the application        *)
(* refreshes it), new blocks make the pending syncer ask again, the node   *)
(* catches up, and the explorer's syncers, which have threads of their     *)
(* own, list each transaction in the end, however busy Runs is.            *)
(***************************************************************************)
Recurring ==
  /\ WF_vars(\E r \in Runs : KitSynced(r))
  /\ \A t \in Txs : SF_vars(\E r \in Runs, d \in {"hash", "mined"} : Discover(r, t, d))
  /\ WF_vars(\E t \in Txs : NodeCatchesUp(t))
  /\ \A p \in PendingRuns : WF_vars(ReadPending(p))

RecurringSpec == FairSpec /\ Recurring

(***************************************************************************)
(* Nor do the answers of a node that lags miss a block for ever.           *)
(***************************************************************************)
Found(r, t) == FetchBlock(r, t) /\ item'[r][t] = "drop"

LaggingSpec == RecurringSpec /\ \A r \in Runs, t \in Txs : SF_vars(Found(r, t))

-----------------------------------------------------------------------------
(***************************************************************************)
(* A hash the pool took is in the pool or in the table, whenever the       *)
(* process dies and however runs overlap (finalizeSync writes the row      *)
(* before it removes the record).                                          *)
(***************************************************************************)
NothingLost == \A t \in accepted : pool[t] # "no" \/ t \in rows

(***************************************************************************)
(* A mined transaction is never reported as dropped, provided the node     *)
(* does not lag and no incoming transaction shares a nonce with one of     *)
(* this account: getPendingTransactionList looks at the nonce alone.       *)
(***************************************************************************)
MinedNeverDropped == \A t \in Txs : chain[t] = "mined" => dropped[t] = NoTx

(***************************************************************************)
(* What replaces a dropped transaction is another transaction of its       *)
(* nonce, mined, and in the table or still in the pool (same conditions).  *)
(***************************************************************************)
DropsAreJustified ==
  \A t \in Txs : dropped[t] # NoTx =>
    LET u == dropped[t]
    IN  /\ u # t
        /\ NonceOf[u] = NonceOf[t]
        /\ chain[u] = "mined"
        /\ u \in rows \/ pool[u] # "no"

(***************************************************************************)
(* A row the listener never heard of has no tags, and the tagged queries   *)
(* do not find it.  It is in a batch under way, or in one that failed or   *)
(* died after its row was written: there is no other way to lose it.       *)
(***************************************************************************)
OnlySilencedUntagged ==
  \A t \in rows \ tagged :
    t \in silenced \/ \E r \in Runs : item[r][t] \in {"remove", "done"}

(***************************************************************************)
(* The inductive invariant behind NothingLost and OnlySilencedUntagged.    *)
(***************************************************************************)
Saved == \A r \in Runs, t \in Txs : item[r][t] \in {"remove", "done"} => t \in rows

IdleHoldsNothing ==
  \A r \in Runs : runPc[r] \notin {"setSyncing", "items", "draining"} => item[r] = NoItems

DrainingIsSilenced ==
  \A r \in Runs, t \in Txs :
    runPc[r] = "draining" /\ item[r][t] \in {"remove", "done"} => t \in silenced

SyncInv == /\ TypeOK /\ Saved /\ IdleHoldsNothing /\ DrainingIsSilenced
           /\ NothingLost /\ OnlySilencedUntagged

(***************************************************************************)
(* What MinedNeverDropped and DropsAreJustified need, while the node does  *)
(* not lag and no incoming transaction has the nonce of one of this        *)
(* account.                                                                *)
(***************************************************************************)
OneMined ==
  \A t, u \in Txs : chain[t] = "mined" /\ chain[u] = "mined" /\ NonceOf[t] = NonceOf[u]
                   => t = u

FoundIsMined ==
  \A t \in Txs :
    /\ pool[t] # "no" => pool[t] # "pending" /\ chain[t] = "mined"
    /\ \A r \in Runs : adding[r][t] # "no" => chain[t] = "mined"

ItemsAreMined ==
  \A r \in Runs, t \in Txs : item[r][t] # "out" =>
    /\ chain[t] = "mined"
    /\ pool[t] # "no" \/ t \in rows
    /\ item[r][t] = "receipt" => detail[r][t] = "mined"
    /\ item[r][t] \in {"block", "drop"} => t \in receipts

PendingItemsAreMined ==
  \A p \in PendingRuns, t \in Txs :
    /\ pendingItem[p][t] \in {"block", "handle", "drop"} => chain[t] = "mined"
    /\ pendingItem[p][t] = "drop" => t \in rows /\ t \in receipts

DropsInv == /\ TypeOK /\ node = chain
            /\ OneMined /\ FoundIsMined /\ ItemsAreMined /\ PendingItemsAreMined
            /\ MinedNeverDropped /\ DropsAreJustified

(***************************************************************************)
(* Hashes the pool took end up in the table and leave the pool.            *)
(***************************************************************************)
AcceptedSettles ==
  \A t \in Txs : t \in accepted ~> t \in rows /\ pool[t] = "no"

(***************************************************************************)
(* A pending row of this account whose nonce another transaction uses      *)
(* later does not stay pending (without process deaths: one between the    *)
(* receipt and the drop in PendingTransactionSyncer.handle leaves it so).  *)
(***************************************************************************)
ReplacedDoNotStayPending ==
  \A t \in Txs :
    [](t \in Pending /\ ~SlotTaken(t) /\ <>SlotTaken(t) => <>(t \notin Pending))

(***************************************************************************)
(* "subscribe to txHashPool and sync when new hashes received"             *)
(* (TransactionSyncer.kt:179): a hash in the pool is synced.  Refuted: a   *)
(* signal that comes between the run's last look at the pool and its       *)
(* return to Synced is ignored.                                            *)
(***************************************************************************)
NewHashesAreSynced == \A t \in Txs : pool[t] # "no" ~> pool[t] = "no"
=============================================================================
