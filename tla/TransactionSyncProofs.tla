------------------------ MODULE TransactionSyncProofs ------------------------
(***************************************************************************)
(* Proofs about TransactionSync, for every set of transactions, of threads *)
(* and every bound.                                                        *)
(***************************************************************************)
EXTENDS TransactionSync, TLAPS

USE DEF Stages, Finalizing, NoItems, NoDetail, NothingAdded

-----------------------------------------------------------------------------
(* Type correctness. *)

LEMMA InitTypeOK == ASSUME MaxCrashes \in Nat, MaxFailures \in Nat, Init PROVE TypeOK
  BY DEF Init, TypeOK

LEMMA NetworkStepTypeOK ==
  ASSUME TypeOK, NEW t \in Txs,
         AppearOnNetwork(t) \/ Mine(t) \/ NodeCatchesUp(t) \/ Send(t) \/ SaveSent(t)
  PROVE  TypeOK'
<1> USE DEF TypeOK, stored, world, syncer, counters, history
<1>1. CASE AppearOnNetwork(t)
  BY <1>1 DEF AppearOnNetwork
<1>2. CASE Mine(t)
  BY <1>2 DEF Mine
<1>3. CASE NodeCatchesUp(t)
  BY <1>3 DEF NodeCatchesUp
<1>4. CASE Send(t)
  BY <1>4 DEF Send
<1>5. CASE SaveSent(t)
  BY <1>5 DEF SaveSent
<1> QED BY <1>1, <1>2, <1>3, <1>4, <1>5

LEMMA DropType ==
  ASSUME TypeOK, NEW t \in Txs, DropReplacedBy(t)
  PROVE  /\ dropped' \in [Txs -> Txs \cup {NoTx}]
         /\ tagged' \subseteq Txs
  BY DEF TypeOK, DropReplacedBy, PendingWithNonce, Pending

LEMMA MoveType ==
  ASSUME TypeOK, NEW r \in Runs, NEW t \in Txs, NEW s \in Stages \cup {"out"}, Move(r, t, s)
  PROVE  item' \in [Runs -> [Txs -> Stages \cup {"out"}]]
  BY DEF TypeOK, Move

LEMMA MovePendingType ==
  ASSUME TypeOK, NEW p \in PendingRuns, NEW t \in Txs,
         NEW s \in {"out", "fetch", "block", "handle", "drop", "done"}, MovePending(p, t, s)
  PROVE  pendingItem' \in [PendingRuns -> [Txs -> {"out", "fetch", "block", "handle",
                                                   "drop", "done"}]]
  BY DEF TypeOK, MovePending

LEMMA ItemStepTypeOK ==
  ASSUME TypeOK, NEW r \in Runs, NEW t \in Txs, ItemStep(r, t)
  PROVE  TypeOK'
<1> USE DEF TypeOK, stored, world, syncer, counters, history
<1>1. CASE FetchTransaction(r, t)
  <2>1. item' \in [Runs -> [Txs -> Stages \cup {"out"}]]
    BY <1>1, MoveType DEF FetchTransaction
  <2>2. CASE node[t] = "none"
    BY <1>1, <2>1, <2>2 DEF FetchTransaction
  <2>3. CASE node[t] # "none"
    <3>1. node[t] \in {"pending", "mined"}
      BY <2>3
    <3>2. /\ pool' = [pool EXCEPT ![t] = node[t]]
          /\ detail' = [detail EXCEPT ![r][t] = node[t]]
      BY <1>1, <2>3 DEF FetchTransaction
    <3>3. pool' \in [Txs -> {"no", "hash", "pending", "mined"}]
      BY <3>1, <3>2
    <3>4. detail' \in [Runs -> [Txs -> {"hash", "pending", "mined"}]]
      BY <3>1, <3>2
    <3> QED BY <1>1, <2>1, <3>3, <3>4 DEF FetchTransaction
  <2> QED BY <2>2, <2>3
<1>2. CASE FetchReceipt(r, t)
  <2>1. item' \in [Runs -> [Txs -> Stages \cup {"out"}]]
    BY <1>2, MoveType DEF FetchReceipt
  <2>2. receipts' \subseteq Txs
    BY <1>2 DEF FetchReceipt
  <2> QED BY <1>2, <2>1, <2>2 DEF FetchReceipt
<1>3. CASE FetchBlock(r, t)
  <2>1. item' \in [Runs -> [Txs -> Stages \cup {"out"}]]
    BY <1>3, MoveType DEF FetchBlock
  <2> QED BY <1>3, <2>1 DEF FetchBlock
<1>4. CASE FinalizeDrop(r, t)
  BY <1>4, DropType, MoveType DEF FinalizeDrop, FinalizeOrder
<1>5. CASE FinalizeSave(r, t)
  BY <1>5, MoveType DEF FinalizeSave, FinalizeOrder
<1>6. CASE FinalizeRemove(r, t)
  BY <1>6, MoveType DEF FinalizeRemove, FinalizeOrder
<1> QED BY <1>1, <1>2, <1>3, <1>4, <1>5, <1>6 DEF ItemStep

LEMMA RunStepTypeOK ==
  ASSUME TypeOK, NEW r \in Runs,
         \/ KitSynced(r)
         \/ RunStep(r)
         \/ FailBatch(r)
         \/ \E t \in Txs, d \in {"hash", "mined"} : Discover(r, t, d)
  PROVE  TypeOK'
<1> USE DEF TypeOK, Release, Stage, stored, world, syncer, counters, history
<1>1. CASE KitSynced(r)
  BY <1>1 DEF KitSynced
<1>2. CASE Insert(r)
  BY <1>2 DEF Insert
<1>3. CASE Check(r)
  BY <1>3 DEF Check
<1>4. CASE ReadPool(r)
  <2>1. PICK B \in Batches :
          /\ runPc' = [runPc EXCEPT ![r] = IF B = {} THEN "setSynced" ELSE "setSyncing"]
          /\ item' = [item EXCEPT ![r] =
               [t \in Txs |-> IF t \notin B THEN "out"
                              ELSE IF pool[t] = "hash" THEN "tx" ELSE "receipt"]]
          /\ detail' = [detail EXCEPT ![r] =
               [t \in Txs |-> IF t \in B THEN pool[t] ELSE "hash"]]
    BY <1>4 DEF ReadPool
  <2>2. \A t \in B : pool[t] \in {"hash", "pending", "mined"}
    BY DEF Batches, Waiting
  <2>3. /\ runPc' \in [Runs -> {"idle", "insert", "check", "read", "setSynced",
                                "setSyncing", "items", "draining"}]
        /\ item' \in [Runs -> [Txs -> Stages \cup {"out"}]]
    BY <2>1
  <2>4. detail' \in [Runs -> [Txs -> {"hash", "pending", "mined"}]]
    BY <2>1, <2>2
  <2> QED BY <1>4, <2>3, <2>4 DEF ReadPool
<1>5. CASE SetSynced(r)
  BY <1>5 DEF SetSynced
<1>6. CASE SetSyncing(r)
  BY <1>6 DEF SetSyncing
<1>7. CASE FinishBatch(r)
  BY <1>7 DEF FinishBatch, Reported
<1>8. CASE Drained(r)
  BY <1>8 DEF Drained
<1>9. CASE FailBatch(r)
  <2>1. item' \in [Runs -> [Txs -> Stages \cup {"out"}]]
    <3> DEFINE kept == [t \in Txs |-> IF item[r][t] \in Finalizing THEN item[r][t] ELSE "out"]
    <3>1. kept \in [Txs -> Stages \cup {"out"}]
      OBVIOUS
    <3>2. item' = [item EXCEPT ![r] = kept]
      BY <1>9 DEF FailBatch
    <3> HIDE DEF kept
    <3> QED BY <3>1, <3>2
  <2>2. /\ runPc' \in [Runs -> {"idle", "insert", "check", "read", "setSynced",
                                "setSyncing", "items", "draining"}]
        /\ silenced' \subseteq Txs
        /\ state' \in {"NotSynced", "Syncing", "Synced"}
        /\ failures' \in 0..MaxFailures
    BY <1>9, BoundsAssumption DEF FailBatch, StateOnFailure
  <2> QED BY <1>9, <2>1, <2>2 DEF FailBatch
<1>10. ASSUME NEW t \in Txs, NEW d \in {"hash", "mined"}, Discover(r, t, d)
       PROVE  TypeOK'
  BY <1>10 DEF Discover
<1> HIDE DEF TypeOK
<1> QED
  BY <1>1, <1>2, <1>3, <1>4, <1>5, <1>6, <1>7, <1>8, <1>9, <1>10, ItemStepTypeOK
  DEF RunStep

LEMMA PendingStepTypeOK ==
  ASSUME TypeOK, NEW p \in PendingRuns, ReadPending(p) \/ PendingStep(p) \/ FailPending(p)
  PROVE  TypeOK'
<1> USE DEF TypeOK, stored, world, syncer, counters, history
<1>1. CASE ReadPending(p)
  BY <1>1 DEF ReadPending
<1>2. CASE NextPage(p)
  BY <1>2 DEF NextPage
<1>3. CASE FailPending(p)
  BY <1>3, BoundsAssumption DEF FailPending
<1>4. ASSUME NEW t \in Txs, FetchPendingReceipt(p, t) PROVE TypeOK'
  BY <1>4, MovePendingType DEF FetchPendingReceipt
<1>5. ASSUME NEW t \in Txs, FetchPendingBlock(p, t) PROVE TypeOK'
  <2>1. pendingItem' \in [PendingRuns -> [Txs -> {"out", "fetch", "block", "handle",
                                                   "drop", "done"}]]
    BY <1>5, MovePendingType DEF FetchPendingBlock
  <2> QED BY <1>5, <2>1 DEF FetchPendingBlock
<1>6. ASSUME NEW t \in Txs, HandleReceipt(p, t) PROVE TypeOK'
  BY <1>6, MovePendingType DEF HandleReceipt
<1>7. ASSUME NEW t \in Txs, HandleReplaced(p, t) PROVE TypeOK'
  BY <1>7, DropType, MovePendingType DEF HandleReplaced
<1> HIDE DEF TypeOK
<1> QED
  BY <1>1, <1>2, <1>3, <1>4, <1>5, <1>6, <1>7 DEF PendingStep

LEMMA CrashTypeOK == ASSUME TypeOK, Crash PROVE TypeOK'
<1>1. silenced' \subseteq Txs
  <2>1. \A r \in Runs : Stage(r, {"remove", "done"}) \subseteq Txs
    BY DEF Stage
  <2> QED BY <2>1 DEF TypeOK, Crash
<1>2. crashes' \in 0..MaxCrashes
  BY BoundsAssumption DEF TypeOK, Crash
<1> QED BY <1>1, <1>2 DEF TypeOK, Crash, stored, world

LEMMA NextTypeOK == TypeOK /\ [Next]_vars => TypeOK'
<1> SUFFICES ASSUME TypeOK, [Next]_vars PROVE TypeOK'
  OBVIOUS
<1>1. CASE UNCHANGED vars
  BY <1>1 DEF TypeOK, vars, stored, world, syncer, counters, history
<1>2. CASE Next
  BY <1>2, NetworkStepTypeOK, RunStepTypeOK, PendingStepTypeOK, CrashTypeOK DEF Next
<1> QED BY <1>1, <1>2

(***************************************************************************)
(* Every variable of TransactionSync has its type, always.                 *)
(***************************************************************************)
THEOREM TypeCorrect == Spec => []TypeOK
<1>1. Init => TypeOK
  BY InitTypeOK, BoundsAssumption
<1> QED BY <1>1, NextTypeOK, PTL DEF Spec
-----------------------------------------------------------------------------
(* NothingLost and OnlySilencedUntagged, by the inductive invariant SyncInv. *)

Parts == Saved /\ IdleHoldsNothing /\ DrainingIsSilenced /\ NothingLost
         /\ OnlySilencedUntagged

LEMMA InitParts == ASSUME Init PROVE Parts
  BY DEF Init, Parts, Saved, IdleHoldsNothing, DrainingIsSilenced, NothingLost,
         OnlySilencedUntagged

\* A step that leaves the batches alone and takes nothing from the tables: what it
\* adds to the rows it reports, what it accepts it puts in the pool.
LEMMA OutsideBatches ==
  ASSUME SyncInv,
         UNCHANGED <<item, silenced>>,
         runPc' = runPc \/ \E r \in Runs, s \in {"idle", "insert", "check", "read"} :
           runPc[r] \in {"idle", "insert", "check", "read", "setSynced"}
           /\ runPc' = [runPc EXCEPT ![r] = s],
         rows \subseteq rows', tagged \subseteq tagged', rows' \ rows \subseteq tagged',
         \A t \in Txs : pool[t] # "no" => pool'[t] # "no",
         \A t \in accepted' \ accepted : pool'[t] # "no"
  PROVE  Parts'
<1> USE DEF SyncInv, TypeOK
<1>1. Saved'
  BY DEF Saved
<1>2. IdleHoldsNothing'
  BY DEF IdleHoldsNothing
<1>3. DrainingIsSilenced'
  BY DEF DrainingIsSilenced
<1>4. NothingLost'
  BY DEF NothingLost
<1>5. OnlySilencedUntagged'
  BY DEF OnlySilencedUntagged
<1> QED BY <1>1, <1>2, <1>3, <1>4, <1>5 DEF Parts

LEMMA NetworkStepParts ==
  ASSUME SyncInv, NEW t \in Txs,
         AppearOnNetwork(t) \/ Mine(t) \/ NodeCatchesUp(t) \/ Send(t) \/ SaveSent(t)
  PROVE  Parts'
<1>1. UNCHANGED <<item, silenced, runPc, pool, accepted>>
  BY DEF AppearOnNetwork, Mine, NodeCatchesUp, Send, SaveSent, stored, syncer, history
<1>2. \/ UNCHANGED <<rows, tagged>>
      \/ rows' = rows \cup {t} /\ tagged' = tagged \cup {t}
  BY DEF AppearOnNetwork, Mine, NodeCatchesUp, Send, SaveSent, stored
<1> QED BY <1>1, <1>2, OutsideBatches

LEMMA PendingStepParts ==
  ASSUME SyncInv, NEW p \in PendingRuns, ReadPending(p) \/ PendingStep(p) \/ FailPending(p)
  PROVE  Parts'
<1>1. UNCHANGED <<item, silenced, runPc, pool, accepted>>
  BY DEF ReadPending, PendingStep, FailPending, FetchPendingReceipt, FetchPendingBlock,
         HandleReceipt, HandleReplaced, NextPage, stored, syncer, history
<1>2. /\ rows \subseteq rows' /\ tagged \subseteq tagged'
      /\ rows' \ rows \subseteq tagged'
  <2>1. CASE \E t \in Txs : HandleReceipt(p, t)
    BY <2>1 DEF HandleReceipt
  <2>2. CASE \E t \in Txs : HandleReplaced(p, t)
    BY <2>2 DEF HandleReplaced, DropReplacedBy
  <2>3. CASE UNCHANGED <<rows, tagged>>
    BY <2>3
  <2> QED
    BY <2>1, <2>2, <2>3 DEF ReadPending, PendingStep, FailPending, FetchPendingReceipt,
       FetchPendingBlock, NextPage, stored
<1> QED BY <1>1, <1>2, OutsideBatches

\* A step of one transaction of a batch: what holds of the others still does.
LEMMA ItemStepParts ==
  ASSUME SyncInv, NEW r \in Runs, NEW t \in Txs, ItemStep(r, t)
  PROVE  Parts'
<1> USE DEF SyncInv, TypeOK
<1>1. /\ runPc' = runPc /\ accepted' = accepted /\ tagged \subseteq tagged'
      /\ rows \subseteq rows' /\ silenced \subseteq silenced'
      /\ \E s \in Stages : item' = [item EXCEPT ![r][t] = s]
  BY DEF ItemStep, FetchTransaction, FetchReceipt, FetchBlock, FinalizeDrop, FinalizeSave,
         FinalizeRemove, FinalizeOrder, DropReplacedBy, Move, stored, counters, history
<1>2. item[r][t] \notin {"out", "done", "absent"}
  BY DEF ItemStep, FetchTransaction, FetchReceipt, FetchBlock, FinalizeDrop, FinalizeSave,
         FinalizeRemove
<1>3. item'[r][t] \in {"remove", "done"} =>
        /\ t \in rows'
        /\ runPc[r] = "draining" => t \in silenced'
  <2>1. CASE FinalizeSave(r, t)
    BY <2>1 DEF FinalizeSave
  <2>2. CASE FinalizeRemove(r, t)
    BY <2>2 DEF FinalizeRemove, Saved, DrainingIsSilenced, history
  <2>3. CASE FetchTransaction(r, t) \/ FetchReceipt(r, t) \/ FetchBlock(r, t)
             \/ FinalizeDrop(r, t)
    BY <2>3 DEF FetchTransaction, FetchReceipt, FetchBlock, FinalizeDrop, FinalizeOrder,
                Move
  <2> QED BY <2>1, <2>2, <2>3 DEF ItemStep
<1>4. \A q \in Runs, u \in Txs : <<q, u>> # <<r, t>> => item'[q][u] = item[q][u]
  BY <1>1
<1>5. Saved'
  BY <1>1, <1>3, <1>4 DEF Saved
<1>6. IdleHoldsNothing'
  BY <1>1, <1>2 DEF IdleHoldsNothing
<1>7. DrainingIsSilenced'
  BY <1>1, <1>3, <1>4 DEF DrainingIsSilenced
<1>8. NothingLost'
  <2>1. CASE FinalizeRemove(r, t)
    BY <2>1 DEF FinalizeRemove, NothingLost, Saved, history
  <2>2. CASE FetchTransaction(r, t)
    BY <1>1, <2>2 DEF FetchTransaction, NothingLost
  <2>3. CASE pool' = pool
    BY <1>1, <2>3 DEF NothingLost
  <2> QED
    BY <2>1, <2>2, <2>3 DEF ItemStep, FetchReceipt, FetchBlock, FinalizeDrop, FinalizeSave,
       stored
<1>9. OnlySilencedUntagged'
  <2> SUFFICES ASSUME NEW u \in rows' \ tagged', u \notin silenced'
               PROVE  \E q \in Runs : item'[q][u] \in {"remove", "done"}
    BY DEF OnlySilencedUntagged
  <2>1. CASE FinalizeSave(r, t) /\ u = t
    BY <2>1 DEF FinalizeSave, FinalizeOrder, Move
  <2>2. CASE u \in rows
    <3>1. PICK q \in Runs : item[q][u] \in {"remove", "done"}
      BY <1>1, <2>2 DEF OnlySilencedUntagged
    <3>2. CASE q = r /\ u = t
      BY <1>2, <3>1, <3>2 DEF ItemStep, FetchTransaction, FetchReceipt, FetchBlock,
         FinalizeDrop, FinalizeSave, FinalizeRemove, FinalizeOrder, Move
    <3>3. CASE <<q, u>> # <<r, t>>
      BY <1>4, <2>2, <3>1, <3>3
    <3> QED BY <3>2, <3>3
  <2> QED
    BY <2>1, <2>2 DEF ItemStep, FetchTransaction, FetchReceipt, FetchBlock, FinalizeDrop,
       FinalizeSave, FinalizeRemove, stored
<1> QED BY <1>5, <1>6, <1>7, <1>8, <1>9 DEF Parts

\* A batch begins, ends or fails.
LEMMA BatchStepParts ==
  ASSUME SyncInv, NEW r \in Runs,
         ReadPool(r) \/ SetSyncing(r) \/ FinishBatch(r) \/ FailBatch(r) \/ Drained(r)
  PROVE  Parts'
<1> USE DEF SyncInv, TypeOK, stored, history, counters
<1>1. /\ rows' = rows /\ pool' = pool /\ accepted' = accepted
      /\ tagged \subseteq tagged' /\ silenced \subseteq silenced'
  BY DEF ReadPool, SetSyncing, FinishBatch, FailBatch, Drained
<1>2. /\ \A q \in Runs \ {r} : item'[q] = item[q] /\ runPc'[q] = runPc[q]
      /\ \A u \in Txs : item'[r][u] \in {"remove", "done"} => item'[r][u] = item[r][u]
  <2>1. CASE ReadPool(r)
    BY <2>1 DEF ReadPool
  <2>2. CASE SetSyncing(r)
    BY <2>2 DEF SetSyncing
  <2>3. CASE FinishBatch(r)
    BY <2>3 DEF FinishBatch
  <2>4. CASE FailBatch(r)
    BY <2>4 DEF FailBatch
  <2>5. CASE Drained(r)
    BY <2>5 DEF Drained
  <2> QED BY <2>1, <2>2, <2>3, <2>4, <2>5
<1>3. NothingLost' /\ Saved'
  BY <1>1, <1>2 DEF NothingLost, Saved
<1>4. IdleHoldsNothing'
  <2>1. item'[r] = NoItems \/ runPc'[r] \in {"setSyncing", "items", "draining"}
    BY DEF ReadPool, SetSyncing, FinishBatch, FailBatch, Drained
  <2> QED BY <1>2, <2>1 DEF IdleHoldsNothing
<1>5. DrainingIsSilenced'
  <2>1. \A u \in Txs : runPc'[r] = "draining" /\ item'[r][u] \in {"remove", "done"}
                        => u \in silenced'
    BY DEF ReadPool, SetSyncing, FinishBatch, FailBatch, Drained, Stage
  <2> QED BY <1>1, <1>2, <2>1 DEF DrainingIsSilenced
<1>6. OnlySilencedUntagged'
  <2>1. ASSUME NEW u \in Txs, item[r][u] \in {"remove", "done"}
        PROVE  u \in tagged' \/ u \in silenced' \/ item'[r][u] \in {"remove", "done"}
    <3>1. CASE ReadPool(r)
      <4>1. item[r] = NoItems
        BY <3>1 DEF ReadPool, IdleHoldsNothing
      <4> QED BY <2>1, <4>1 DEF NoItems
    <3>2. CASE SetSyncing(r)
      BY <2>1, <3>2 DEF SetSyncing
    <3>3. CASE FinishBatch(r)
      BY <2>1, <3>3 DEF FinishBatch, Reported, Stage
    <3>4. CASE FailBatch(r)
      BY <2>1, <3>4 DEF FailBatch, Stage
    <3>5. CASE Drained(r)
      BY <2>1, <3>5 DEF Drained, DrainingIsSilenced
    <3> QED BY <3>1, <3>2, <3>3, <3>4, <3>5
  <2> QED BY <1>1, <1>2, <2>1 DEF OnlySilencedUntagged
<1> QED BY <1>3, <1>4, <1>5, <1>6 DEF Parts

LEMMA RunStepParts ==
  ASSUME SyncInv, NEW r \in Runs,
         \/ KitSynced(r)
         \/ RunStep(r)
         \/ FailBatch(r)
         \/ \E t \in Txs, d \in {"hash", "mined"} : Discover(r, t, d)
  PROVE  Parts'
<1>1. CASE \/ KitSynced(r) \/ Insert(r) \/ Check(r) \/ SetSynced(r)
           \/ \E t \in Txs, d \in {"hash", "mined"} : Discover(r, t, d)
  <2>1. UNCHANGED <<item, silenced, rows, tagged>>
    BY <1>1 DEF KitSynced, Insert, Check, SetSynced, Discover, stored, history
  <2>2. \E s \in {"idle", "insert", "check", "read"} :
          runPc[r] \in {"idle", "insert", "check", "read", "setSynced"}
          /\ runPc' = [runPc EXCEPT ![r] = s]
    BY <1>1 DEF KitSynced, Insert, Check, SetSynced, Discover
  <2>3. /\ \A t \in Txs : pool[t] # "no" => pool'[t] # "no"
        /\ \A t \in accepted' \ accepted : pool'[t] # "no"
    <3>1. CASE Insert(r)
      BY <3>1 DEF Insert, SyncInv, TypeOK
    <3>2. CASE pool' = pool /\ accepted' = accepted
      BY <3>2
    <3> QED
      BY <1>1, <3>1, <3>2 DEF KitSynced, Check, SetSynced, Discover, stored, history
  <2> QED BY <2>1, <2>2, <2>3, OutsideBatches
<1>2. CASE ReadPool(r) \/ SetSyncing(r) \/ FinishBatch(r) \/ FailBatch(r) \/ Drained(r)
  BY <1>2, BatchStepParts
<1>3. CASE \E t \in Txs : ItemStep(r, t)
  BY <1>3, ItemStepParts
<1> QED BY <1>1, <1>2, <1>3 DEF RunStep

LEMMA CrashParts == ASSUME SyncInv, Crash PROVE Parts'
<1> USE DEF SyncInv, TypeOK, Crash, stored
<1>1. Saved' /\ IdleHoldsNothing' /\ DrainingIsSilenced'
  BY DEF Saved, IdleHoldsNothing, DrainingIsSilenced
<1>2. NothingLost'
  BY DEF NothingLost
<1>3. OnlySilencedUntagged'
  <2>1. \A q \in Runs, u \in Txs : item[q][u] \in {"remove", "done"} => u \in silenced'
    BY DEF Stage
  <2> QED BY <2>1 DEF OnlySilencedUntagged
<1> QED BY <1>1, <1>2, <1>3 DEF Parts

LEMMA NextParts == SyncInv /\ [Next]_vars => Parts'
<1> SUFFICES ASSUME SyncInv, [Next]_vars PROVE Parts'
  OBVIOUS
<1>1. CASE UNCHANGED vars
  BY <1>1, OutsideBatches DEF vars, stored, syncer, history
<1>2. CASE Next
  BY <1>2, NetworkStepParts, RunStepParts, PendingStepParts, CrashParts DEF Next
<1> QED BY <1>1, <1>2

LEMMA InvariantHolds == Spec => []SyncInv
<1>1. Init => SyncInv
  BY InitTypeOK, InitParts, BoundsAssumption DEF SyncInv, Parts
<1>2. SyncInv /\ [Next]_vars => SyncInv'
  BY NextTypeOK, NextParts DEF SyncInv, Parts
<1> QED BY <1>1, <1>2, PTL DEF Spec

(***************************************************************************)
(* A hash the pool took is never lost: finalizeSync writes the row before  *)
(* it removes the record, and nothing ever deletes a row.                  *)
(***************************************************************************)
THEOREM NoHashIsLost == Spec => []NothingLost
<1>1. SyncInv => NothingLost
  BY DEF SyncInv
<1> QED BY <1>1, InvariantHolds, PTL

(***************************************************************************)
(* A transaction stays without tags only if its batch failed or died after *)
(* its row was written.                                                    *)
(***************************************************************************)
THEOREM UntaggedAreSilenced == Spec => []OnlySilencedUntagged
<1>1. SyncInv => OnlySilencedUntagged
  BY DEF SyncInv
<1> QED BY <1>1, InvariantHolds, PTL
-----------------------------------------------------------------------------
(* MinedNeverDropped and DropsAreJustified, by the inductive invariant     *)
(* DropsInv, when the node does not lag and NoncesApart.                   *)

NoncesApart == \A t \in Incoming, u \in Txs \ Incoming : NonceOf[t] # NonceOf[u]

DropParts == node = chain /\ OneMined /\ FoundIsMined /\ ItemsAreMined
             /\ PendingItemsAreMined /\ MinedNeverDropped /\ DropsAreJustified

LEMMA InitDropParts == ASSUME Init PROVE DropParts
  BY DEF Init, DropParts, OneMined, FoundIsMined, ItemsAreMined, PendingItemsAreMined,
         MinedNeverDropped, DropsAreJustified

\* What a mined transaction in the tables replaces is not mined, nor itself.
LEMMA DropIsSound ==
  ASSUME DropsInv, NEW t \in Txs, chain[t] = "mined", t \in receipts,
         pool[t] # "no" \/ t \in rows,
         DropReplacedBy(t), UNCHANGED <<chain, pool, rows>>
  PROVE  MinedNeverDropped' /\ DropsAreJustified'
<1> USE DEF DropsInv, TypeOK
<1>1. \A u \in PendingWithNonce(NonceOf[t]) :
        u \in Txs /\ u # t /\ NonceOf[u] = NonceOf[t] /\ chain[u] # "mined"
  BY DEF PendingWithNonce, Pending, OneMined
<1>2. \A u \in Txs :
        dropped'[u] = IF u \in PendingWithNonce(NonceOf[t]) THEN t ELSE dropped[u]
  BY DEF DropReplacedBy
<1>3. MinedNeverDropped'
  BY <1>1, <1>2 DEF MinedNeverDropped
<1>4. DropsAreJustified'
  BY <1>1, <1>2 DEF DropsAreJustified
<1> QED BY <1>3, <1>4

\* A step that drops nothing, and takes from the tables at most pool records whose
\* rows are there.
LEMMA NothingDropped ==
  ASSUME DropsInv, UNCHANGED <<chain, dropped>>, rows \subseteq rows',
         \A t \in Txs : pool[t] # "no" => pool'[t] # "no" \/ t \in rows'
  PROVE  MinedNeverDropped' /\ DropsAreJustified'
<1>1. MinedNeverDropped'
  BY DEF DropsInv, MinedNeverDropped
<1>2. DropsAreJustified'
  BY DEF DropsInv, TypeOK, DropsAreJustified
<1> QED BY <1>1, <1>2

\* No other transaction is mined for the nonce of one that may be.
LEMMA FreeSlot ==
  ASSUME NoncesApart, NEW t \in Txs, ~SlotTaken(t), chain[t] # "mined"
  PROVE  \A u \in Txs : chain[u] = "mined" => NonceOf[u] # NonceOf[t]
<1>1. ASSUME NEW u \in Txs, chain[u] = "mined", NonceOf[u] = NonceOf[t] PROVE FALSE
  <2>1. u # t /\ ~SameSlot(t, u)
    BY <1>1 DEF SlotTaken
  <2>2. (t \in Incoming) # (u \in Incoming)
    BY <1>1, <2>1 DEF SameSlot
  <2> QED BY <1>1, <2>2 DEF NoncesApart
<1> QED BY <1>1

LEMMA NetworkStepDropParts ==
  ASSUME DropsInv, NoncesApart, NodeLags = FALSE, NEW t \in Txs,
         AppearOnNetwork(t) \/ Mine(t) \/ NodeCatchesUp(t) \/ Send(t) \/ SaveSent(t)
  PROVE  DropParts'
<1> USE DEF DropsInv, TypeOK, stored, syncer
<1>1. node' = chain'
  BY DEF AppearOnNetwork, Mine, NodeCatchesUp, Send, SaveSent, world
<1>2. UNCHANGED <<pool, receipts, dropped, item, detail, adding, pendingItem>>
  BY DEF AppearOnNetwork, Mine, NodeCatchesUp, Send, SaveSent
<1>3. rows \subseteq rows'
  BY DEF AppearOnNetwork, Mine, NodeCatchesUp, Send, SaveSent
<1>4. \A u \in Txs : chain[u] = "mined" => chain'[u] = "mined"
  BY DEF AppearOnNetwork, Mine, NodeCatchesUp, Send, SaveSent, world
<1>5. \A u \in Txs : chain'[u] = "mined" =>
        chain[u] = "mined" \/ (u = t /\ chain[t] = "pending" /\ ~SlotTaken(t))
  BY DEF AppearOnNetwork, Mine, NodeCatchesUp, Send, SaveSent, world
<1>6. OneMined'
  <2>1. ASSUME NEW a \in Txs, NEW b \in Txs, chain'[a] = "mined", chain'[b] = "mined",
               NonceOf[a] = NonceOf[b]
        PROVE  a = b
    <3>1. CASE chain[a] = "mined" /\ chain[b] = "mined"
      BY <2>1, <3>1 DEF OneMined
    <3>2. CASE a = t /\ chain[b] = "mined" /\ ~SlotTaken(t) /\ chain[t] # "mined"
      BY <2>1, <3>2, FreeSlot
    <3>3. CASE b = t /\ chain[a] = "mined" /\ ~SlotTaken(t) /\ chain[t] # "mined"
      BY <2>1, <3>3, FreeSlot
    <3> QED BY <1>5, <2>1, <3>1, <3>2, <3>3
  <2> QED BY <2>1 DEF OneMined
<1>7. FoundIsMined' /\ ItemsAreMined' /\ PendingItemsAreMined'
  <2>1. FoundIsMined'
    BY <1>2, <1>4 DEF FoundIsMined
  <2>2. ItemsAreMined'
    BY <1>2, <1>3, <1>4 DEF ItemsAreMined
  <2>3. PendingItemsAreMined'
    BY <1>2, <1>3, <1>4 DEF PendingItemsAreMined
  <2> QED BY <2>1, <2>2, <2>3
<1>8. DropsAreJustified'
  BY <1>2, <1>3, <1>4 DEF DropsAreJustified
<1>9. MinedNeverDropped'
  <2>1. ASSUME NEW u \in Txs, chain'[u] = "mined" PROVE dropped[u] = NoTx
    <3>1. CASE chain[u] = "mined"
      BY <3>1 DEF DropParts, MinedNeverDropped
    <3>2. CASE u = t /\ chain[t] # "mined" /\ ~SlotTaken(t) /\ dropped[u] # NoTx
      <4> DEFINE v == dropped[u]
      <4>1. v \in Txs
        BY <3>2
      <4>2. v # t /\ NonceOf[v] = NonceOf[t] /\ chain[v] = "mined"
        BY <3>2 DEF DropParts, DropsAreJustified
      <4> HIDE DEF v
      <4> QED BY <3>2, <4>1, <4>2, FreeSlot
    <3> QED BY <1>5, <2>1, <3>1, <3>2
  <2> QED BY <1>2, <2>1 DEF MinedNeverDropped
<1> QED BY <1>1, <1>6, <1>7, <1>8, <1>9 DEF DropParts

LEMMA ItemStepDropParts ==
  ASSUME DropsInv, NoncesApart, NodeLags = FALSE, NEW r \in Runs, NEW t \in Txs,
         ItemStep(r, t), Saved
  PROVE  DropParts'
<1> USE DEF DropsInv, TypeOK
<1>1. /\ chain' = chain /\ node' = node /\ adding' = adding
      /\ pendingItem' = pendingItem /\ rows \subseteq rows' /\ receipts \subseteq receipts'
  BY DEF ItemStep, FetchTransaction, FetchReceipt, FetchBlock, FinalizeDrop, FinalizeSave,
         FinalizeRemove, stored, world
<1>2. /\ item[r][t] # "out" /\ chain[t] = "mined"
      /\ pool[t] # "no" \/ t \in rows
  BY DEF ItemStep, FetchTransaction, FetchReceipt, FetchBlock, FinalizeDrop, FinalizeSave,
         FinalizeRemove, ItemsAreMined
<1>3. \A u \in Txs :
        /\ u # t => pool'[u] = pool[u]
        /\ pool'[t] \in {pool[t], "mined", "no"}
        /\ pool'[t] = "no" => pool[t] = "no" \/ t \in rows'
  <2>1. CASE FetchTransaction(r, t)
    BY <1>2, <2>1 DEF FetchTransaction
  <2>2. CASE FinalizeRemove(r, t)
    BY <2>2 DEF FinalizeRemove, Saved
  <2>3. CASE pool' = pool
    BY <2>3
  <2> QED
    BY <2>1, <2>2, <2>3 DEF ItemStep, FetchReceipt, FetchBlock, FinalizeDrop, FinalizeSave,
       stored
<1>4. \A q \in Runs, u \in Txs : <<q, u>> # <<r, t>> =>
        item'[q][u] = item[q][u] /\ detail'[q][u] = detail[q][u]
  <2>1. \A q \in Runs, u \in Txs : <<q, u>> # <<r, t>> => item'[q][u] = item[q][u]
    BY DEF ItemStep, FetchTransaction, FetchReceipt, FetchBlock, FinalizeDrop, FinalizeSave,
           FinalizeRemove, Move
  <2>2. \A q \in Runs, u \in Txs : <<q, u>> # <<r, t>> => detail'[q][u] = detail[q][u]
    BY DEF ItemStep, FetchTransaction, FetchReceipt, FetchBlock, FinalizeDrop, FinalizeSave,
           FinalizeRemove
  <2> QED BY <2>1, <2>2
<1>5. /\ item'[r][t] = "receipt" => detail'[r][t] = "mined"
      /\ item'[r][t] \in {"block", "drop"} => t \in receipts'
  <2>1. CASE FetchTransaction(r, t)
    BY <1>2, <2>1 DEF FetchTransaction, Move
  <2>2. CASE FetchReceipt(r, t)
    <3>1. detail[r][t] = "mined"
      BY <2>2 DEF FetchReceipt, ItemsAreMined
    <3> QED BY <2>2, <3>1 DEF FetchReceipt, ReceiptNeeded, Move
  <2>3. CASE FetchBlock(r, t)
    BY <1>1, <2>3 DEF FetchBlock, ItemsAreMined, Move
  <2>4. CASE FinalizeDrop(r, t) \/ FinalizeSave(r, t) \/ FinalizeRemove(r, t)
    BY <2>4 DEF FinalizeDrop, FinalizeSave, FinalizeRemove, FinalizeOrder, Move
  <2> QED BY <2>1, <2>2, <2>3, <2>4 DEF ItemStep
<1>6. OneMined' /\ node' = chain'
  BY <1>1 DEF OneMined
<1>7. FoundIsMined'
  BY <1>1, <1>2, <1>3 DEF FoundIsMined
<1>8. ItemsAreMined'
  <2> SUFFICES ASSUME NEW q \in Runs, NEW u \in Txs, item'[q][u] # "out"
               PROVE  /\ chain'[u] = "mined"
                      /\ pool'[u] # "no" \/ u \in rows'
                      /\ item'[q][u] = "receipt" => detail'[q][u] = "mined"
                      /\ item'[q][u] \in {"block", "drop"} => u \in receipts'
    BY DEF ItemsAreMined
  <2>1. CASE <<q, u>> = <<r, t>>
    BY <1>1, <1>2, <1>3, <1>5, <2>1
  <2>2. CASE <<q, u>> # <<r, t>>
    BY <1>1, <1>3, <1>4, <2>2 DEF ItemsAreMined
  <2> QED BY <2>1, <2>2
<1>9. PendingItemsAreMined'
  BY <1>1 DEF PendingItemsAreMined
<1>10. MinedNeverDropped' /\ DropsAreJustified'
  <2>1. CASE FinalizeDrop(r, t)
    <3>1. t \in receipts
      BY <2>1 DEF FinalizeDrop, ItemsAreMined
    <3> QED BY <1>2, <2>1, <3>1, DropIsSound DEF FinalizeDrop, world
  <2>2. CASE dropped' = dropped
    BY <1>1, <1>3, <2>2, NothingDropped
  <2> QED
    BY <2>1, <2>2 DEF ItemStep, FetchTransaction, FetchReceipt, FetchBlock, FinalizeSave,
       FinalizeRemove, stored
<1> QED BY <1>6, <1>7, <1>8, <1>9, <1>10 DEF DropParts

LEMMA RunStepDropParts ==
  ASSUME DropsInv, NoncesApart, NodeLags = FALSE, NEW r \in Runs, Saved,
         \/ KitSynced(r)
         \/ RunStep(r)
         \/ FailBatch(r)
         \/ \E t \in Txs, d \in {"hash", "mined"} : Discover(r, t, d)
  PROVE  DropParts'
<1> USE DEF DropsInv, TypeOK
<1>1. CASE ~\E t \in Txs : ItemStep(r, t)
  <2>1. UNCHANGED <<chain, node, rows, receipts, dropped, pendingItem>>
    BY <1>1 DEF KitSynced, RunStep, FailBatch, Discover, Insert, Check, ReadPool,
       SetSynced, SetSyncing, FinishBatch, Drained, stored, world
  <2>2. \A t \in Txs : /\ pool'[t] \in {pool[t], "hash", "mined"}
                       /\ pool'[t] # pool[t] => chain[t] = "mined"
    <3>1. CASE Insert(r)
      BY <3>1 DEF Insert, FoundIsMined
    <3>2. CASE pool' = pool
      BY <3>2
    <3> QED
      BY <1>1, <3>1, <3>2 DEF KitSynced, RunStep, FailBatch, Discover, Check, ReadPool,
         SetSynced, SetSyncing, FinishBatch, Drained, stored
  <2>3. \A q \in Runs, t \in Txs : adding'[q][t] # "no" => chain[t] = "mined"
    <3>1. ASSUME NEW t \in Txs, NEW d \in {"hash", "mined"}, Discover(r, t, d)
          PROVE  \A q \in Runs, u \in Txs :
                   adding'[q][u] = adding[q][u] \/ (u = t /\ chain[u] = "mined")
      BY <3>1 DEF Discover
    <3>2. CASE Insert(r)
      BY <3>2 DEF Insert, FoundIsMined
    <3>3. CASE adding' = adding
      BY <3>3 DEF FoundIsMined
    <3>4. CASE \E t \in Txs, d \in {"hash", "mined"} : Discover(r, t, d)
      BY <3>1, <3>4 DEF FoundIsMined
    <3> QED
      BY <1>1, <3>2, <3>3, <3>4 DEF KitSynced, RunStep, FailBatch, Check, ReadPool,
         SetSynced, SetSyncing, FinishBatch, Drained, syncer
  <2>4. \A q \in Runs, t \in Txs : item'[q][t] # "out" =>
          \/ item'[q][t] = item[q][t] /\ detail'[q][t] = detail[q][t]
          \/ /\ pool[t] # "no"
             /\ item'[q][t] \in {"tx", "receipt"}
             /\ item'[q][t] = "receipt" => detail'[q][t] = pool[t] /\ pool[t] # "hash"
    <3>1. CASE ReadPool(r)
      <4>1. PICK B \in Batches :
              /\ item' = [item EXCEPT ![r] =
                   [t \in Txs |-> IF t \notin B THEN "out"
                                  ELSE IF pool[t] = "hash" THEN "tx" ELSE "receipt"]]
              /\ detail' = [detail EXCEPT ![r] =
                   [t \in Txs |-> IF t \in B THEN pool[t] ELSE "hash"]]
        BY <3>1 DEF ReadPool
      <4>2. \A t \in B : pool[t] # "no"
        BY DEF Batches, Waiting
      <4>3. \A t \in Txs :
              /\ item'[r][t] = IF t \notin B THEN "out"
                               ELSE IF pool[t] = "hash" THEN "tx" ELSE "receipt"
              /\ t \in B => detail'[r][t] = pool[t]
        BY <4>1
      <4>4. \A q \in Runs \ {r} : item'[q] = item[q] /\ detail'[q] = detail[q]
        BY <4>1
      <4> QED BY <4>2, <4>3, <4>4
    <3>2. CASE FinishBatch(r) \/ Drained(r)
      <4>1. /\ item' = [item EXCEPT ![r] = NoItems]
            /\ detail' = [detail EXCEPT ![r] = NoDetail]
        BY <3>2 DEF FinishBatch, Drained
      <4>2. /\ \A q \in Runs \ {r} : item'[q] = item[q] /\ detail'[q] = detail[q]
            /\ \A t \in Txs : item'[r][t] = "out"
        BY <4>1
      <4> QED BY <4>2
    <3>3. CASE FailBatch(r)
      BY <3>3 DEF FailBatch
    <3>4. CASE UNCHANGED <<item, detail>>
      BY <3>4
    <3> QED
      BY <1>1, <3>1, <3>2, <3>3, <3>4 DEF KitSynced, RunStep, Discover, Insert, Check,
         SetSynced, SetSyncing
  <2>5. OneMined' /\ node' = chain' /\ PendingItemsAreMined'
    BY <2>1 DEF OneMined, PendingItemsAreMined
  <2>6. FoundIsMined'
    BY <2>1, <2>2, <2>3 DEF FoundIsMined
  <2>7. ItemsAreMined'
    BY <2>1, <2>2, <2>4 DEF ItemsAreMined, FoundIsMined
  <2>8. MinedNeverDropped' /\ DropsAreJustified'
    BY <2>1, <2>2, NothingDropped
  <2> QED BY <2>5, <2>6, <2>7, <2>8 DEF DropParts
<1>2. CASE \E t \in Txs : ItemStep(r, t)
  BY <1>2, ItemStepDropParts
<1> QED BY <1>1, <1>2

LEMMA MovesOnePending ==
  ASSUME TypeOK, NEW p \in PendingRuns, NEW t \in Txs, NEW s, MovePending(p, t, s)
  PROVE  /\ pendingItem'[p][t] = s
         /\ \A q \in PendingRuns, u \in Txs :
              <<q, u>> # <<p, t>> => pendingItem'[q][u] = pendingItem[q][u]
  BY DEF TypeOK, MovePending

LEMMA PendingStepDropParts ==
  ASSUME DropsInv, NoncesApart, NodeLags = FALSE, NEW p \in PendingRuns,
         ReadPending(p) \/ PendingStep(p) \/ FailPending(p)
  PROVE  DropParts'
<1> USE DEF DropsInv, TypeOK
<1>1. /\ UNCHANGED <<chain, node, pool, item, detail, adding>>
      /\ rows \subseteq rows' /\ receipts \subseteq receipts'
  BY DEF ReadPending, PendingStep, FailPending, FetchPendingReceipt, FetchPendingBlock,
         HandleReceipt, HandleReplaced, NextPage, stored, world, syncer
<1>2. OneMined' /\ node' = chain' /\ FoundIsMined'
  BY <1>1 DEF OneMined, FoundIsMined
<1>3. ItemsAreMined'
  BY <1>1 DEF ItemsAreMined
<1>4. PendingItemsAreMined'
  <2> SUFFICES ASSUME NEW q \in PendingRuns, NEW u \in Txs
               PROVE  /\ pendingItem'[q][u] \in {"block", "handle", "drop"} =>
                            chain[u] = "mined"
                      /\ pendingItem'[q][u] = "drop" => u \in rows' /\ u \in receipts'
    BY <1>1 DEF PendingItemsAreMined
  <2>1. CASE pendingItem'[q][u] \in {pendingItem[q][u], "out", "fetch", "done"}
    BY <1>1, <2>1 DEF PendingItemsAreMined
  <2>2. ASSUME NEW t \in Txs, FetchPendingReceipt(p, t)
        PROVE  \/ pendingItem'[q][u] \in {pendingItem[q][u], "done"}
               \/ pendingItem'[q][u] = "block" /\ chain[u] = "mined"
    BY <2>2, MovesOnePending DEF FetchPendingReceipt
  <2>3. ASSUME NEW t \in Txs, FetchPendingBlock(p, t)
        PROVE  \/ pendingItem'[q][u] \in {pendingItem[q][u], "done"}
               \/ pendingItem'[q][u] = "handle" /\ pendingItem[q][u] = "block"
    <3>1. PICK s \in {"handle", "done"} : MovePending(p, t, s)
      BY <2>3 DEF FetchPendingBlock
    <3> QED BY <2>3, <3>1, MovesOnePending DEF FetchPendingBlock
  <2>4. ASSUME NEW t \in Txs, HandleReceipt(p, t)
        PROVE  \/ pendingItem'[q][u] = pendingItem[q][u]
               \/ /\ pendingItem[q][u] = "handle" /\ pendingItem'[q][u] = "drop"
                  /\ u \in rows' /\ u \in receipts'
    BY <2>4, MovesOnePending DEF HandleReceipt
  <2>5. ASSUME NEW t \in Txs, HandleReplaced(p, t)
        PROVE  pendingItem'[q][u] \in {pendingItem[q][u], "done"}
    BY <2>5, MovesOnePending DEF HandleReplaced
  <2>6. CASE ReadPending(p)
    BY <2>1, <2>6 DEF ReadPending
  <2>7. CASE NextPage(p)
    BY <2>1, <2>7 DEF NextPage
  <2>8. CASE FailPending(p)
    BY <2>1, <2>8 DEF FailPending
  <2> QED
    BY <1>1, <2>1, <2>2, <2>3, <2>4, <2>5, <2>6, <2>7, <2>8
    DEF PendingStep, PendingItemsAreMined
<1>5. MinedNeverDropped' /\ DropsAreJustified'
  <2>1. ASSUME NEW t \in Txs, HandleReplaced(p, t)
        PROVE  MinedNeverDropped' /\ DropsAreJustified'
    <3>1. chain[t] = "mined" /\ t \in rows /\ t \in receipts
      BY <2>1 DEF HandleReplaced, PendingItemsAreMined
    <3> QED BY <2>1, <3>1, DropIsSound DEF HandleReplaced, world
  <2>2. CASE dropped' = dropped
    BY <1>1, <2>2, NothingDropped
  <2> HIDE DEF DropsInv, TypeOK
  <2> QED
    BY <2>1, <2>2 DEF ReadPending, PendingStep, FailPending, FetchPendingReceipt,
       FetchPendingBlock, HandleReceipt, NextPage, stored
<1> QED BY <1>2, <1>3, <1>4, <1>5 DEF DropParts

LEMMA CrashDropParts == ASSUME DropsInv, Crash PROVE DropParts'
<1> USE DEF DropsInv, TypeOK, Crash, stored, world
<1>1. OneMined' /\ node' = chain' /\ FoundIsMined'
  BY DEF OneMined, FoundIsMined
<1>2. ItemsAreMined' /\ PendingItemsAreMined'
  BY DEF ItemsAreMined, PendingItemsAreMined
<1>3. MinedNeverDropped' /\ DropsAreJustified'
  BY NothingDropped
<1> QED BY <1>1, <1>2, <1>3 DEF DropParts

LEMMA NextDropParts ==
  ASSUME NoncesApart, NodeLags = FALSE, DropsInv, Saved, [Next]_vars
  PROVE  DropParts'
<1>1. CASE UNCHANGED vars
  BY <1>1 DEF vars, stored, world, syncer, DropsInv, DropParts, OneMined, FoundIsMined,
     ItemsAreMined, PendingItemsAreMined, MinedNeverDropped, DropsAreJustified
<1>2. CASE Next
  BY <1>2, NetworkStepDropParts, RunStepDropParts, PendingStepDropParts, CrashDropParts
  DEF Next
<1> QED BY <1>1, <1>2

(***************************************************************************)
(* While the node does not lag and no incoming transaction has the nonce   *)
(* of one of this account (the query looks at the nonce alone), no mined   *)
(* transaction is marked dropped: a row that PendingTransactionSyncer      *)
(* gives a DroppedTransaction was never in a block.                        *)
(***************************************************************************)
THEOREM ReplacementsAreSound ==
  ASSUME NoncesApart, NodeLags = FALSE
  PROVE  Spec => []MinedNeverDropped
<1>1. Init => DropsInv
  BY InitTypeOK, InitDropParts, BoundsAssumption DEF DropsInv, DropParts
<1>2. DropsInv /\ SyncInv /\ [Next]_vars => DropsInv'
  BY NextTypeOK, NextDropParts DEF DropsInv, DropParts, SyncInv
<1>3. DropsInv => MinedNeverDropped
  BY DEF DropsInv
<1> QED BY <1>1, <1>2, <1>3, InvariantHolds, PTL DEF Spec

(***************************************************************************)
(* Under the same conditions replacedWith of a DroppedTransaction names    *)
(* another transaction of its nonce that was mined, and that is in the     *)
(* tables or still in the pool.                                            *)
(***************************************************************************)
THEOREM DropsAreReplaced ==
  ASSUME NoncesApart, NodeLags = FALSE
  PROVE  Spec => []DropsAreJustified
<1>1. Init => DropsInv
  BY InitTypeOK, InitDropParts, BoundsAssumption DEF DropsInv, DropParts
<1>2. DropsInv /\ SyncInv /\ [Next]_vars => DropsInv'
  BY NextTypeOK, NextDropParts DEF DropsInv, DropParts, SyncInv
<1>3. DropsInv => DropsAreJustified
  BY DEF DropsInv
<1> QED BY <1>1, <1>2, <1>3, InvariantHolds, PTL DEF Spec
=============================================================================
