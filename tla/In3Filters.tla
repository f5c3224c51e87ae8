----------------------------- MODULE In3Filters -----------------------------
(***************************************************************************)
(* Filters kept by the in3 client (verifier/eth1/basic: filter.c and the    *)
(* filter methods of eth_basic.c).  The client turns a filter's poll into    *)
(* eth_blockNumber and then eth_getLogs, or one eth_getBlockByNumber for     *)
(* every new block; the chain moves, and each call may fail, between them.   *)
(*                                                                         *)
(* Every block has one event the filter matches; a block stands for its      *)
(* event and for its hash.                                                  *)
(***************************************************************************)
EXTENDS In3None, Integers, Sequences, FiniteSets, SequencesExt

CONSTANTS
  Froms,      \* the fromBlock options a filter may be made with, None without one
  MaxLag,     \* how many blocks behind the node that answers eth_blockNumber may be
  MaxHead,    \* bound: blocks of the chain
  MaxFilters, \* bound: filters installed at a time
  MaxPolls    \* bound: polls

VARIABLES
  head,     \* the chain's newest block
  filters,  \* in3->filters->array: the id of a filter is its place
  poll,     \* the eth_getFilterChanges under way, or None
  polls
filterVars == <<head, filters, poll, polls>>

Kinds == {"event", "block"}
FilterRecords ==
  [kind : Kinds, from : Nat \union {None}, start : Nat, last : Nat, first : BOOLEAN, got : Seq(Nat), lost : SUBSET Nat]
PollRecords == [id : Nat, number : Nat, next : Nat, got : Seq(Nat)]

\* None is neither a number nor a filter nor a poll; a chain has a block.
FiltersConstants ==
  /\ None \notin Nat /\ None \notin FilterRecords /\ None \notin PollRecords
  /\ Froms \subseteq Nat \union {None}
  /\ MaxLag \in Nat /\ MaxHead \in Nat \ {0} /\ MaxFilters \in Nat /\ MaxPolls \in Nat

ASSUME FiltersAssumption == FiltersConstants

Heads == {n \in (head - MaxLag) .. head : n >= 0}

\* got: the blocks polls have delivered; lost: those whose eth_getBlockByNumber failed
Filter(kind, from, current) ==
  [kind |-> kind, from |-> from, start |-> current, last |-> current, first |-> TRUE, got |-> <<>>, lost |-> {}]

\* filter_add: the place of a filter that was removed is used again
FreePlace == SelectInSeq(filters, LAMBDA f : f = None)

NewFilter(kind, from, current) ==
  /\ poll = None
  /\ IF FreePlace # 0
     THEN filters' = [filters EXCEPT ![FreePlace] = Filter(kind, from, current)]
     ELSE Len(filters) < MaxFilters /\ filters' = Append(filters, Filter(kind, from, current))
  /\ UNCHANGED <<head, poll, polls>>

\* filter_remove
Uninstall(id) ==
  /\ poll = None /\ filters[id] # None
  /\ filters' = [filters EXCEPT ![id] = None]
  /\ UNCHANGED <<head, poll, polls>>

-----------------------------------------------------------------------------
(* filter_get_changes *)


\* eth_blockNumber
PollNumber(id, current) ==
  /\ poll = None /\ polls < MaxPolls
  /\ polls' = polls + 1
  /\ poll' = IF filters[id] = None THEN None
             ELSE [id |-> id, number |-> current, next |-> filters[id].last + 1, got |-> <<>>]
  /\ UNCHANGED <<head, filters>>

\* the current filter and the options eth_getLogs is called with
Polled == filters[poll.id]

\* Mutant of FromBlock: the first poll overwrites the fromBlock of the options, too.
FromBlockOverwritten == Polled.last

\* filter_opt_set_fromBlock: the option's own fromBlock counts in the first poll
FromBlock == IF Polled.first /\ Polled.from # None THEN Polled.from ELSE Polled.last

\* eth_getLogs to the block that is the latest now
WithLogs(f) ==
  [f EXCEPT !.got = @ \o [i \in 1 .. (head - FromBlock + 1) |-> FromBlock + i - 1],
            !.last = poll.number + 1, !.first = FALSE]

PollLogs ==
  /\ poll # None
  /\ Polled.kind = "event"
  /\ IF Polled.last > poll.number THEN UNCHANGED filters
     ELSE filters' = [filters EXCEPT ![poll.id] = WithLogs(@)]
  /\ poll' = None
  /\ UNCHANGED <<head, polls>>

PollLogsFails ==
  /\ poll # None
  /\ Polled.kind = "event" /\ Polled.last <= poll.number
  /\ poll' = None
  /\ UNCHANGED <<head, filters, polls>>

\* eth_getBlockByNumber: a block that cannot be got is left out
PollBlock(ok) ==
  /\ poll # None
  /\ Polled.kind = "block" /\ poll.next <= poll.number
  /\ poll' = [poll EXCEPT !.next = @ + 1, !.got = IF ok THEN Append(@, poll.next) ELSE @]
  /\ filters' = IF ok THEN filters ELSE [filters EXCEPT ![poll.id].lost = @ \union {poll.next}]
  /\ UNCHANGED <<head, polls>>

Delivered(f) == [f EXCEPT !.got = @ \o poll.got, !.last = IF poll.number > @ THEN poll.number ELSE @]

PollBlocksEnd ==
  /\ poll # None
  /\ Polled.kind = "block" /\ poll.next > poll.number
  /\ filters' = [filters EXCEPT ![poll.id] = Delivered(@)]
  /\ poll' = None
  /\ UNCHANGED <<head, polls>>

Mine ==
  /\ head < MaxHead
  /\ head' = head + 1
  /\ UNCHANGED <<filters, poll, polls>>
-----------------------------------------------------------------------------
FiltersInit == head = 1 /\ filters = <<>> /\ poll = None /\ polls = 0

FiltersNext ==
  \/ \E current \in Heads :
       \/ \E from \in Froms : NewFilter("event", from, current)
       \/ NewFilter("block", None, current)
       \/ \E id \in DOMAIN filters : PollNumber(id, current)
  \/ \E id \in DOMAIN filters : Uninstall(id)
  \/ PollLogs
  \/ PollLogsFails
  \/ \E ok \in BOOLEAN : PollBlock(ok)
  \/ PollBlocksEnd
  \/ Mine

FiltersSpec == FiltersInit /\ [][FiltersNext]_filterVars
-----------------------------------------------------------------------------
(* Properties *)

Installed == {id \in DOMAIN filters : filters[id] # None}

\* Ids stay inside the array, and a poll is one of an installed filter.
FiltersTypeOK ==
  /\ head \in 0 .. MaxHead /\ polls \in 0 .. MaxPolls
  /\ Len(filters) <= MaxFilters
  /\ \A id \in Installed : filters[id].kind \in Kinds /\ filters[id].last \in 0 .. MaxHead + 1
  /\ poll # None => poll.id \in Installed

\* However the chain grows during a poll, whatever call fails and however the numbers
\* nodes answer go back and forth: every event from the block the filter was made for (or
\* its fromBlock) up to the last poll has been delivered.
NoEventIsMissed ==
  \A id \in Installed :
    LET f == filters[id]
        from == IF f.from = None THEN f.start ELSE f.from
    IN  f.kind = "event" /\ ~f.first => from .. (f.last - 1) \subseteq Range(f.got)

\* A block filter delivers every block after its start once and in order, but for those
\* whose own request failed.
BlocksComeOnce ==
  \A id \in Installed :
    LET f == filters[id]
    IN  f.kind = "block" =>
          /\ \A i, j \in DOMAIN f.got : i < j => f.got[i] < f.got[j]
          /\ (f.start + 1) .. f.last \subseteq Range(f.got) \union f.lost

\* What who polls a filter relies on.
PollsAreComplete == FiltersTypeOK /\ NoEventIsMissed /\ BlocksComeOnce
==============================================================================
