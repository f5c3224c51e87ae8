-------------------------- MODULE In3FiltersProofs --------------------------
(***************************************************************************)
(* Proofs about In3Filters, for every chain, number of filters and polls,   *)
(* and however far behind the nodes that answer eth_blockNumber are.        *)
(***************************************************************************)
EXTENDS In3Filters, SequenceTheorems, TLAPS

-----------------------------------------------------------------------------
(* The inductive invariant.  Of a filter: what it delivered up to last.  Of  *)
(* a poll of a block filter: what it has collected between last and next.    *)

Increasing(got) == \A i, j \in DOMAIN got : i < j => got[i] < got[j]

\* The block a filter's events are promised from.
Since(f) == IF f.from = None THEN f.start ELSE f.from

EventsDelivered(f) ==
  IF f.first THEN f.last = f.start ELSE Since(f) .. (f.last - 1) \subseteq Range(f.got)

BlocksDelivered(f) ==
  /\ Increasing(f.got)
  /\ \A i \in DOMAIN f.got : f.got[i] <= f.last
  /\ (f.start + 1) .. f.last \subseteq Range(f.got) \union f.lost

Delivers(f) == (f.kind = "event" => EventsDelivered(f)) /\ (f.kind = "block" => BlocksDelivered(f))

FiltersDeliver ==
  /\ filters \in Seq(FilterRecords \union {None}) /\ Len(filters) <= MaxFilters
  /\ \A id \in Installed : Delivers(filters[id]) /\ filters[id].last <= head + 1

Collects(p, f) ==
  /\ f.last < p.next /\ (p.next > f.last + 1 => p.next <= p.number + 1)
  /\ Increasing(p.got)
  /\ \A i \in DOMAIN p.got : f.last < p.got[i] /\ p.got[i] < p.next
  /\ (f.last + 1) .. (p.next - 1) \subseteq Range(p.got) \union f.lost

PollCollects ==
  poll # None =>
    /\ poll \in PollRecords /\ poll.id \in Installed /\ poll.number <= head
    /\ Polled.kind = "block" => Collects(poll, Polled)

FiltersInv ==
  /\ head \in 0 .. MaxHead /\ polls \in 0 .. MaxPolls
  /\ FiltersDeliver
  /\ PollCollects

-----------------------------------------------------------------------------
(* Two sequences, one after the other *)

LEMMA JoinedRange ==
  ASSUME NEW s \in Seq(Nat), NEW t \in Seq(Nat)
  PROVE  s \o t \in Seq(Nat) /\ Range(s \o t) = Range(s) \union Range(t)
<1>1. /\ s \o t \in Seq(Nat) /\ Len(s \o t) = Len(s) + Len(t)
      /\ \A i \in 1 .. Len(s) + Len(t) : (s \o t)[i] = IF i <= Len(s) THEN s[i] ELSE t[i - Len(s)]
  BY ConcatProperties
<1>2. Range(s \o t) \subseteq Range(s) \union Range(t)
  BY <1>1 DEF Range
<1>3. ASSUME NEW i \in DOMAIN s PROVE s[i] \in Range(s \o t)
  <2>1. i \in DOMAIN (s \o t) /\ (s \o t)[i] = s[i]
    BY <1>1
  <2> QED BY <2>1 DEF Range
<1>4. ASSUME NEW i \in DOMAIN t PROVE t[i] \in Range(s \o t)
  <2>1. Len(s) + i \in DOMAIN (s \o t) /\ (s \o t)[Len(s) + i] = t[i]
    BY <1>1
  <2> QED BY <2>1 DEF Range
<1>5. Range(s) \union Range(t) \subseteq Range(s \o t)
  BY <1>3, <1>4 DEF Range
<1> QED BY <1>1, <1>2, <1>5

\* Blocks after those before them keep the order.
LEMMA JoinedIncreasing ==
  ASSUME NEW s \in Seq(Nat), NEW t \in Seq(Nat), NEW n \in Nat, Increasing(s), Increasing(t),
         \A i \in DOMAIN s : s[i] <= n, \A i \in DOMAIN t : n < t[i]
  PROVE  Increasing(s \o t)
<1>1. /\ s \o t \in Seq(Nat) /\ Len(s \o t) = Len(s) + Len(t)
      /\ \A i \in 1 .. Len(s) + Len(t) : (s \o t)[i] = IF i <= Len(s) THEN s[i] ELSE t[i - Len(s)]
  BY ConcatProperties
<1> SUFFICES ASSUME NEW i \in DOMAIN (s \o t), NEW j \in DOMAIN (s \o t), i < j
             PROVE  (s \o t)[i] < (s \o t)[j]
  BY DEF Increasing
<1>2. i \in 1 .. Len(s) + Len(t) /\ j \in 1 .. Len(s) + Len(t) /\ Len(s) \in Nat /\ Len(t) \in Nat
  BY <1>1
<1>3. CASE j <= Len(s)
  <2>1. i \in DOMAIN s /\ j \in DOMAIN s
    BY <1>2, <1>3
  <2> QED BY <1>1, <1>2, <1>3, <2>1 DEF Increasing
<1>4. CASE i <= Len(s) /\ j > Len(s)
  <2>1. i \in DOMAIN s /\ j - Len(s) \in DOMAIN t
    BY <1>2, <1>4
  <2>2. s[i] \in Nat /\ t[j - Len(s)] \in Nat
    BY <2>1
  <2> QED BY <1>1, <1>2, <1>4, <2>1, <2>2
<1>5. CASE i > Len(s)
  <2>1. i - Len(s) \in DOMAIN t /\ j - Len(s) \in DOMAIN t /\ i - Len(s) < j - Len(s)
    BY <1>2, <1>5
  <2> QED BY <1>1, <1>2, <1>5, <2>1 DEF Increasing
<1> QED BY <1>2, <1>3, <1>4, <1>5

LEMMA OneMore ==
  ASSUME NEW s \in Seq(Nat), NEW n \in Nat
  PROVE  Append(s, n) \in Seq(Nat) /\ Range(Append(s, n)) = Range(s) \union {n}
<1>1. Append(s, n) = s \o <<n>>
  BY AppendIsConcat
<1>2. <<n>> \in Seq(Nat) /\ Range(<<n>>) = {n}
  BY DEF Range
<1> QED BY <1>1, <1>2, JoinedRange

\* What AppendProperties says of numbers
LEMMA AppendedNumber ==
  ASSUME NEW s \in Seq(Nat), NEW n \in Nat
  PROVE  /\ Len(Append(s, n)) = Len(s) + 1 /\ Len(s) \in Nat
         /\ \A i \in 1 .. Len(s) : Append(s, n)[i] = s[i] /\ s[i] \in Nat
         /\ Append(s, n)[Len(s) + 1] = n
<1>1. Len(Append(s, n)) = Len(s) + 1 /\ Len(s) \in Nat
  BY AppendProperties
<1>2. /\ \A i \in 1 .. Len(s) : Append(s, n)[i] = s[i]
      /\ Append(s, n)[Len(s) + 1] = n
  BY AppendProperties
<1>3. \A i \in 1 .. Len(s) : s[i] \in Nat
  BY ElementOfSeq
<1> QED BY <1>1, <1>2, <1>3

\* Up to one block before and from it on is everything.
LEMMA BeforeAndFrom ==
  \A a, b, n, h \in Nat : n <= h => a .. n \subseteq (a .. (b - 1)) \union (b .. h)
OBVIOUS

\* A sequence with another value at a place, if it has that place
LEMMA Replaced ==
  ASSUME NEW T, NEW s \in Seq(T), NEW k, NEW x \in T
  PROVE  LET t == [s EXCEPT ![k] = x]
         IN  /\ t \in Seq(T) /\ Len(t) = Len(s) /\ DOMAIN t = DOMAIN s
             /\ \A i \in DOMAIN s : t[i] = IF i = k THEN x ELSE s[i]
<1>1. s \in [1 .. Len(s) -> T] /\ Len(s) \in Nat
  BY LenProperties
<1>2. [s EXCEPT ![k] = x] \in [1 .. Len(s) -> T]
  BY <1>1
<1>3. [s EXCEPT ![k] = x] \in Seq(T)
  BY <1>1, <1>2
<1>4. DOMAIN [s EXCEPT ![k] = x] = 1 .. Len(s)
  BY <1>2
<1>5. Len([s EXCEPT ![k] = x]) = Len(s)
  BY <1>1, <1>3, <1>4, LenProperties
<1> QED BY <1>1, <1>3, <1>4, <1>5

\* The same of a list of filters
FilterLists == Seq(FilterRecords \union {None})
PutAt(s, k, x) == [s EXCEPT ![k] = x]

LEMMA ReplacedFilter ==
  ASSUME NEW s \in FilterLists, NEW k, NEW x \in FilterRecords, NEW t, t = PutAt(s, k, x)
  PROVE  /\ t \in FilterLists /\ Len(t) = Len(s) /\ DOMAIN t = DOMAIN s
         /\ \A i \in DOMAIN s : t[i] = IF i = k THEN x ELSE s[i]
BY Replaced DEF FilterLists, PutAt

LEMMA LaterPoll == ASSUME NEW p \in PollRecords, NEW n \in Nat PROVE [p EXCEPT !.next = n] \in PollRecords
  BY DEF PollRecords

LEMMA LaterFilter == ASSUME NEW f \in FilterRecords, NEW n \in Nat PROVE [f EXCEPT !.last = n] \in FilterRecords
  BY DEF FilterRecords

\* The blocks eth_getLogs looks at.
LEMMA LoggedBlocks ==
  ASSUME NEW from \in Nat, NEW to \in Nat
  PROVE  LET logs == [i \in 1 .. (to - from + 1) |-> from + i - 1]
         IN  logs \in Seq(Nat) /\ Range(logs) = from .. to
<1> DEFINE n == to - from + 1
           logs == [i \in 1 .. n |-> from + i - 1]
<1>1. logs \in Seq(Nat)
  <2>1. CASE n \in Nat
    <3>1. \A i \in 1 .. n : from + i - 1 \in Nat
      BY <2>1
    <3> QED BY <2>1, <3>1
  <2>2. CASE n \notin Nat
    <3>1. 1 .. n = 1 .. 0
      BY <2>2
    <3>2. logs \in [1 .. 0 -> Nat]
      BY <3>1
    <3> QED BY <3>2
  <2> QED BY <2>1, <2>2
<1>2. ASSUME NEW b \in from .. to PROVE b \in Range(logs)
  <2>1. b - from + 1 \in 1 .. n /\ logs[b - from + 1] = b
    OBVIOUS
  <2> QED BY <2>1 DEF Range
<1>3. ASSUME NEW i \in 1 .. n PROVE logs[i] \in from .. to
  OBVIOUS
<1>4. Range(logs) \subseteq from .. to
  BY <1>3 DEF Range
<1> QED BY <1>1, <1>2, <1>4
-----------------------------------------------------------------------------
(* The steps *)

LEMMA InitFiltersInv == ASSUME FiltersConstants, FiltersInit PROVE FiltersInv
<1>1. filters = <<>> /\ poll = None /\ head = 1 /\ polls = 0
  BY DEF FiltersInit
<1>2. FiltersDeliver
  BY <1>1 DEF FiltersDeliver, Installed, FiltersConstants
<1>3. PollCollects
  BY <1>1 DEF PollCollects
<1> QED BY <1>1, <1>2, <1>3 DEF FiltersInv, FiltersConstants

\* A filter that was just made has delivered nothing and has nothing to deliver.
LEMMA NewDelivers ==
  ASSUME NEW kind \in Kinds, NEW from \in Nat \union {None}, NEW current \in Nat
  PROVE  Filter(kind, from, current) \in FilterRecords /\ Delivers(Filter(kind, from, current))
         /\ Filter(kind, from, current).last = current
<1> DEFINE f == Filter(kind, from, current)
<1>1. f = [kind |-> kind, from |-> from, start |-> current, last |-> current, first |-> TRUE, got |-> <<>>, lost |-> {}]
  BY DEF Filter
<1>2. f \in FilterRecords
  BY <1>1 DEF FilterRecords
<1>3. EventsDelivered(f)
  BY <1>1 DEF EventsDelivered
<1>4. BlocksDelivered(f)
  BY <1>1 DEF BlocksDelivered, Increasing
<1> QED BY <1>1, <1>2, <1>3, <1>4 DEF Delivers

LEMMA NewFilterInv ==
  ASSUME FiltersConstants, FiltersInv, NEW kind \in Kinds, NEW from \in Nat \union {None}, NEW current \in Heads,
         NewFilter(kind, from, current)
  PROVE  FiltersInv'
<1> DEFINE f == Filter(kind, from, current)
<1>1. current \in Nat /\ current <= head /\ head \in Nat
  BY DEF Heads, FiltersConstants, FiltersInv
<1>2. f \in FilterRecords /\ Delivers(f) /\ f.last = current
  BY <1>1, NewDelivers
<1> HIDE DEF f
<1>3. poll = None /\ UNCHANGED <<head, poll, polls>>
  BY DEF NewFilter
<1>4. /\ filters' \in Seq(FilterRecords \union {None}) /\ Len(filters') <= MaxFilters
      /\ \A id \in DOMAIN filters' : filters'[id] = f \/ (id \in DOMAIN filters /\ filters'[id] = filters[id])
  <2>1. filters \in Seq(FilterRecords \union {None}) /\ Len(filters) <= MaxFilters
    BY DEF FiltersInv, FiltersDeliver
  <2>2. CASE FreePlace # 0
    <3>1. filters' = [filters EXCEPT ![FreePlace] = f]
      BY <2>2 DEF NewFilter, f
    <3>2. f \in FilterRecords \union {None}
      BY <1>2
    <3>3. /\ filters' \in Seq(FilterRecords \union {None}) /\ Len(filters') = Len(filters) /\ DOMAIN filters' = DOMAIN filters
          /\ \A i \in DOMAIN filters : filters'[i] = IF i = FreePlace THEN f ELSE filters[i]
      <4>1. filters \in FilterLists /\ f \in FilterRecords
        BY <1>2, <2>1 DEF FilterLists
      <4>2. filters' = PutAt(filters, FreePlace, f)
        BY <3>1 DEF PutAt
      <4>3. /\ filters' \in FilterLists /\ Len(filters') = Len(filters) /\ DOMAIN filters' = DOMAIN filters
            /\ \A i \in DOMAIN filters : filters'[i] = IF i = FreePlace THEN f ELSE filters[i]
        BY <4>1, <4>2, ReplacedFilter
      <4> QED BY <4>3 DEF FilterLists
    <3> QED BY <2>1, <3>3
  <2>3. CASE FreePlace = 0
    <3>1. Len(filters) < MaxFilters /\ filters' = Append(filters, f)
      BY <2>3 DEF NewFilter, f
    <3> QED BY <1>2, <2>1, <3>1, LenProperties DEF FiltersConstants
  <2> QED BY <2>2, <2>3
<1>5. FiltersDeliver'
  <2>1. ASSUME NEW id \in DOMAIN filters', filters'[id] # None
        PROVE  Delivers(filters'[id]) /\ filters'[id].last <= head' + 1
    <3>1. CASE filters'[id] = f
      BY <1>1, <1>2, <1>3, <3>1
    <3>2. CASE id \in DOMAIN filters /\ filters'[id] = filters[id]
      BY <1>3, <2>1, <3>2 DEF FiltersInv, FiltersDeliver, Installed
    <3> QED BY <1>4, <3>1, <3>2
  <2> QED BY <1>4, <2>1 DEF FiltersDeliver, Installed
<1> QED BY <1>3, <1>5 DEF FiltersInv, PollCollects

LEMMA UninstallInv ==
  ASSUME FiltersInv, NEW id \in DOMAIN filters, Uninstall(id)
  PROVE  FiltersInv'
<1>1. poll = None /\ filters' = [filters EXCEPT ![id] = None] /\ UNCHANGED <<head, poll, polls>>
  BY DEF Uninstall
<1>2. filters \in Seq(FilterRecords \union {None}) /\ Len(filters) <= MaxFilters
  BY DEF FiltersInv, FiltersDeliver
<1>3. /\ filters' \in Seq(FilterRecords \union {None}) /\ Len(filters') <= MaxFilters
      /\ DOMAIN filters' = DOMAIN filters
      /\ \A i \in DOMAIN filters : filters'[i] = None \/ filters'[i] = filters[i]
  BY <1>1, <1>2
<1>4. FiltersDeliver'
  BY <1>1, <1>3 DEF FiltersInv, FiltersDeliver, Installed
<1> QED BY <1>1, <1>4 DEF FiltersInv, PollCollects

LEMMA PollNumberInv ==
  ASSUME FiltersConstants, FiltersInv, NEW id \in DOMAIN filters, NEW current \in Heads, PollNumber(id, current)
  PROVE  FiltersInv'
<1>1. poll = None /\ polls < MaxPolls /\ polls' = polls + 1 /\ UNCHANGED <<head, filters>>
  BY DEF PollNumber
<1>2. current \in Nat /\ current <= head
  BY DEF Heads, FiltersConstants, FiltersInv
<1>3. FiltersDeliver'
  BY <1>1 DEF FiltersInv, FiltersDeliver, Installed
<1>4. PollCollects'
  <2>1. CASE filters[id] = None
    BY <2>1 DEF PollNumber, PollCollects
  <2>2. CASE filters[id] # None
    <3> DEFINE f == filters[id]
    <3>1. poll' = [id |-> id, number |-> current, next |-> f.last + 1, got |-> <<>>]
      BY <2>2 DEF PollNumber
    <3>2. f \in FilterRecords /\ f.last \in Nat /\ id \in Nat
      BY <2>2 DEF FiltersInv, FiltersDeliver, FilterRecords
    <3>3. poll' \in PollRecords /\ poll'.id = id /\ poll'.number = current /\ poll'.next = f.last + 1 /\ poll'.got = <<>>
      BY <1>2, <3>1, <3>2 DEF PollRecords
    <3> HIDE DEF f
    <3>4. Collects(poll', f)
      BY <3>2, <3>3 DEF Collects, Increasing
    <3>5. Polled' = f /\ id \in Installed'
      BY <1>1, <2>2, <3>3 DEF Polled, Installed, f
    <3> QED BY <1>1, <1>2, <3>3, <3>4, <3>5 DEF PollCollects
  <2> QED BY <2>1, <2>2
<1> QED BY <1>1, <1>3, <1>4 DEF FiltersInv, FiltersConstants

\* A step that gives the polled filter another value
LEMMA PolledDelivers ==
  ASSUME FiltersInv, poll # None, UNCHANGED head, NEW f \in FilterRecords,
         filters' = [filters EXCEPT ![poll.id] = f], Delivers(f), f.last <= head + 1
  PROVE  FiltersDeliver'
<1>1. filters \in Seq(FilterRecords \union {None}) /\ Len(filters) <= MaxFilters
  BY DEF FiltersInv, FiltersDeliver
<1>2. /\ filters' \in Seq(FilterRecords \union {None}) /\ Len(filters') <= MaxFilters
      /\ DOMAIN filters' = DOMAIN filters
      /\ \A i \in DOMAIN filters : filters'[i] = f \/ filters'[i] = filters[i]
  <2>1. f \in FilterRecords \union {None}
    OBVIOUS
  <2> QED BY <1>1, <2>1, Replaced
<1>3. ASSUME NEW i \in DOMAIN filters', filters'[i] # None PROVE Delivers(filters'[i]) /\ filters'[i].last <= head' + 1
  <2>1. CASE filters'[i] = f
    BY <2>1
  <2>2. CASE filters'[i] = filters[i]
    BY <1>2, <1>3, <2>2 DEF FiltersInv, FiltersDeliver, Installed
  <2> QED BY <1>2, <2>1, <2>2
<1> QED BY <1>2, <1>3 DEF FiltersDeliver, Installed

\* The filter that is polled
LEMMA PolledIs ==
  ASSUME FiltersConstants, FiltersInv, poll # None
  PROVE  /\ poll.id \in DOMAIN filters /\ Polled = filters[poll.id] /\ Polled # None
         /\ Polled \in FilterRecords /\ Delivers(Polled) /\ Polled.last <= head + 1
         /\ poll \in PollRecords /\ poll.number <= head /\ head \in Nat
         /\ Polled.kind = "block" => Collects(poll, Polled)
<1>1. poll.id \in Installed
  BY DEF FiltersInv, PollCollects
<1>2. poll.id \in DOMAIN filters /\ Polled # None /\ Delivers(Polled) /\ Polled.last <= head + 1
  BY <1>1 DEF FiltersInv, FiltersDeliver, Installed, Polled
<1>3. Polled \in FilterRecords
  BY <1>2 DEF FiltersInv, FiltersDeliver, Polled
<1> QED BY <1>2, <1>3 DEF FiltersInv, PollCollects, Polled

LEMMA PollLogsInv == ASSUME FiltersConstants, FiltersInv, PollLogs PROVE FiltersInv'
<1> DEFINE f == Polled
<1>1. poll # None /\ f.kind = "event" /\ poll' = None /\ UNCHANGED <<head, polls>>
  BY DEF PollLogs
<1>2. /\ f \in FilterRecords /\ Delivers(f) /\ f.last <= head + 1 /\ f = filters[poll.id]
      /\ poll \in PollRecords /\ poll.number <= head /\ head \in Nat
  BY <1>1, PolledIs
<1>3. FiltersDeliver'
  <2>1. CASE f.last > poll.number
    BY <1>1, <2>1 DEF PollLogs, FiltersInv, FiltersDeliver, Installed
  <2>2. CASE ~(f.last > poll.number)
    <3> DEFINE logs == [i \in 1 .. (head - FromBlock + 1) |-> FromBlock + i - 1]
               g == WithLogs(f)
    <3>1. filters' = [filters EXCEPT ![poll.id] = g]
      BY <1>2, <2>2 DEF PollLogs
    <3>2. /\ f.last \in Nat /\ f.start \in Nat /\ f.from \in Nat \union {None} /\ f.first \in BOOLEAN
          /\ f.got \in Seq(Nat) /\ poll.number \in Nat
      BY <1>2 DEF FilterRecords, PollRecords
    <3>3. FromBlock = IF f.first /\ f.from # None THEN f.from ELSE f.last
      BY DEF FromBlock
    <3>4. FromBlock \in Nat
      BY <3>2, <3>3
    <3>5. logs \in Seq(Nat) /\ Range(logs) = FromBlock .. head
      BY <1>2, <3>4, LoggedBlocks
    <3> HIDE DEF logs
    <3>6. f.got \o logs \in Seq(Nat) /\ Range(f.got \o logs) = Range(f.got) \union (FromBlock .. head)
      <4>1. f.got \in Seq(Nat)
        BY <3>2
      <4>2. /\ f.got \o logs \in Seq(Nat)
            /\ Range(f.got \o logs) = Range(f.got) \union Range(logs)
        BY <3>5, <4>1, JoinedRange, Zenon
      <4> QED BY <3>5, <4>2, Zenon
    <3>7. /\ g \in FilterRecords /\ g.got = f.got \o logs /\ g.last = poll.number + 1 /\ g.first = FALSE
          /\ g.kind = "event" /\ g.from = f.from /\ g.start = f.start
      <4>1. g = [[[f EXCEPT !.got = f.got \o logs] EXCEPT !.last = poll.number + 1] EXCEPT !.first = FALSE]
        BY DEF WithLogs, logs
      <4>2. [f EXCEPT !.got = f.got \o logs] \in FilterRecords
        BY <1>2, <3>6 DEF FilterRecords
      <4>3. [[f EXCEPT !.got = f.got \o logs] EXCEPT !.last = poll.number + 1] \in FilterRecords
        <5>1. poll.number + 1 \in Nat
          BY <3>2
        <5> QED BY <4>2, <5>1, LaterFilter
      <4> QED BY <1>1, <1>2, <4>1, <4>2, <4>3 DEF FilterRecords
    <3> HIDE DEF g
    <3>8. Since(g) .. poll.number \subseteq Range(g.got)
      <4>1. EventsDelivered(f)
        BY <1>1, <1>2 DEF Delivers
      <4>2. Since(g) = Since(f) /\ Since(f) \in Nat
        BY <3>2, <3>7 DEF Since
      <4>3. CASE f.first
        <5>1. FromBlock = Since(f)
          BY <3>3, <4>1, <4>3 DEF EventsDelivered, Since
        <5> QED BY <1>2, <3>2, <3>6, <3>7, <4>2, <5>1
      <4>4. CASE ~f.first
        <5>1. FromBlock = f.last /\ Since(f) .. (f.last - 1) \subseteq Range(f.got)
          BY <3>3, <4>1, <4>4 DEF EventsDelivered
        <5>2. Since(f) .. poll.number \subseteq (Since(f) .. (f.last - 1)) \union (f.last .. head)
          BY <1>2, <3>2, <4>2, BeforeAndFrom, Zenon
        <5>3. Range(g.got) = Range(f.got) \union (f.last .. head)
          BY <3>6, <3>7, <5>1
        <5>4. Since(g) = Since(f)
          BY <4>2
        <5> QED BY <5>1, <5>2, <5>3, <5>4
      <4> QED BY <4>3, <4>4
    <3>9. Delivers(g)
      <4>1. poll.number + 1 - 1 = poll.number
        BY <3>2
      <4>2. EventsDelivered(g)
        <5>1. Since(g) .. (g.last - 1) \subseteq Range(g.got)
          BY <3>2, <3>7, <3>8, <4>1
        <5> QED BY <3>7, <5>1, Zenon DEF EventsDelivered
      <4> QED BY <3>7, <4>2 DEF Delivers
    <3>10. g.last <= head + 1
      BY <1>2, <3>2, <3>7
    <3> QED BY <1>1, <3>1, <3>7, <3>9, <3>10, PolledDelivers
  <2> QED BY <2>1, <2>2
<1> QED BY <1>1, <1>3 DEF FiltersInv, PollCollects

LEMMA PollLogsFailsInv == ASSUME FiltersInv, PollLogsFails PROVE FiltersInv'
  BY DEF PollLogsFails, FiltersInv, FiltersDeliver, PollCollects, Installed

LEMMA PollBlockInv ==
  ASSUME FiltersConstants, FiltersInv, NEW ok \in BOOLEAN, PollBlock(ok)
  PROVE  FiltersInv'
<1> DEFINE f == Polled
           p == poll
           q == [p EXCEPT !.next = @ + 1, !.got = IF ok THEN Append(@, p.next) ELSE @]
           g == IF ok THEN f ELSE [f EXCEPT !.lost = @ \union {p.next}]
<1>1. p # None /\ f.kind = "block" /\ p.next <= p.number /\ poll' = q /\ UNCHANGED <<head, polls>>
  BY DEF PollBlock
<1>2. /\ f \in FilterRecords /\ Delivers(f) /\ f.last <= head + 1 /\ f = filters[p.id] /\ p.id \in DOMAIN filters
      /\ p \in PollRecords /\ p.number <= head /\ head \in Nat /\ Collects(p, f)
  BY <1>1, PolledIs
<1>3. filters' = [filters EXCEPT ![p.id] = g]
  <2>1. filters \in Seq(FilterRecords \union {None})
    BY DEF FiltersInv, FiltersDeliver
  <2>2. CASE ok
    <3>1. filters' = filters
      BY <2>2 DEF PollBlock
    <3> QED BY <1>2, <2>1, <2>2, <3>1
  <2>3. CASE ~ok
    <3>1. filters' = [filters EXCEPT ![poll.id].lost = @ \union {poll.next}]
      BY <2>3 DEF PollBlock
    <3> QED BY <1>2, <2>1, <2>3, <3>1
  <2> QED BY <2>2, <2>3
<1>4. /\ f.last \in Nat /\ f.start \in Nat /\ f.got \in Seq(Nat) /\ f.lost \in SUBSET Nat
      /\ p.id \in Nat /\ p.number \in Nat /\ p.next \in Nat /\ p.got \in Seq(Nat)
  BY <1>2 DEF FilterRecords, PollRecords
<1>5. Append(p.got, p.next) \in Seq(Nat) /\ Range(Append(p.got, p.next)) = Range(p.got) \union {p.next}
  BY <1>4, OneMore
<1>6. /\ q \in PollRecords /\ q.id = p.id /\ q.number = p.number /\ q.next = p.next + 1
      /\ q.got = IF ok THEN Append(p.got, p.next) ELSE p.got
  <2>1. q = [[p EXCEPT !.next = p.next + 1] EXCEPT !.got = IF ok THEN Append(p.got, p.next) ELSE p.got]
    OBVIOUS
  <2>2. [p EXCEPT !.next = p.next + 1] \in PollRecords
    <3>1. p.next + 1 \in Nat
      BY <1>4
    <3> QED BY <1>2, <3>1, LaterPoll
  <2> QED BY <1>2, <1>4, <1>5, <2>1, <2>2 DEF PollRecords
<1>7. /\ g \in FilterRecords /\ g.kind = f.kind /\ g.last = f.last /\ g.start = f.start /\ g.got = f.got
      /\ g.lost = IF ok THEN f.lost ELSE f.lost \union {p.next}
  BY <1>2, <1>4 DEF FilterRecords
<1> HIDE DEF q, g, f, p
<1>8. Delivers(g)
  <2>1. BlocksDelivered(f)
    BY <1>1, <1>2 DEF Delivers
  <2>2. BlocksDelivered(g)
    BY <1>7, <2>1 DEF BlocksDelivered
  <2> QED BY <1>1, <1>7, <2>2 DEF Delivers
<1>9. FiltersDeliver'
  BY <1>1, <1>2, <1>3, <1>7, <1>8, PolledDelivers DEF p
<1>10. Increasing(q.got) /\ \A i \in DOMAIN q.got : g.last < q.got[i] /\ q.got[i] < q.next
  <2>1. Increasing(p.got) /\ \A i \in DOMAIN p.got : f.last < p.got[i] /\ p.got[i] < p.next
    BY <1>2 DEF Collects
  <2>2. f.last < p.next
    BY <1>2 DEF Collects
  <2>3. CASE ok
    <3>1. /\ Len(Append(p.got, p.next)) = Len(p.got) + 1 /\ Len(p.got) \in Nat
          /\ \A i \in 1 .. Len(p.got) : Append(p.got, p.next)[i] = p.got[i] /\ p.got[i] \in Nat
          /\ Append(p.got, p.next)[Len(p.got) + 1] = p.next
      BY <1>4, AppendedNumber, Zenon
    <3>2. \A i \in DOMAIN q.got : \/ i \in DOMAIN p.got /\ q.got[i] = p.got[i] /\ p.got[i] \in Nat
                                  \/ i = Len(p.got) + 1 /\ q.got[i] = p.next
      BY <1>5, <1>6, <2>3, <3>1
    <3>3. Increasing(q.got)
      <4> SUFFICES ASSUME NEW i \in DOMAIN q.got, NEW j \in DOMAIN q.got, i < j PROVE q.got[i] < q.got[j]
        BY DEF Increasing
      <4>1. i \in DOMAIN p.got /\ q.got[i] = p.got[i]
        BY <1>4, <1>5, <1>6, <2>3, <3>1, <3>2
      <4> QED BY <2>1, <3>2, <4>1 DEF Increasing
    <3>4. \A i \in DOMAIN q.got : f.last < q.got[i] /\ q.got[i] < p.next + 1
      BY <1>4, <2>1, <2>2, <3>2
    <3> QED BY <1>6, <1>7, <3>3, <3>4
  <2>4. CASE ~ok
    <3>1. \A i \in DOMAIN p.got : p.got[i] \in Nat
      BY <1>4
    <3> QED BY <1>4, <1>6, <1>7, <2>1, <2>4, <3>1
  <2> QED BY <2>3, <2>4
<1>11. (g.last + 1) .. (q.next - 1) \subseteq Range(q.got) \union g.lost
  <2>1. (f.last + 1) .. (p.next - 1) \subseteq Range(p.got) \union f.lost
    BY <1>2 DEF Collects
  <2>2. Range(q.got) \union g.lost = Range(p.got) \union f.lost \union {p.next}
    BY <1>5, <1>6, <1>7
  <2> QED BY <1>4, <1>6, <1>7, <2>1, <2>2
<1>12. Collects(q, g)
  <2>1. g.last < q.next /\ q.next <= q.number + 1
    BY <1>1, <1>2, <1>4, <1>6, <1>7 DEF Collects
  <2> QED BY <1>10, <1>11, <2>1 DEF Collects
<1>13. PollCollects'
  <2>1. filters \in Seq(FilterRecords \union {None})
    BY DEF FiltersInv, FiltersDeliver
  <2>2. poll' = q /\ q.id \in DOMAIN filters' /\ filters'[q.id] = g
    BY <1>1, <1>2, <1>3, <1>6, <2>1
  <2>3. g # None
    BY <1>7 DEF FiltersConstants
  <2>4. q.id \in Installed' /\ Polled' = g
    BY <2>2, <2>3 DEF Installed, Polled
  <2> QED BY <1>1, <1>2, <1>6, <1>12, <2>2, <2>4 DEF PollCollects
<1> QED BY <1>1, <1>9, <1>13 DEF FiltersInv

LEMMA PollBlocksEndInv == ASSUME FiltersConstants, FiltersInv, PollBlocksEnd PROVE FiltersInv'
<1> DEFINE f == Polled
           g == Delivered(f)
           end == IF poll.number > f.last THEN poll.number ELSE f.last
<1>1. poll # None /\ f.kind = "block" /\ poll.next > poll.number /\ poll' = None /\ UNCHANGED <<head, polls>>
  BY DEF PollBlocksEnd
<1>2. /\ f \in FilterRecords /\ Delivers(f) /\ f.last <= head + 1 /\ f = filters[poll.id] /\ poll.id \in DOMAIN filters
      /\ poll \in PollRecords /\ poll.number <= head /\ head \in Nat /\ Collects(poll, f)
  BY <1>1, PolledIs
<1>3. filters' = [filters EXCEPT ![poll.id] = g]
  BY <1>2 DEF PollBlocksEnd
<1>4. /\ f.last \in Nat /\ f.start \in Nat /\ f.got \in Seq(Nat) /\ f.lost \in SUBSET Nat
      /\ poll.number \in Nat /\ poll.next \in Nat /\ poll.got \in Seq(Nat)
  BY <1>2, Zenon DEF FilterRecords, PollRecords
<1>5. f.got \o poll.got \in Seq(Nat) /\ Range(f.got \o poll.got) = Range(f.got) \union Range(poll.got)
  BY <1>4, JoinedRange
<1>6. /\ g \in FilterRecords /\ g.kind = "block" /\ g.start = f.start /\ g.lost = f.lost /\ g.got = f.got \o poll.got
      /\ g.last = IF poll.number > f.last THEN poll.number ELSE f.last
  <2>1. g = [[f EXCEPT !.got = f.got \o poll.got] EXCEPT !.last = end]
    BY DEF Delivered
  <2>2. [f EXCEPT !.got = f.got \o poll.got] \in FilterRecords
    BY <1>2, <1>5 DEF FilterRecords
  <2> QED BY <1>1, <1>2, <1>4, <2>1, <2>2 DEF FilterRecords
<1> HIDE DEF g, f
<1>7. BlocksDelivered(f) /\ Collects(poll, f)
  BY <1>1, <1>2 DEF Delivers
<1>8. poll.next = g.last + 1
  <2>1. f.last < poll.next /\ (poll.next > f.last + 1 => poll.next <= poll.number + 1)
    BY <1>7 DEF Collects
  <2> QED BY <1>1, <1>4, <1>6, <2>1
<1>9. Increasing(g.got)
  BY <1>4, <1>6, <1>7, JoinedIncreasing DEF BlocksDelivered, Collects
<1>10. \A i \in DOMAIN g.got : g.got[i] <= g.last
  <2>1. \A n \in Range(f.got) : n <= f.last
    BY <1>7 DEF BlocksDelivered, Range
  <2>2. \A n \in Range(poll.got) : n < poll.next
    BY <1>7 DEF Collects, Range
  <2> TAKE i \in DOMAIN g.got
  <2>3. g.got[i] \in Range(f.got) \union Range(poll.got) /\ g.got[i] \in Nat
    <3>1. g.got \in Seq(Nat)
      BY <1>5, <1>6
    <3>2. g.got[i] \in Range(g.got)
      BY DEF Range
    <3>3. g.got[i] \in Nat
      BY <3>1
    <3> QED BY <1>5, <1>6, <3>2, <3>3, Zenon
  <2>4. CASE g.got[i] \in Range(f.got)
    <3>1. g.got[i] <= f.last
      BY <2>1, <2>4, Zenon
    <3>2. f.last <= g.last /\ f.last \in Nat /\ g.last \in Nat
      BY <1>4, <1>6
    <3>3. PICK n \in Nat : n = g.got[i]
      BY <2>3
    <3> QED BY <3>1, <3>2, <3>3
  <2>5. CASE g.got[i] \in Range(poll.got)
    <3>1. PICK n \in Nat : n = g.got[i]
      BY <2>3
    <3>2. n < poll.next
      BY <3>1, <2>2, <2>5
    <3>3. g.last \in Nat
      BY <1>4, <1>6
    <3>4. n <= g.last
      BY <3>2, <3>3, <1>8
    <3> QED BY <3>1, <3>4
  <2> QED BY <2>3, <2>4, <2>5
<1>11. (g.start + 1) .. g.last \subseteq Range(g.got) \union g.lost
  <2>1. (f.start + 1) .. f.last \subseteq Range(f.got) \union f.lost
    BY <1>7 DEF BlocksDelivered
  <2>2. (f.last + 1) .. g.last \subseteq Range(poll.got) \union f.lost
    <3>1. poll.next - 1 = g.last
      BY <1>4, <1>6, <1>8
    <3> QED BY <1>7, <3>1 DEF Collects
  <2>3. Range(g.got) \union g.lost = Range(f.got) \union Range(poll.got) \union f.lost
    BY <1>5, <1>6
  <2>4. ASSUME NEW n \in (f.start + 1) .. g.last PROVE n \in (f.start + 1) .. f.last \/ n \in (f.last + 1) .. g.last
    BY <1>4, <1>6
  <2> QED BY <1>6, <2>1, <2>2, <2>3, <2>4
<1>12. Delivers(g)
  <2>1. BlocksDelivered(g)
    BY <1>9, <1>10, <1>11 DEF BlocksDelivered
  <2> QED BY <1>6, <2>1 DEF Delivers
<1>13. g.last <= head + 1
  BY <1>2, <1>4, <1>6
<1>14. FiltersDeliver'
  BY <1>1, <1>3, <1>6, <1>12, <1>13, PolledDelivers
<1> QED BY <1>1, <1>14 DEF FiltersInv, PollCollects

LEMMA MineInv == ASSUME FiltersConstants, FiltersInv, Mine PROVE FiltersInv'
<1>1. head < MaxHead /\ head' = head + 1 /\ UNCHANGED <<filters, poll, polls>>
  BY DEF Mine
<1>2. head \in Nat /\ head' \in 0 .. MaxHead
  BY <1>1 DEF FiltersInv, FiltersConstants
<1>3. FiltersDeliver'
  <2>1. \A id \in Installed : filters[id].last \in Nat
    BY DEF FiltersInv, FiltersDeliver, Installed, FilterRecords
  <2> QED BY <1>1, <1>2, <2>1 DEF FiltersInv, FiltersDeliver, Installed
<1>4. PollCollects'
  <2>1. poll # None => poll.number \in Nat
    BY DEF FiltersInv, PollCollects, PollRecords
  <2> QED BY <1>1, <1>2, <2>1 DEF FiltersInv, PollCollects, Installed, Polled
<1> QED BY <1>1, <1>2, <1>3, <1>4 DEF FiltersInv

LEMMA NextFiltersInv == ASSUME FiltersConstants, FiltersInv, [FiltersNext]_filterVars PROVE FiltersInv'
<1>1. ASSUME NEW current \in Heads, NEW from \in Froms, NewFilter("event", from, current) PROVE FiltersInv'
  BY <1>1, NewFilterInv DEF Kinds, FiltersConstants
<1>2. ASSUME NEW current \in Heads, NewFilter("block", None, current) PROVE FiltersInv'
  BY <1>2, NewFilterInv DEF Kinds
<1>3. ASSUME NEW current \in Heads, NEW id \in DOMAIN filters, PollNumber(id, current) PROVE FiltersInv'
  BY <1>3, PollNumberInv
<1>4. ASSUME NEW id \in DOMAIN filters, Uninstall(id) PROVE FiltersInv'
  BY <1>4, UninstallInv
<1>5. ASSUME NEW ok \in BOOLEAN, PollBlock(ok) PROVE FiltersInv'
  BY <1>5, PollBlockInv
<1>6. CASE UNCHANGED filterVars
  BY <1>6 DEF filterVars, FiltersInv, FiltersDeliver, PollCollects, Installed, Polled
<1> QED
  BY <1>1, <1>2, <1>3, <1>4, <1>5, <1>6, PollLogsInv, PollLogsFailsInv, PollBlocksEndInv, MineInv
  DEF FiltersNext

\* For every chain and however it grows during a poll, whichever calls fail and however far the
\* numbers that nodes answer go back and forth: no event since a filter was made (or its
\* fromBlock) is missed, and a block filter delivers every block whose own request did not fail,
\* once and in order (filter_get_changes, filter_opt_set_fromBlock).
THEOREM NothingIsMissed == FiltersSpec => []PollsAreComplete
<1>1. FiltersInit => FiltersInv
  BY FiltersAssumption, InitFiltersInv
<1>2. FiltersInv /\ [FiltersNext]_filterVars => FiltersInv'
  BY FiltersAssumption, NextFiltersInv
<1>3. FiltersInv => PollsAreComplete
  <2> SUFFICES ASSUME FiltersInv PROVE PollsAreComplete
    OBVIOUS
  <2>1. \A id \in Installed : filters[id] \in FilterRecords /\ Delivers(filters[id]) /\ filters[id].last <= head + 1
    BY DEF FiltersInv, FiltersDeliver, Installed
  <2>2. FiltersTypeOK
    <3>1. \A id \in Installed : filters[id].kind \in Kinds /\ filters[id].last \in 0 .. MaxHead + 1
      BY <2>1, FiltersAssumption DEF FilterRecords, FiltersInv, FiltersConstants
    <3> QED BY <3>1 DEF FiltersTypeOK, FiltersInv, FiltersDeliver, PollCollects
  <2>3. NoEventIsMissed
    BY <2>1 DEF NoEventIsMissed, Delivers, EventsDelivered, Since
  <2>4. BlocksComeOnce
    BY <2>1 DEF BlocksComeOnce, Delivers, BlocksDelivered, Increasing
  <2> QED BY <2>2, <2>3, <2>4 DEF PollsAreComplete
<1> QED BY <1>1, <1>2, <1>3, PTL DEF FiltersSpec
=============================================================================
