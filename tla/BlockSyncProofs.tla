--------------------------- MODULE BlockSyncProofs ---------------------------
(***************************************************************************)
(* Proofs about BlockSync, for every set of branches, every limit of       *)
(* headers above one and any number of reorganisations and restarts.       *)
(***************************************************************************)
EXTENDS BlockSync, SequenceTheorems, WellFoundedInduction, TLAPS

-----------------------------------------------------------------------------
(* The inductive invariant.                                                *)

\* Where a queue holds requests or answers for headers.
HeadersAt(s) == {i \in DOMAIN s : s[i].type = "headers"}

\* Only an open connection carries messages, and a process begins with none, outside a sync.
ClosedIsEmpty ==
  /\ link # "open" => requests = <<>> /\ answers = <<>> /\ inbox = <<>>
  /\ link = "down" => ~syncing /\ lastSynced = None

\* A sync is one request for headers, in one of the three places.
OneRequest ==
  link = "open" =>
    /\ syncing <=> (\/ HeadersAt(requests) # {}
                    \/ HeadersAt(answers) # {}
                    \/ HeadersAt(inbox) # {})
    /\ \A i, j \in HeadersAt(requests) : i = j
    /\ \A i, j \in HeadersAt(answers) : i = j
    /\ \A i, j \in HeadersAt(inbox) : i = j
    /\ HeadersAt(requests) = {} \/ HeadersAt(answers) = {}
    /\ HeadersAt(requests) = {} \/ HeadersAt(inbox) = {}
    /\ HeadersAt(answers) = {} \/ HeadersAt(inbox) = {}

\* The peer's headers follow each other's height, up or down from the one asked for.
Shaped(m) ==
  \A i \in DOMAIN m.headers :
    Len(m.headers[i]) = IF m.task.reverse THEN Len(m.task.from) - i + 1
                        ELSE Len(m.task.from) + i - 1

\* Until the peer's chain shrinks its head is as high as all it has told.
Below(m) == ~shrunk => \A i \in DOMAIN m.headers : Len(m.headers[i]) <= Len(head)

AnswersFollow ==
  /\ \A k \in HeadersAt(answers) : Shaped(answers[k]) /\ Below(answers[k])
  /\ \A k \in HeadersAt(inbox) : Shaped(inbox[k]) /\ Below(inbox[k])

RowsBelow == ~shrunk => \A b \in rows : Len(b) <= Len(head)

\* What is asked for starts at a stored header and reaches above the last one.
Reaches(task) ==
  /\ task.from \in rows \/ (rows = {} /\ task.from = Checkpoint)
  /\ IF task.reverse THEN task.from = lastBlockHeader
     ELSE \A b \in rows : Len(b) <= Len(task.from) + Limit - 1

\* So does what is answered.
Covers(m) ==
  /\ Reaches(m.task)
  /\ ~m.task.reverse => \A b \in rows : Len(b) <= Len(m.task.from) + Len(m.headers) - 1

SyncReaches ==
  ~shrunk /\ ~forkedAgain =>
    /\ \A k \in HeadersAt(requests) : Reaches(requests[k].task)
    /\ \A k \in HeadersAt(answers) : Covers(answers[k])
    /\ \A k \in HeadersAt(inbox) : Covers(inbox[k])

\* The proof asked for last is that of the header last synced to.
NoProofIn(s) == \A i \in DOMAIN s : s[i].type # "proof"
LastProofIn(s, b) ==
  \E i \in DOMAIN s : /\ s[i].type = "proof" /\ s[i].task = b
                      /\ \A j \in DOMAIN s : s[j].type = "proof" => j <= i

LastProofIsNewest ==
  link = "open" /\ ~overtaken /\ lastSynced # None =>
    \/ LastProofIn(requests, lastSynced)
    \/ NoProofIn(requests) /\ LastProofIn(answers, lastSynced)
    \/ NoProofIn(requests) /\ NoProofIn(answers) /\ LastProofIn(inbox, lastSynced)
    \/ NoProofIn(requests) /\ NoProofIn(answers) /\ NoProofIn(inbox) /\ account = lastSynced

SyncInv ==
  /\ TypeOK /\ ClosedIsEmpty /\ OneRequest
  /\ AnswersFollow /\ RowsBelow /\ SyncReaches /\ HeadersLinked
  /\ LastProofIsNewest
-----------------------------------------------------------------------------
(* Headers, their heights, and the highest and lowest of a set of them.    *)

LEMMA HeadersAreSequences ==
  \A b : b \in Headers <=> b \in Seq(Branches) /\ Len(b) <= MaxHeight
<1>1. MaxHeight \in Nat
  BY BoundsAssumption
<1>2. ASSUME NEW b \in Headers PROVE b \in Seq(Branches) /\ Len(b) <= MaxHeight
  <2>1. PICK n \in 0..MaxHeight : b \in [1..n -> Branches]
    BY <1>2 DEF Headers
  <2>2. b \in Seq(Branches)
    BY <1>1, <2>1, SeqDef
  <2>3. Len(b) = n
    BY <1>1, <2>1, <2>2, LenProperties
  <2> QED BY <2>1, <2>2, <2>3
<1>3. ASSUME NEW b \in Seq(Branches), Len(b) <= MaxHeight PROVE b \in Headers
  <2>1. Len(b) \in 0..MaxHeight /\ b \in [1..Len(b) -> Branches]
    BY <1>1, <1>3, LenProperties
  <2> QED BY <2>1 DEF Headers
<1> QED BY <1>2, <1>3

LEMMA HeaderHeight == \A b \in Headers : Len(b) \in Nat /\ Len(b) <= MaxHeight
  BY HeadersAreSequences, LenProperties

LEMMA CheckpointIsHeader == Checkpoint \in Headers /\ Len(Checkpoint) = 0
<1>1. Checkpoint \in Seq(Branches) /\ Len(Checkpoint) = 0
  BY EmptySeq DEF Checkpoint
<1>2. Len(Checkpoint) <= MaxHeight
  BY <1>1, BoundsAssumption
<1> QED BY <1>1, <1>2, HeadersAreSequences

LEMMA OnlyCheckpointIsEmpty == \A b \in Headers : Len(b) = 0 => b = Checkpoint
<1> SUFFICES ASSUME NEW b \in Headers, Len(b) = 0 PROVE b = Checkpoint
  OBVIOUS
<1>1. b \in Seq(Branches)
  BY HeadersAreSequences
<1> QED BY <1>1, EmptySeq DEF Checkpoint

\* An ancestor is a header of the height asked for.
LEMMA AncestorIsHeader ==
  ASSUME NEW b \in Headers, NEW n \in Nat, n <= Len(b)
  PROVE  Ancestor(b, n) \in Headers /\ Len(Ancestor(b, n)) = n
<1>1. b \in Seq(Branches) /\ Len(b) \in Nat /\ Len(b) <= MaxHeight
  BY HeadersAreSequences, HeaderHeight
<1>2. \A i \in 1..n : b[i] \in Branches
  BY <1>1, ElementOfSeq
<1>3. SubSeq(b, 1, n) \in Seq(Branches) /\ Len(SubSeq(b, 1, n)) = n
  BY <1>2, SubSeqProperties
<1>4. MaxHeight \in Nat /\ n <= MaxHeight
  BY <1>1, BoundsAssumption
<1> QED BY <1>3, <1>4, HeadersAreSequences DEF Ancestor

\* A header above the checkpoint is one higher than its parent.
LEMMA ParentIsBelow ==
  ASSUME NEW b \in Headers, b # Checkpoint
  PROVE  Parent(b) \in Headers /\ Len(Parent(b)) = Len(b) - 1
<1>1. Len(b) \in Nat /\ Len(b) # 0
  BY HeaderHeight, OnlyCheckpointIsEmpty
<1>2. Len(b) - 1 \in Nat /\ Len(b) - 1 <= Len(b)
  BY <1>1
<1>3. Parent(b) = Ancestor(b, Len(b) - 1)
  BY DEF Parent, Ancestor
<1> QED BY <1>2, <1>3, AncestorIsHeader

LEMMA SmallestOfNaturals ==
  ASSUME NEW T, T \subseteq Nat, T # {}
  PROVE  \E x \in T : \A y \in T : x <= y
<1> DEFINE Less == {p \in Nat \X Nat : p[1] < p[2]}
<1>1. IsWellFoundedOn(Less, Nat)
  BY NatLessThanWellFounded DEF OpToRel
<1>2. PICK x \in T : \A y \in T : ~ (<<y, x>> \in Less)
  <2> HIDE DEF Less
  <2> QED BY <1>1, WFMin
<1>3. ASSUME NEW y \in T PROVE x <= y
  <2>1. x \in Nat /\ y \in Nat /\ <<y, x>> \in Nat \X Nat
    BY <1>3
  <2>2. ~(y < x)
    BY <1>2, <2>1
  <2> QED BY <2>1, <2>2
<1> QED BY <1>3

LEMMA LowestIsLowest ==
  ASSUME NEW S \in SUBSET Headers, S # {}
  PROVE  Lowest(S) \in S /\ \A c \in S : Len(Lowest(S)) <= Len(c)
<1> DEFINE Heights == {Len(b) : b \in S}
<1>1. Heights \subseteq Nat /\ Heights # {}
  BY HeaderHeight
<1>2. PICK x \in Heights : \A y \in Heights : x <= y
  <2> HIDE DEF Heights
  <2> QED BY <1>1, SmallestOfNaturals
<1>3. \E b \in S : \A c \in S : Len(b) <= Len(c)
  BY <1>2
<1> QED BY <1>3 DEF Lowest

LEMMA LastIsHighest ==
  ASSUME rows \subseteq Headers
  PROVE  /\ lastBlockHeader \in Headers
         /\ rows = {} => lastBlockHeader = Checkpoint
         /\ rows # {} => lastBlockHeader \in rows
         /\ \A c \in rows : Len(c) <= Len(lastBlockHeader)
<1>1. CASE rows = {}
  BY <1>1, CheckpointIsHeader DEF lastBlockHeader
<1>2. CASE rows # {}
  <2> DEFINE Depths == {MaxHeight - Len(b) : b \in rows}
  <2>1. Depths \subseteq Nat /\ Depths # {}
    BY <1>2, HeaderHeight, BoundsAssumption
  <2>2. PICK x \in Depths : \A y \in Depths : x <= y
    <3> HIDE DEF Depths
    <3> QED BY <2>1, SmallestOfNaturals
  <2>3. PICK b \in rows : x = MaxHeight - Len(b)
    BY <2>2
  <2>4. ASSUME NEW c \in rows PROVE Len(c) <= Len(b)
    <3>1. x <= MaxHeight - Len(c)
      BY <2>2, <2>4
    <3> QED BY <2>3, <3>1, HeaderHeight, BoundsAssumption
  <2>5. \E d \in rows : \A c \in rows : Len(c) <= Len(d)
    BY <2>4
  <2>6. lastBlockHeader = CHOOSE d \in rows : \A c \in rows : Len(c) <= Len(d)
    BY <1>2 DEF lastBlockHeader
  <2>7. lastBlockHeader \in rows /\ \A c \in rows : Len(c) <= Len(lastBlockHeader)
    BY <2>5, <2>6
  <2> QED BY <1>2, <2>7
<1> QED BY <1>1, <1>2

-----------------------------------------------------------------------------
(* Queues.                                                                 *)

\* What Answer leaves of the requests.
Without(s, i) == SubSeq(s, 1, i - 1) \o SubSeq(s, i + 1, Len(s))

LEMMA WithoutProperties ==
  ASSUME NEW T, NEW s \in Seq(T), NEW i \in 1..Len(s)
  PROVE  /\ Without(s, i) \in Seq(T)
         /\ Len(Without(s, i)) = Len(s) - 1
         /\ DOMAIN Without(s, i) = 1..(Len(s) - 1)
         /\ \A k \in 1..(Len(s) - 1) : Without(s, i)[k] = IF k < i THEN s[k] ELSE s[k + 1]
<1> DEFINE front == SubSeq(s, 1, i - 1)
           back == SubSeq(s, i + 1, Len(s))
<1>1. Len(s) \in Nat /\ \A k \in 1..Len(s) : s[k] \in T
  BY LenProperties, ElementOfSeq
<1>2. \A k \in 1..(i - 1) : s[k] \in T
  BY <1>1
<1>3. /\ front \in Seq(T) /\ Len(front) = i - 1
      /\ \A k \in 1..(i - 1) : front[k] = s[k]
  <2>1. /\ front \in Seq(T)
        /\ Len(front) = IF 1 <= i - 1 THEN i - 1 - 1 + 1 ELSE 0
        /\ \A k \in 1..(i - 1 - 1 + 1) : front[k] = s[1 + k - 1]
    BY <1>1, <1>2, SubSeqProperties
  <2> QED BY <1>1, <2>1
<1>4. /\ back \in Seq(T) /\ Len(back) = Len(s) - i
      /\ \A k \in 1..(Len(s) - i) : back[k] = s[i + k]
  <2>1. \A k \in (i + 1)..Len(s) : s[k] \in T
    BY <1>1
  <2>2. /\ back \in Seq(T)
        /\ Len(back) = IF i + 1 <= Len(s) THEN Len(s) - (i + 1) + 1 ELSE 0
        /\ \A k \in 1..(Len(s) - (i + 1) + 1) : back[k] = s[i + 1 + k - 1]
    BY <1>1, <2>1, SubSeqProperties
  <2>3. \A k \in Nat : i + 1 + k - 1 = i + k
    BY <1>1
  <2> QED BY <1>1, <2>2, <2>3
<1> HIDE DEF front, back
<1>5. /\ front \o back \in Seq(T)
      /\ Len(front \o back) = Len(front) + Len(back)
      /\ \A k \in 1..(Len(front) + Len(back)) :
            (front \o back)[k] = IF k <= Len(front) THEN front[k] ELSE back[k - Len(front)]
  BY <1>3, <1>4, ConcatProperties
<1>6. Without(s, i) = front \o back
  BY DEF Without, front, back
<1>7. Len(Without(s, i)) = Len(s) - 1
  <2>1. Len(front) + Len(back) = Len(s) - 1
    BY <1>1, <1>3, <1>4
  <2> QED BY <1>5, <1>6, <2>1
<1>8. ASSUME NEW k \in 1..(Len(s) - 1)
      PROVE  Without(s, i)[k] = IF k < i THEN s[k] ELSE s[k + 1]
  <2>1. CASE k < i
    <3>1. k \in 1..(i - 1) /\ k <= Len(front) /\ k \in 1..(Len(front) + Len(back))
      BY <1>1, <1>3, <1>4, <2>1
    <3> QED BY <1>3, <1>5, <1>6, <2>1, <3>1
  <2>2. CASE ~(k < i)
    <3>1. /\ k - (i - 1) \in 1..(Len(s) - i) /\ ~(k <= Len(front))
          /\ k \in 1..(Len(front) + Len(back)) /\ i + (k - (i - 1)) = k + 1
      BY <1>1, <1>3, <1>4, <2>2
    <3> QED BY <1>3, <1>4, <1>5, <1>6, <2>2, <3>1
  <2> QED BY <2>1, <2>2
<1> QED BY <1>5, <1>6, <1>7, <1>8, LenProperties

LEMMA TailProperties ==
  ASSUME NEW T, NEW s \in Seq(T), s # <<>>
  PROVE  /\ Tail(s) \in Seq(T)
         /\ Len(s) \in Nat \ {0} /\ DOMAIN s = 1..Len(s)
         /\ DOMAIN Tail(s) = 1..(Len(s) - 1)
         /\ \A k \in 1..(Len(s) - 1) : Tail(s)[k] = s[k + 1]
         /\ Head(s) = s[1] /\ 1 \in DOMAIN s /\ Head(s) \in T
<1>1. Len(s) \in Nat \ {0} /\ DOMAIN s = 1..Len(s)
  BY EmptySeq, LenProperties
<1>2. /\ Tail(s) \in Seq(T) /\ Len(Tail(s)) = Len(s) - 1 /\ Head(s) \in T
      /\ \A k \in 1..Len(Tail(s)) : Tail(s)[k] = s[k + 1]
  BY HeadTailProperties
<1>3. Head(s) = s[1]
  BY DEF Head
<1> QED BY <1>1, <1>2, <1>3, LenProperties

LEMMA AppendedProperties ==
  ASSUME NEW T, NEW s \in Seq(T), NEW m \in T
  PROVE  /\ Append(s, m) \in Seq(T)
         /\ Len(s) \in Nat /\ DOMAIN s = 1..Len(s)
         /\ DOMAIN Append(s, m) = 1..(Len(s) + 1)
         /\ \A k \in DOMAIN s : Append(s, m)[k] = s[k]
         /\ Append(s, m)[Len(s) + 1] = m
         /\ s \o <<m>> = Append(s, m)
  BY AppendProperties, LenProperties, AppendIsConcat

\* What a queue still holds for headers after it lost or got a message.
LEMMA HeadersWithout ==
  ASSUME NEW T, NEW s \in Seq(T), NEW i \in 1..Len(s)
  PROVE  HeadersAt(Without(s, i)) =
           {k \in 1..(Len(s) - 1) : (IF k < i THEN k ELSE k + 1) \in HeadersAt(s)}
<1>1. Len(s) \in Nat /\ DOMAIN s = 1..Len(s)
  BY LenProperties
<1>2. ASSUME NEW k \in 1..(Len(s) - 1)
      PROVE  k \in HeadersAt(Without(s, i)) <=> (IF k < i THEN k ELSE k + 1) \in HeadersAt(s)
  <2>1. k \in DOMAIN Without(s, i) /\ Without(s, i)[k] = s[IF k < i THEN k ELSE k + 1]
    BY <1>2, WithoutProperties
  <2>2. (IF k < i THEN k ELSE k + 1) \in DOMAIN s
    BY <1>1, <1>2
  <2> QED BY <2>1, <2>2 DEF HeadersAt
<1>3. HeadersAt(Without(s, i)) \subseteq 1..(Len(s) - 1)
  BY WithoutProperties DEF HeadersAt
<1> QED BY <1>2, <1>3

LEMMA HeadersOfTail ==
  ASSUME NEW T, NEW s \in Seq(T), s # <<>>
  PROVE  HeadersAt(Tail(s)) = {k \in 1..(Len(s) - 1) : k + 1 \in HeadersAt(s)}
<1> USE TailProperties
<1>1. ASSUME NEW k \in 1..(Len(s) - 1)
      PROVE  k \in HeadersAt(Tail(s)) <=> k + 1 \in HeadersAt(s)
  BY <1>1 DEF HeadersAt
<1>2. HeadersAt(Tail(s)) \subseteq 1..(Len(s) - 1)
  BY DEF HeadersAt
<1> QED BY <1>1, <1>2

LEMMA HeadersOfAppend ==
  ASSUME NEW T, NEW s \in Seq(T), NEW m \in T
  PROVE  HeadersAt(Append(s, m)) =
           HeadersAt(s) \union (IF m.type = "headers" THEN {Len(s) + 1} ELSE {})
<1>1. ASSUME NEW k \in 1..(Len(s) + 1)
      PROVE  k \in HeadersAt(Append(s, m)) <=>
               k \in HeadersAt(s) \/ (m.type = "headers" /\ k = Len(s) + 1)
  BY <1>1, AppendedProperties DEF HeadersAt
<1>2. HeadersAt(Append(s, m)) \subseteq 1..(Len(s) + 1)
  BY AppendedProperties DEF HeadersAt
<1>3. HeadersAt(s) \subseteq 1..(Len(s) + 1)
  BY AppendedProperties DEF HeadersAt
<1>4. Len(s) + 1 \in 1..(Len(s) + 1)
  BY AppendedProperties
<1> QED BY <1>1, <1>2, <1>3, <1>4

\* The last proof in a queue stays the last, or it was what the queue lost.
LEMMA ProofsOfTail ==
  ASSUME NEW T, NEW s \in Seq(T), s # <<>>, NEW b
  PROVE  /\ NoProofIn(s) => NoProofIn(Tail(s))
         /\ LastProofIn(s, b) =>
              \/ LastProofIn(Tail(s), b)
              \/ Head(s).type = "proof" /\ Head(s).task = b /\ NoProofIn(Tail(s))
<1> USE TailProperties
<1>1. NoProofIn(s) => NoProofIn(Tail(s))
  BY DEF NoProofIn
<1>2. ASSUME LastProofIn(s, b), ~ LastProofIn(Tail(s), b)
      PROVE  Head(s).type = "proof" /\ Head(s).task = b /\ NoProofIn(Tail(s))
  <2>1. PICK i \in DOMAIN s : /\ s[i].type = "proof" /\ s[i].task = b
                              /\ \A j \in DOMAIN s : s[j].type = "proof" => j <= i
    BY <1>2 DEF LastProofIn
  <2>2. i = 1
    <3> SUFFICES ASSUME i # 1 PROVE FALSE
      OBVIOUS
    <3>1. i - 1 \in DOMAIN Tail(s) /\ Tail(s)[i - 1] = s[i]
      BY <2>1
    <3>2. ASSUME NEW j \in DOMAIN Tail(s), Tail(s)[j].type = "proof" PROVE j <= i - 1
      <4>1. j + 1 \in DOMAIN s /\ s[j + 1].type = "proof"
        BY <3>2
      <4> QED BY <2>1, <4>1, <3>2
    <3> QED BY <1>2, <2>1, <3>1, <3>2 DEF LastProofIn
  <2>3. ASSUME NEW j \in DOMAIN Tail(s), Tail(s)[j].type = "proof" PROVE FALSE
    <3>1. j + 1 \in DOMAIN s /\ s[j + 1].type = "proof"
      BY <2>3
    <3>2. j + 1 <= 1
      BY <2>1, <2>2, <3>1
    <3> QED BY <2>3, <3>2
  <2> QED BY <2>1, <2>2, <2>3 DEF NoProofIn
<1> QED BY <1>1, <1>2

LEMMA ProofsOfAppend ==
  ASSUME NEW T, NEW s \in Seq(T), NEW m \in T, NEW b
  PROVE  /\ m.type # "proof" /\ NoProofIn(s) => NoProofIn(Append(s, m))
         /\ m.type # "proof" /\ LastProofIn(s, b) => LastProofIn(Append(s, m), b)
         /\ m.type = "proof" /\ m.task = b => LastProofIn(Append(s, m), b)
<1> USE AppendedProperties
<1>1. ASSUME m.type # "proof", NoProofIn(s) PROVE NoProofIn(Append(s, m))
  <2>1. ASSUME NEW j \in DOMAIN Append(s, m) PROVE Append(s, m)[j].type # "proof"
    <3>1. j \in DOMAIN s \/ j = Len(s) + 1
      BY <2>1
    <3> QED BY <1>1, <3>1 DEF NoProofIn
  <2> QED BY <2>1 DEF NoProofIn
<1>2. ASSUME m.type # "proof", LastProofIn(s, b) PROVE LastProofIn(Append(s, m), b)
  <2>1. PICK i \in DOMAIN s : /\ s[i].type = "proof" /\ s[i].task = b
                              /\ \A j \in DOMAIN s : s[j].type = "proof" => j <= i
    BY <1>2 DEF LastProofIn
  <2>2. i \in DOMAIN Append(s, m) /\ Append(s, m)[i] = s[i]
    BY <2>1
  <2>3. ASSUME NEW j \in DOMAIN Append(s, m), Append(s, m)[j].type = "proof" PROVE j <= i
    <3>1. j \in DOMAIN s \/ j = Len(s) + 1
      BY <2>3
    <3> QED BY <1>2, <2>1, <2>3, <3>1
  <2> QED BY <2>1, <2>2, <2>3 DEF LastProofIn
<1>3. ASSUME m.type = "proof", m.task = b PROVE LastProofIn(Append(s, m), b)
  <2>1. Len(s) + 1 \in DOMAIN Append(s, m) /\ Append(s, m)[Len(s) + 1] = m
    OBVIOUS
  <2>2. \A j \in DOMAIN Append(s, m) : j <= Len(s) + 1
    OBVIOUS
  <2> QED BY <1>3, <2>1, <2>2 DEF LastProofIn
<1> QED BY <1>1, <1>2, <1>3

LEMMA ProofsWithout ==
  ASSUME NEW T, NEW s \in Seq(T), NEW i \in 1..Len(s), NEW b
  PROVE  /\ NoProofIn(s) => NoProofIn(Without(s, i))
         /\ LastProofIn(s, b) =>
              \/ LastProofIn(Without(s, i), b)
              \/ /\ s[i].type = "proof" /\ s[i].task = b
                 /\ (\A j \in 1..(i - 1) : s[j].type # "proof") => NoProofIn(Without(s, i))
<1>1. Len(s) \in Nat /\ DOMAIN s = 1..Len(s)
  BY LenProperties
<1>0. /\ DOMAIN Without(s, i) = 1..(Len(s) - 1)
      /\ \A k \in 1..(Len(s) - 1) : Without(s, i)[k] = IF k < i THEN s[k] ELSE s[k + 1]
  BY WithoutProperties
<1>2. NoProofIn(s) => NoProofIn(Without(s, i))
  BY <1>0, <1>1 DEF NoProofIn
<1>3. ASSUME LastProofIn(s, b), ~ LastProofIn(Without(s, i), b)
      PROVE  /\ s[i].type = "proof" /\ s[i].task = b
             /\ (\A j \in 1..(i - 1) : s[j].type # "proof") => NoProofIn(Without(s, i))
  <2>1. PICK n \in DOMAIN s : /\ s[n].type = "proof" /\ s[n].task = b
                              /\ \A j \in DOMAIN s : s[j].type = "proof" => j <= n
    BY <1>3 DEF LastProofIn
  <2>2. n = i
    <3> SUFFICES ASSUME n # i PROVE FALSE
      OBVIOUS
    <3> DEFINE p == IF n < i THEN n ELSE n - 1
    <3>1. p \in DOMAIN Without(s, i) /\ Without(s, i)[p] = s[n]
      <4>1. CASE n < i
        BY <1>0, <1>1, <2>1, <4>1
      <4>2. CASE n > i
        <5>1. n - 1 \in 1..(Len(s) - 1) /\ ~(n - 1 < i) /\ (n - 1) + 1 = n
          BY <1>0, <1>1, <2>1, <4>2
        <5> QED BY <1>0, <4>2, <5>1
      <4> QED BY <1>0, <1>1, <2>1, <4>1, <4>2
    <3>2. ASSUME NEW j \in DOMAIN Without(s, i), Without(s, i)[j].type = "proof"
          PROVE  j <= p
      <4>1. CASE j < i
        <5>1. j \in DOMAIN s /\ s[j].type = "proof"
          BY <1>0, <1>1, <3>2, <4>1
        <5>2. j <= n
          BY <2>1, <5>1
        <5> QED BY <1>0, <1>1, <2>1, <3>2, <4>1, <5>2
      <4>2. CASE ~(j < i)
        <5>1. j + 1 \in DOMAIN s /\ s[j + 1].type = "proof"
          BY <1>0, <1>1, <3>2, <4>2
        <5>2. j + 1 <= n
          BY <2>1, <5>1
        <5> QED BY <1>0, <1>1, <2>1, <3>2, <4>2, <5>2
      <4> QED BY <4>1, <4>2
    <3> HIDE DEF p
    <3> QED BY <1>3, <2>1, <3>1, <3>2 DEF LastProofIn
  <2>3. ASSUME \A j \in 1..(i - 1) : s[j].type # "proof",
               NEW j \in DOMAIN Without(s, i), Without(s, i)[j].type = "proof"
        PROVE  FALSE
    <3>1. CASE j < i
      <4>1. j \in 1..(i - 1) /\ s[j].type = "proof"
        BY <1>0, <1>1, <2>3, <3>1
      <4> QED BY <2>3, <4>1
    <3>2. CASE ~(j < i)
      <4>1. j + 1 \in DOMAIN s /\ s[j + 1].type = "proof"
        BY <1>0, <1>1, <2>3, <3>2
      <4>2. j + 1 <= i
        BY <2>1, <2>2, <4>1
      <4> QED BY <1>0, <1>1, <2>3, <3>2, <4>2
    <3> QED BY <3>1, <3>2
  <2> QED BY <2>1, <2>2, <2>3 DEF NoProofIn
<1> QED BY <1>2, <1>3

-----------------------------------------------------------------------------
(* What requests and messages hold.                                        *)

LEMMA RequestFields ==
  ASSUME NEW r \in Requests
  PROVE  /\ r.type \in {"headers", "proof"}
         /\ r.type = "headers" => r.task \in HeadersTasks
         /\ r.type = "proof" => r.task \in Headers
  BY DEF Requests

LEMMA AskedFields ==
  ASSUME NEW from \in Headers, NEW reverse \in BOOLEAN,
         NEW r, r = [type |-> "headers", task |-> [from |-> from, reverse |-> reverse]]
  PROVE  /\ r \in Requests /\ r.type = "headers"
         /\ r.task.from = from /\ r.task.reverse = reverse
         /\ Ask(from, reverse) = <<r>>
<1>1. r.task \in HeadersTasks
  BY DEF HeadersTasks
<1> QED BY <1>1 DEF Requests, Ask

LEMMA MessageFields ==
  ASSUME NEW m \in Messages
  PROVE  /\ m.type \in {"headers", "proof", "status", "announce"}
         /\ m.type = "headers" =>
              /\ m.task \in HeadersTasks
              /\ m.headers \in Seq(Headers) /\ Len(m.headers) \in Nat
              /\ Len(m.headers) <= Limit /\ DOMAIN m.headers = 1..Len(m.headers)
              /\ \A i \in DOMAIN m.headers : m.headers[i] \in Headers
         /\ m.type = "proof" => m.task \in Headers /\ m.found \in BOOLEAN
         /\ m.type \in {"status", "announce"} => m.head \in Headers
<1>1. m.type \in {"headers", "proof", "status", "announce"}
  BY DEF Messages
<1>2. ASSUME m.type = "headers"
      PROVE  /\ m.task \in HeadersTasks
             /\ m.headers \in UNION {[1..n -> Headers] : n \in 0..Limit}
  BY <1>2 DEF Messages
<1>3. ASSUME m.type = "headers"
      PROVE  /\ m.headers \in Seq(Headers) /\ Len(m.headers) \in Nat
             /\ Len(m.headers) <= Limit /\ DOMAIN m.headers = 1..Len(m.headers)
  <2>1. PICK n \in 0..Limit : m.headers \in [1..n -> Headers]
    BY <1>2, <1>3
  <2>2. n \in Nat /\ n <= Limit
    BY <2>1, LimitAssumption
  <2>3. m.headers \in Seq(Headers)
    BY <2>1, <2>2, SeqDef
  <2>4. Len(m.headers) \in Nat /\ DOMAIN m.headers = 1..Len(m.headers)
    BY <2>3, LenProperties
  <2>5. 1..n = 1..Len(m.headers)
    BY <2>1, <2>4
  <2>6. Len(m.headers) = n
    BY <2>2, <2>4, <2>5
  <2> QED BY <2>2, <2>3, <2>4, <2>6
<1>4. m.type = "headers" => \A i \in DOMAIN m.headers : m.headers[i] \in Headers
  BY <1>3, ElementOfSeq
<1>5. m.type = "proof" => m.task \in Headers /\ m.found \in BOOLEAN
  BY DEF Messages
<1>6. m.type \in {"status", "announce"} => m.head \in Headers
  BY DEF Messages
<1> QED BY <1>1, <1>2, <1>3, <1>4, <1>5, <1>6

LEMMA HeadersMessage ==
  ASSUME NEW m, NEW task \in HeadersTasks, NEW hs \in Seq(Headers), Len(hs) <= Limit,
         m = [type |-> "headers", task |-> task, headers |-> hs]
  PROVE  m \in Messages /\ m.type = "headers" /\ m.task = task /\ m.headers = hs
<1>1. hs \in [1..Len(hs) -> Headers] /\ Len(hs) \in Nat
  BY LenProperties
<1>2. Len(hs) \in 0..Limit
  BY <1>1, LimitAssumption
<1>3. hs \in UNION {[1..n -> Headers] : n \in 0..Limit}
  BY <1>1, <1>2
<1> QED BY <1>3 DEF Messages

-----------------------------------------------------------------------------
(* Steps of the client.                                                    *)

LEMMA TypesKnown ==
  ASSUME TypeOK
  PROVE  /\ requests \in Seq(Requests) /\ answers \in Seq(Messages) /\ inbox \in Seq(Messages)
         /\ rows \subseteq Headers /\ rows \in SUBSET Headers /\ head \in Headers
         /\ lastBlockHeader \in Headers
  BY LastIsHighest DEF TypeOK

LEMMA ReceivedMessage ==
  ASSUME TypeOK, NEW type, Receive(type)
  PROVE  /\ link = "open" /\ inbox # <<>>
         /\ Head(inbox) \in Messages /\ Head(inbox).type = type
         /\ inbox[1] = Head(inbox) /\ 1 \in DOMAIN inbox
         /\ UNCHANGED <<statusTask, head, greeted, reorgs, shrunk, restarts, overtaken>>
  BY TypesKnown, TailProperties DEF Receive, peerVars

\* A handler that goes on takes its message and adds a request or none.
LEMMA ProceedTypes ==
  ASSUME TypeOK, inbox # <<>>,
         NEW q, q = <<>> \/ (\E r \in Requests : q = <<r>>), Proceed(q)
  PROVE  /\ requests' \in Seq(Requests) /\ answers' \in Seq(Messages) /\ inbox' \in Seq(Messages)
         /\ link' = link /\ answers' = answers /\ inbox' = Tail(inbox)
<1>1. link' = link /\ answers' = answers /\ inbox' = Tail(inbox) /\ requests' = requests \o q
  BY DEF Proceed
<1>2. answers' \in Seq(Messages) /\ inbox' \in Seq(Messages)
  BY <1>1, TypesKnown, TailProperties
<1>3. CASE q = <<>>
  BY <1>1, <1>2, <1>3, TypesKnown, ConcatEmptySeq
<1>4. ASSUME NEW r \in Requests, q = <<r>> PROVE requests' \in Seq(Requests)
  BY <1>1, <1>4, TypesKnown, AppendedProperties
<1> QED BY <1>1, <1>2, <1>3, <1>4

LEMMA NothingAsked ==
  ASSUME TypeOK, Proceed(<<>>)
  PROVE  requests' = requests
  BY TypesKnown, ConcatEmptySeq DEF Proceed

LEMMA OneAsked ==
  ASSUME TypeOK, NEW r \in Requests, Proceed(<<r>>)
  PROVE  requests' = Append(requests, r)
  BY TypesKnown, AppendedProperties DEF Proceed

\* What a request reaches depends on the rows alone.
LEMMA SameRowsReach ==
  ASSUME UNCHANGED rows
  PROVE  /\ \A task : Reaches(task) => Reaches(task)'
         /\ \A m : Covers(m) => Covers(m)'
<1>1. lastBlockHeader' = lastBlockHeader
  BY DEF lastBlockHeader
<1>2. ASSUME NEW task, Reaches(task) PROVE Reaches(task)'
  BY <1>1, <1>2 DEF Reaches
<1>3. ASSUME NEW m, Covers(m) PROVE Covers(m)'
  BY <1>2, <1>3 DEF Covers
<1> QED BY <1>2, <1>3

\* The messages behind the one taken are the answers there were.
LEMMA TakenAnswersFollow ==
  ASSUME TypeOK, AnswersFollow, inbox # <<>>,
         inbox' = Tail(inbox), answers' = answers, UNCHANGED <<shrunk, head>>
  PROVE  AnswersFollow'
<1>1. \A k \in HeadersAt(inbox') : k + 1 \in HeadersAt(inbox) /\ inbox'[k] = inbox[k + 1]
  <2>1. HeadersAt(inbox') = {k \in 1..(Len(inbox) - 1) : k + 1 \in HeadersAt(inbox)}
    BY TypesKnown, HeadersOfTail
  <2> QED BY <2>1, TypesKnown, TailProperties
<1>2. ASSUME NEW k \in HeadersAt(inbox') PROVE Shaped(inbox[k])' /\ Below(inbox[k])'
  <2>1. PICK m : m = inbox[k + 1] /\ inbox'[k] = m
    BY <1>1, <1>2
  <2>2. Shaped(m) /\ Below(m)
    BY <1>1, <1>2, <2>1 DEF AnswersFollow
  <2>3. Below(m)'
    BY <2>2 DEF Below
  <2>4. Shaped(inbox'[k])
    BY <2>1, <2>2
  <2>5. Below(inbox[k])'
    BY <2>1, <2>3
  <2> QED BY <2>4, <2>5
<1>3. ASSUME NEW k \in HeadersAt(answers') PROVE Shaped(answers[k])' /\ Below(answers[k])'
  BY <1>3 DEF AnswersFollow, Shaped, Below
<1> QED BY <1>2, <1>3 DEF AnswersFollow, Shaped, Below

\* Taking another message than a proof, and asking for headers, moves no proof.
LEMMA OtherMessageKeepsProofs ==
  ASSUME TypeOK, LastProofIsNewest, link = "open", inbox # <<>>,
         Head(inbox).type # "proof", inbox' = Tail(inbox), answers' = answers,
         \/ requests' = requests
         \/ \E r \in Requests : r.type = "headers" /\ requests' = Append(requests, r),
         UNCHANGED <<overtaken, lastSynced, account>>
  PROVE  LastProofIsNewest'
<1> SUFFICES ASSUME ~overtaken, lastSynced # None
             PROVE  \/ LastProofIn(requests', lastSynced)
                    \/ NoProofIn(requests') /\ LastProofIn(answers, lastSynced)
                    \/ NoProofIn(requests') /\ NoProofIn(answers) /\ LastProofIn(inbox', lastSynced)
                    \/ /\ NoProofIn(requests') /\ NoProofIn(answers) /\ NoProofIn(inbox')
                       /\ account = lastSynced
  BY DEF LastProofIsNewest
<1>1. /\ NoProofIn(requests) => NoProofIn(requests')
      /\ LastProofIn(requests, lastSynced) => LastProofIn(requests', lastSynced)
  <2>1. CASE requests' = requests
    BY <2>1
  <2>2. ASSUME NEW r \in Requests, r.type = "headers", requests' = Append(requests, r)
        PROVE  <1>1!:
    BY <2>2, TypesKnown, ProofsOfAppend
  <2> QED BY <2>1, <2>2
<1>2. /\ NoProofIn(inbox) => NoProofIn(inbox')
      /\ LastProofIn(inbox, lastSynced) => LastProofIn(inbox', lastSynced)
  BY TypesKnown, ProofsOfTail
<1> QED BY <1>1, <1>2 DEF LastProofIsNewest

\* An answer with headers is the only request for headers under way.
LEMMA HeadersTaken ==
  ASSUME TypeOK, OneRequest, Receive("headers"), inbox' = Tail(inbox)
  PROVE  /\ syncing /\ 1 \in HeadersAt(inbox)
         /\ HeadersAt(requests) = {} /\ HeadersAt(answers) = {} /\ HeadersAt(inbox') = {}
<1>1. link = "open" /\ 1 \in HeadersAt(inbox) /\ inbox # <<>>
  BY ReceivedMessage DEF HeadersAt
<1>2. \A i \in HeadersAt(inbox) : i = 1
  BY <1>1 DEF OneRequest
<1>3. HeadersAt(inbox') = {k \in 1..(Len(inbox) - 1) : k + 1 \in HeadersAt(inbox)}
  BY <1>1, TypesKnown, HeadersOfTail
<1>4. ASSUME NEW k \in HeadersAt(inbox') PROVE FALSE
  <2>1. k \in 1..(Len(inbox) - 1) /\ k + 1 = 1
    BY <1>2, <1>3
  <2> QED BY <2>1
<1> QED BY <1>1, <1>4 DEF OneRequest

LEMMA InitSyncInv == Init => SyncInv
<1> SUFFICES ASSUME Init PROVE SyncInv
  OBVIOUS
<1> USE DEF Init
<1>1. <<>> \in Seq(Requests) /\ <<>> \in Seq(Messages)
  BY EmptySeq
<1>2. TypeOK
  <2>1. 0 \in 0..MaxHeight /\ 0 \in 0..MaxReorgs /\ 0 \in 0..MaxRestarts
    BY BoundsAssumption
  <2> QED BY <1>1, <2>1 DEF TypeOK
<1>3. HeadersAt(<<>>) = {}
  BY DEF HeadersAt
<1>4. ClosedIsEmpty /\ OneRequest
  BY DEF ClosedIsEmpty, OneRequest
<1>5. AnswersFollow /\ RowsBelow /\ SyncReaches
  BY <1>3 DEF AnswersFollow, RowsBelow, SyncReaches
<1>6. HeadersLinked /\ LastProofIsNewest
  BY DEF HeadersLinked, LastProofIsNewest
<1> QED BY <1>2, <1>4, <1>5, <1>6 DEF SyncInv

\* With no message and no rows touched, what was said of rows stays.
LEMMA NothingUnderWay ==
  ASSUME SyncInv, requests' = <<>>, answers' = <<>>, inbox' = <<>>, link' # "open",
         UNCHANGED <<rows, account, head, reorgs, shrunk, forkedAgain, overtaken>>,
         syncing' \in BOOLEAN, link' = "down" => ~syncing' /\ lastSynced' = None,
         link' \in {"down", "closed"}, statusTask' \in 0..MaxHeight,
         greeted' \in BOOLEAN, restarts' \in 0..MaxRestarts,
         lastSynced' \in Headers \union {None}
  PROVE  SyncInv'
<1>1. <<>> \in Seq(Requests) /\ <<>> \in Seq(Messages) /\ HeadersAt(<<>>) = {}
  BY EmptySeq DEF HeadersAt
<1>2. TypeOK'
  BY <1>1 DEF SyncInv, TypeOK
<1>3. ClosedIsEmpty' /\ OneRequest'
  BY DEF ClosedIsEmpty, OneRequest
<1>4. AnswersFollow' /\ SyncReaches'
  BY <1>1 DEF AnswersFollow, SyncReaches
<1>5. RowsBelow' /\ HeadersLinked'
  BY DEF SyncInv, RowsBelow, HeadersLinked
<1>6. LastProofIsNewest'
  BY DEF LastProofIsNewest
<1> QED BY <1>2, <1>3, <1>4, <1>5, <1>6 DEF SyncInv

LEMMA ConnectionSyncInv ==
  ASSUME SyncInv, Connect \/ LoseConnection \/ Restart
  PROVE  SyncInv'
<1>1. TypeOK
  BY DEF SyncInv
<1>2. CASE Connect
  <2> USE <1>2 DEF Connect, tables, wire, peerVars, history
  <2>1. requests = <<>> /\ answers = <<>> /\ inbox = <<>> /\ ~syncing
    BY DEF SyncInv, ClosedIsEmpty
  <2>2. TypeOK'
    <3>1. Len(lastBlockHeader) \in 0..MaxHeight
      BY <1>1, TypesKnown, HeaderHeight
    <3> QED BY <3>1, <1>1 DEF TypeOK
  <2>3. HeadersAt(<<>>) = {}
    BY DEF HeadersAt
  <2>4. ClosedIsEmpty' /\ OneRequest'
    BY <2>1, <2>3 DEF ClosedIsEmpty, OneRequest
  <2>5. AnswersFollow' /\ SyncReaches'
    BY <2>1, <2>3 DEF AnswersFollow, SyncReaches
  <2>6. RowsBelow' /\ HeadersLinked'
    BY DEF SyncInv, RowsBelow, HeadersLinked
  <2>7. LastProofIsNewest'
    BY DEF SyncInv, ClosedIsEmpty, LastProofIsNewest
  <2> QED BY <2>2, <2>4, <2>5, <2>6, <2>7 DEF SyncInv
<1>3. CASE LoseConnection
  <2> USE <1>3 DEF LoseConnection, NothingInFlight, tables, wire, peerVars, history
  <2>1. /\ syncing' \in BOOLEAN /\ statusTask' \in 0..MaxHeight /\ greeted' \in BOOLEAN
        /\ restarts' \in 0..MaxRestarts /\ lastSynced' \in Headers \union {None}
    BY <1>1 DEF TypeOK
  <2> QED BY <2>1, NothingUnderWay
<1>4. CASE Restart
  <2> USE <1>4 DEF Restart, NothingInFlight, tables
  <2>1. restarts' \in 0..MaxRestarts /\ statusTask' \in 0..MaxHeight
    BY <1>1, BoundsAssumption DEF TypeOK
  <2> QED BY <2>1, NothingUnderWay
<1> QED BY <1>2, <1>3, <1>4

LEMMA DisconnectSyncInv ==
  ASSUME SyncInv, NEW type, Receive(type), Disconnect,
         UNCHANGED <<tables, syncing, forkedAgain, lastSynced>>
  PROVE  SyncInv'
<1>1. TypeOK
  BY DEF SyncInv
<1>2. /\ syncing' \in BOOLEAN /\ statusTask' \in 0..MaxHeight /\ greeted' \in BOOLEAN
      /\ restarts' \in 0..MaxRestarts /\ lastSynced' \in Headers \union {None}
      /\ UNCHANGED <<rows, account, head, reorgs, shrunk, forkedAgain, overtaken>>
  BY <1>1, ReceivedMessage DEF TypeOK, tables
<1> QED BY <1>2, NothingUnderWay DEF Disconnect, NothingInFlight

\* A message is taken and nothing asked: an answer with headers ends the sync.
LEMMA TakenKeepsSync ==
  ASSUME SyncInv, NEW type, Receive(type), Proceed(<<>>),
         syncing' = IF type = "headers" THEN FALSE ELSE syncing,
         account' \in Headers \union {None}, UNCHANGED <<rows, forkedAgain, lastSynced>>
  PROVE  /\ TypeOK' /\ ClosedIsEmpty' /\ OneRequest'
         /\ AnswersFollow' /\ RowsBelow' /\ SyncReaches' /\ HeadersLinked'
<1>1. TypeOK /\ OneRequest
  BY DEF SyncInv
<1>2. /\ link = "open" /\ inbox # <<>> /\ Head(inbox).type = type
      /\ UNCHANGED <<statusTask, head, greeted, reorgs, shrunk, restarts, overtaken>>
  BY <1>1, ReceivedMessage
<1>3. /\ requests' = requests /\ answers' = answers /\ inbox' = Tail(inbox) /\ link' = "open"
      /\ inbox' \in Seq(Messages)
  BY <1>1, <1>2, NothingAsked, ProceedTypes
<1>4. syncing' \in BOOLEAN
  BY <1>1 DEF TypeOK
<1>5. TypeOK'
  BY <1>1, <1>2, <1>3, <1>4 DEF TypeOK
<1>6. HeadersAt(inbox') = {k \in 1..(Len(inbox) - 1) : k + 1 \in HeadersAt(inbox)}
  BY <1>1, <1>2, <1>3, TypesKnown, HeadersOfTail
<1>7. OneRequest'
  <2>1. CASE type = "headers"
    BY <1>1, <1>3, <2>1, HeadersTaken DEF OneRequest
  <2>2. CASE type # "headers"
    <3>1. 1 \notin HeadersAt(inbox) /\ HeadersAt(inbox) \subseteq 1..Len(inbox)
      BY <1>1, <1>2, <2>2, TypesKnown, TailProperties DEF HeadersAt
    <3>2. HeadersAt(inbox) # {} => HeadersAt(inbox') # {}
      <4> SUFFICES ASSUME NEW i \in HeadersAt(inbox) PROVE i - 1 \in HeadersAt(inbox')
        OBVIOUS
      <4>1. i \in 2..Len(inbox) /\ Len(inbox) \in Nat
        BY <1>1, <3>1, TypesKnown, LenProperties
      <4>2. i - 1 \in 1..(Len(inbox) - 1) /\ (i - 1) + 1 = i
        BY <4>1
      <4> QED BY <1>6, <4>2
    <3>3. HeadersAt(inbox') # {} => HeadersAt(inbox) # {}
      BY <1>6
    <3>4. \A i, j \in HeadersAt(inbox) : i = j
      BY <1>1, <1>2 DEF OneRequest
    <3>5. ASSUME NEW i \in HeadersAt(inbox'), NEW j \in HeadersAt(inbox') PROVE i = j
      <4>1. i \in Int /\ j \in Int /\ i + 1 = j + 1
        BY <1>6, <3>4
      <4> QED BY <4>1
    <3> QED BY <1>1, <1>2, <1>3, <2>2, <3>2, <3>3, <3>5 DEF OneRequest
  <2> QED BY <2>1, <2>2
<1>8. ClosedIsEmpty'
  BY <1>3 DEF ClosedIsEmpty
<1>9. AnswersFollow'
  BY <1>1, <1>2, <1>3, TakenAnswersFollow DEF SyncInv
<1>10. RowsBelow' /\ HeadersLinked'
  BY <1>2 DEF SyncInv, RowsBelow, HeadersLinked
<1>11. SyncReaches'
  <2>1. lastBlockHeader' = lastBlockHeader
    BY <1>2 DEF lastBlockHeader
  <2>2. \A k \in HeadersAt(inbox') : k + 1 \in HeadersAt(inbox) /\ inbox'[k] = inbox[k + 1]
    BY <1>1, <1>2, <1>3, <1>6, TypesKnown, TailProperties
  <2>3. SyncReaches
    BY DEF SyncInv
  <2>4. ASSUME ~shrunk, ~forkedAgain, NEW k \in HeadersAt(inbox') PROVE Covers(inbox[k])'
    <3>1. PICK n : n = inbox[k + 1] /\ inbox'[k] = n
      BY <2>2, <2>4
    <3>2. Covers(n)
      BY <2>2, <2>3, <2>4, <3>1 DEF SyncReaches
    <3> QED BY <1>2, <3>1, <3>2, SameRowsReach
  <2>5. ASSUME ~shrunk, ~forkedAgain, NEW k \in HeadersAt(requests') PROVE Reaches(requests[k].task)'
    BY <1>2, <1>3, <2>1, <2>3, <2>5 DEF SyncReaches, Reaches
  <2>6. ASSUME ~shrunk, ~forkedAgain, NEW k \in HeadersAt(answers') PROVE Covers(answers[k])'
    BY <1>2, <1>3, <2>1, <2>3, <2>6 DEF SyncReaches, Covers, Reaches
  <2>7. ~shrunk' /\ ~forkedAgain' => \A k \in HeadersAt(requests)' : Reaches(requests[k].task)'
    BY <1>2, <2>5
  <2>8. ~shrunk' /\ ~forkedAgain' => \A k \in HeadersAt(answers)' : Covers(answers[k])'
    BY <1>2, <2>6
  <2>9. ~shrunk' /\ ~forkedAgain' => \A k \in HeadersAt(inbox)' : Covers(inbox[k])'
    BY <1>2, <2>4
  <2> QED BY <2>7, <2>8, <2>9 DEF SyncReaches
<1> QED BY <1>5, <1>7, <1>8, <1>9, <1>10, <1>11

LEMMA NothingAskedSyncInv ==
  ASSUME SyncInv, NEW type, Receive(type), type # "proof", Proceed(<<>>),
         syncing' = IF type = "headers" THEN FALSE ELSE syncing,
         UNCHANGED <<tables, forkedAgain, lastSynced>>
  PROVE  SyncInv'
<1>1. TypeOK
  BY DEF SyncInv
<1>2. account' \in Headers \union {None} /\ UNCHANGED <<rows, account>>
  BY <1>1 DEF TypeOK, tables
<1>3. /\ link = "open" /\ inbox # <<>> /\ Head(inbox).type = type /\ UNCHANGED overtaken
  BY <1>1, ReceivedMessage
<1>4. requests' = requests /\ answers' = answers /\ inbox' = Tail(inbox)
  BY <1>1, <1>3, NothingAsked, ProceedTypes
<1>5. LastProofIsNewest'
  BY <1>1, <1>2, <1>3, <1>4, OtherMessageKeepsProofs DEF SyncInv
<1> QED BY <1>2, <1>5, TakenKeepsSync DEF SyncInv

\* Or headers are asked for, when no other request for them is under way.
LEMMA HeadersAskedSyncInv ==
  ASSUME SyncInv, NEW type, Receive(type), type # "proof",
         NEW from \in Headers, NEW reverse \in BOOLEAN, Proceed(Ask(from, reverse)),
         HeadersAt(requests) = {}, HeadersAt(answers) = {}, HeadersAt(inbox') = {},
         syncing' = TRUE, UNCHANGED <<tables, lastSynced>>,
         forkedAgain' \in BOOLEAN, ~forkedAgain' => ~forkedAgain,
         ~shrunk /\ ~forkedAgain' => Reaches([from |-> from, reverse |-> reverse])
  PROVE  SyncInv'
<1> DEFINE r == [type |-> "headers", task |-> [from |-> from, reverse |-> reverse]]
<1>1. TypeOK
  BY DEF SyncInv
<1>2. /\ link = "open" /\ inbox # <<>> /\ Head(inbox).type = type
      /\ UNCHANGED <<statusTask, head, greeted, reorgs, shrunk, restarts, overtaken>>
      /\ UNCHANGED <<rows, account, lastSynced>>
  BY <1>1, ReceivedMessage DEF tables
<1>3. r \in Requests /\ r.type = "headers" /\ Ask(from, reverse) = <<r>>
      /\ r.task = [from |-> from, reverse |-> reverse]
  BY AskedFields
<1> HIDE DEF r
<1>4. requests' = Append(requests, r)
  BY <1>1, <1>3, OneAsked
<1>5. /\ answers' = answers /\ inbox' = Tail(inbox) /\ link' = "open"
      /\ inbox' \in Seq(Messages) /\ requests' \in Seq(Requests)
  BY <1>1, <1>2, <1>3, ProceedTypes
<1>6. TypeOK'
  BY <1>1, <1>2, <1>5 DEF TypeOK
<1>7. /\ HeadersAt(requests') = {Len(requests) + 1}
      /\ requests'[Len(requests) + 1] = r
  BY <1>1, <1>3, <1>4, TypesKnown, HeadersOfAppend, AppendedProperties
<1>8. OneRequest' /\ ClosedIsEmpty'
  BY <1>5, <1>7 DEF OneRequest, ClosedIsEmpty
<1>9. AnswersFollow'
  BY <1>1, <1>2, <1>5, TakenAnswersFollow DEF SyncInv
<1>10. RowsBelow' /\ HeadersLinked'
  BY <1>2 DEF SyncInv, RowsBelow, HeadersLinked
<1>11. SyncReaches'
  <2>1. lastBlockHeader' = lastBlockHeader
    BY <1>2 DEF lastBlockHeader
  <2>2. ASSUME ~shrunk, ~forkedAgain', NEW k \in HeadersAt(requests')
        PROVE  Reaches(requests[k].task)'
    <3>1. requests'[k].task = [from |-> from, reverse |-> reverse]
      BY <1>3, <1>7, <2>2
    <3> QED BY <1>2, <2>1, <2>2, <3>1 DEF Reaches
  <2> QED BY <1>2, <1>5, <2>2 DEF SyncReaches
<1>12. LastProofIsNewest'
  BY <1>1, <1>2, <1>3, <1>4, <1>5, OtherMessageKeepsProofs DEF SyncInv
<1> QED BY <1>6, <1>8, <1>9, <1>10, <1>11, <1>12 DEF SyncInv

LEMMA LastReaches ==
  ASSUME TypeOK, NEW reverse \in BOOLEAN
  PROVE  Reaches([from |-> lastBlockHeader, reverse |-> reverse])
<1>1. /\ rows = {} => lastBlockHeader = Checkpoint
      /\ rows # {} => lastBlockHeader \in rows
      /\ \A b \in rows : Len(b) <= Len(lastBlockHeader)
  BY LastIsHighest DEF TypeOK
<1>2. \A b \in rows : Len(b) <= Len(lastBlockHeader) + Limit - 1
  BY <1>1, TypesKnown, HeaderHeight, LimitAssumption
<1> QED BY <1>1, <1>2 DEF Reaches

LEMMA UpdateSyncInv ==
  ASSUME SyncInv, NEW type \in {"status", "announce"}, Receive(type),
         onUpdate(Head(inbox).head), UNCHANGED <<tables, forkedAgain, lastSynced>>
  PROVE  SyncInv'
<1>1. TypeOK /\ OneRequest
  BY DEF SyncInv
<1>2. CASE Proceed(<<>>) /\ UNCHANGED syncing
  BY <1>2, NothingAskedSyncInv
<1>3. CASE ~syncing /\ Proceed(Ask(lastBlockHeader, FALSE)) /\ syncing' = TRUE
  <2>1. link = "open" /\ inbox # <<>>
    BY <1>1, ReceivedMessage
  <2>2. HeadersAt(requests) = {} /\ HeadersAt(answers) = {} /\ HeadersAt(inbox) = {}
    BY <1>1, <1>3, <2>1 DEF OneRequest
  <2>3. HeadersAt(inbox') = {}
    BY <1>1, <1>3, <2>1, <2>2, TypesKnown, HeadersOfTail DEF Proceed
  <2>4. forkedAgain' \in BOOLEAN
    BY <1>1 DEF TypeOK
  <2> QED BY <1>1, <1>3, <2>2, <2>3, <2>4, TypesKnown, LastReaches, HeadersAskedSyncInv
<1>4. \/ Proceed(<<>>) /\ UNCHANGED syncing
      \/ ~syncing /\ Proceed(Ask(lastBlockHeader, FALSE)) /\ syncing' = TRUE
  BY DEF onUpdate
<1> QED BY <1>2, <1>3, <1>4

LEMMA ForkSyncInv == ASSUME SyncInv, handleFork PROVE SyncInv'
<1> DEFINE m == Head(inbox)
           common == Common(m.headers, m.task.from)
<1>1. TypeOK /\ OneRequest /\ AnswersFollow /\ SyncReaches
  BY DEF SyncInv
<1>2. Receive("headers") /\ m.task.reverse /\ UNCHANGED <<tables, forkedAgain, lastSynced>>
  BY DEF handleFork
<1>3. m \in Messages /\ m.type = "headers" /\ inbox[1] = m /\ inbox # <<>>
  BY <1>1, <1>2, ReceivedMessage
<1>4. CASE common = {}
  <2>1. onFailure
    BY <1>4 DEF handleFork
  <2> QED BY <1>2, <2>1, NothingAskedSyncInv DEF onFailure
<1>5. CASE common # {}
  <2> DEFINE b == Lowest(common)
  <2>1. Proceed(Ask(b, FALSE)) /\ UNCHANGED syncing
    BY <1>5 DEF handleFork
  <2>2. common \in SUBSET rows /\ common \in SUBSET Headers
    BY <1>1, TypesKnown DEF Common
  <2>3. b \in common
    BY <1>5, <2>2, LowestIsLowest
  <2>4. inbox' = Tail(inbox)
    BY <2>1 DEF Proceed
  <2>5. /\ syncing /\ 1 \in HeadersAt(inbox)
        /\ HeadersAt(requests) = {} /\ HeadersAt(answers) = {} /\ HeadersAt(inbox') = {}
    BY <1>1, <1>2, <2>4, HeadersTaken
  <2>6. b \in Headers /\ forkedAgain' \in BOOLEAN
    BY <1>1, <1>2, <2>2, <2>3 DEF TypeOK
  <2>7. ASSUME ~shrunk, ~forkedAgain' PROVE Reaches([from |-> b, reverse |-> FALSE])
    <3>1. Shaped(m) /\ Reaches(m.task)
      BY <1>1, <1>2, <1>3, <2>5, <2>7 DEF AnswersFollow, SyncReaches, Covers
    <3>2. m.task.from = lastBlockHeader
      BY <1>2, <3>1 DEF Reaches
    <3>3. PICK i \in DOMAIN m.headers : m.headers[i] = b
      BY <2>3 DEF Common
    <3>4. Len(b) = Len(lastBlockHeader) - i + 1
      BY <1>2, <3>1, <3>2, <3>3 DEF Shaped
    <3>5. i \in Nat /\ i <= Limit
      <4>1. Len(m.headers) \in Nat /\ Len(m.headers) <= Limit /\ DOMAIN m.headers = 1..Len(m.headers)
        BY <1>3, MessageFields
      <4> QED BY <3>3, <4>1, LimitAssumption
    <3>6. \A c \in rows : Len(c) <= Len(lastBlockHeader)
      BY <1>1, LastIsHighest DEF TypeOK
    <3>7. ASSUME NEW c \in rows PROVE Len(c) <= Len(b) + Limit - 1
      <4>1. Len(c) \in Nat /\ Len(lastBlockHeader) \in Nat /\ Len(c) <= Len(lastBlockHeader)
        BY <1>1, <3>6, TypesKnown, HeaderHeight
      <4> QED BY <3>4, <3>5, <4>1, LimitAssumption
    <3> QED BY <2>2, <2>3, <3>7 DEF Reaches
  <2>8. syncing' = TRUE
    BY <1>1, <2>1, <2>5 DEF TypeOK
  <2> HIDE DEF b
  <2> QED BY <1>2, <2>1, <2>5, <2>6, <2>7, <2>8, HeadersAskedSyncInv
<1> QED BY <1>4, <1>5

LEMMA RefusedSyncInv == ASSUME SyncInv, HeadersRefused PROVE SyncInv'
<1> DEFINE m == Head(inbox)
<1>1. TypeOK /\ OneRequest /\ AnswersFollow /\ SyncReaches
  BY DEF SyncInv
<1>2. /\ Receive("headers") /\ ~m.task.reverse /\ UNCHANGED <<tables, lastSynced>>
  BY DEF HeadersRefused
<1>3. m \in Messages /\ m.type = "headers" /\ inbox[1] = m /\ inbox # <<>>
  BY <1>1, <1>2, ReceivedMessage
<1>4. CASE onFailure /\ UNCHANGED forkedAgain
  BY <1>2, <1>4, NothingAskedSyncInv DEF onFailure
<1>5. CASE /\ Proceed(Ask(m.task.from, TRUE)) /\ UNCHANGED syncing
           /\ forkedAgain' = (forkedAgain \/ m.task.from # lastBlockHeader)
  <2> DEFINE from == m.task.from
  <2>1. from \in Headers
    BY <1>3, MessageFields DEF HeadersTasks
  <2>2. /\ syncing /\ 1 \in HeadersAt(inbox)
        /\ HeadersAt(requests) = {} /\ HeadersAt(answers) = {} /\ HeadersAt(inbox') = {}
    BY <1>1, <1>2, <1>5, HeadersTaken DEF Proceed
  <2>3. forkedAgain' \in BOOLEAN /\ (~forkedAgain' => ~forkedAgain)
    BY <1>1, <1>5 DEF TypeOK
  <2>4. ASSUME ~forkedAgain' PROVE Reaches([from |-> from, reverse |-> TRUE])
    <3>1. from = lastBlockHeader
      BY <1>5, <2>4
    <3> QED BY <1>1, <3>1, LastReaches
  <2>5. syncing' = TRUE
    BY <1>1, <1>5, <2>2 DEF TypeOK
  <2> HIDE DEF from
  <2>6. Proceed(Ask(from, TRUE))
    BY <1>5 DEF from
  <2> QED BY <1>2, <2>1, <2>2, <2>3, <2>4, <2>5, <2>6, HeadersAskedSyncInv
<1> QED BY <1>4, <1>5 DEF HeadersRefused

\* The rows after valid headers were saved.
LEMMA SavedRows ==
  ASSUME TypeOK,
         NEW m \in Messages, m.type = "headers", ~m.task.reverse, Shaped(m),
         validate(m.headers, m.task.from) = "valid",
         rows' = Save({m.headers[i] : i \in DOMAIN m.headers})
  PROVE  /\ m.headers # <<>> /\ Len(m.headers) \in DOMAIN m.headers
         /\ rows' \subseteq Headers
         /\ \A b, c \in rows' : Len(b) = Len(c) => b = c
         /\ \A i \in DOMAIN m.headers : m.headers[i] \in rows'
         /\ \A b \in rows' : b \in rows \/ \E i \in DOMAIN m.headers : b = m.headers[i]
         /\ \A b \in rows : (\/ Len(b) < Len(m.task.from)
                             \/ Len(b) >= Len(m.task.from) + Len(m.headers)) <=> 
                (b \in rows' /\ \A i \in DOMAIN m.headers : b # m.headers[i])
<1> DEFINE hs == m.headers
           from == m.task.from
           saved == {hs[i] : i \in DOMAIN hs}
<1>1. /\ hs \in Seq(Headers) /\ Len(hs) \in Nat /\ DOMAIN hs = 1..Len(hs)
      /\ \A i \in DOMAIN hs : hs[i] \in Headers
      /\ from \in Headers /\ Len(from) \in Nat
  BY MessageFields, HeaderHeight DEF HeadersTasks
<1>2. hs # <<>>
  BY DEF validate
<1>3. Len(hs) \in DOMAIN hs
  BY <1>1, <1>2, EmptySeq
<1>4. \A i \in DOMAIN hs : Len(hs[i]) = Len(from) + i - 1
  BY DEF Shaped
<1>5. rows' = {b \in rows : \A c \in saved : Len(b) # Len(c)} \union saved
  BY DEF Save
<1>6. rows \subseteq Headers /\ \A b, c \in rows : Len(b) = Len(c) => b = c
  BY DEF TypeOK
<1> HIDE DEF hs, from
<1>7. rows' \subseteq Headers
  BY <1>1, <1>5, <1>6
<1>8. \A b, c \in saved : Len(b) = Len(c) => b = c
  <2> SUFFICES ASSUME NEW i \in DOMAIN hs, NEW j \in DOMAIN hs, Len(hs[i]) = Len(hs[j])
               PROVE  hs[i] = hs[j]
    OBVIOUS
  <2>1. i \in Nat /\ j \in Nat /\ Len(from) + i - 1 = Len(from) + j - 1
    BY <1>1, <1>4
  <2> QED BY <1>1, <2>1
<1>9. \A b, c \in rows' : Len(b) = Len(c) => b = c
  <2> HIDE DEF saved
  <2> QED BY <1>5, <1>6, <1>8
<1>10. ASSUME NEW b \in rows
       PROVE  (Len(b) < Len(from) \/ Len(b) >= Len(from) + Len(hs)) <=>
              \A c \in saved : Len(b) # Len(c)
  <2>1. Len(b) \in Nat
    BY <1>6, HeaderHeight
  <2>2. ASSUME Len(b) < Len(from) \/ Len(b) >= Len(from) + Len(hs), NEW i \in DOMAIN hs
        PROVE  Len(b) # Len(hs[i])
    <3>1. i \in 1..Len(hs) /\ Len(hs[i]) = Len(from) + i - 1
      BY <1>1, <1>4, <2>2
    <3> QED BY <1>1, <2>1, <2>2, <3>1
  <2>3. ASSUME ~(Len(b) < Len(from) \/ Len(b) >= Len(from) + Len(hs))
        PROVE  \E i \in DOMAIN hs : Len(b) = Len(hs[i])
    <3>1. Len(b) - Len(from) + 1 \in 1..Len(hs)
      BY <1>1, <2>1, <2>3
    <3>2. Len(hs[Len(b) - Len(from) + 1]) = Len(from) + (Len(b) - Len(from) + 1) - 1
      BY <1>1, <1>4, <3>1
    <3>3. Len(from) + (Len(b) - Len(from) + 1) - 1 = Len(b)
      BY <1>1, <2>1
    <3> QED BY <1>1, <3>1, <3>2, <3>3
  <2> QED BY <2>2, <2>3
<1>11. ASSUME NEW b \in rows
       PROVE  (\A c \in saved : Len(b) # Len(c)) <=> (b \in rows' /\ b \notin saved)
  <2> HIDE DEF saved
  <2> QED BY <1>5
<1>12. \A b \in rows : (Len(b) < Len(from) \/ Len(b) >= Len(from) + Len(hs)) <=>
                         (b \in rows' /\ \A i \in DOMAIN hs : b # hs[i])
  <2> SUFFICES ASSUME NEW b \in rows
               PROVE  (Len(b) < Len(from) \/ Len(b) >= Len(from) + Len(hs)) <=>
                        (b \in rows' /\ \A i \in DOMAIN hs : b # hs[i])
    OBVIOUS
  <2>1. (\A i \in DOMAIN hs : b # hs[i]) <=> b \notin saved
    OBVIOUS
  <2> HIDE DEF saved
  <2> QED BY <1>10, <1>11, <2>1
<1>13. (\A i \in DOMAIN hs : hs[i] \in rows') /\ \A b \in rows' : b \in rows \/ b \in saved
  BY <1>5
<1>14. \A b \in rows' : b \in rows \/ \E i \in DOMAIN hs : b = hs[i]
  BY <1>13
<1> QED BY <1>2, <1>3, <1>7, <1>9, <1>12, <1>13, <1>14 DEF hs, from

\* They are linked, and the last of the headers is the highest.
LEMMA SavedRowsLinked ==
  ASSUME TypeOK, HeadersLinked, ~shrunk, ~forkedAgain,
         NEW m \in Messages, m.type = "headers", ~m.task.reverse, Shaped(m), Covers(m),
         validate(m.headers, m.task.from) = "valid",
         rows' = Save({m.headers[i] : i \in DOMAIN m.headers})
  PROVE  /\ \A b \in rows' : b # Checkpoint => Parent(b) \in rows'
         /\ \A b \in rows' : Len(b) <= Len(m.headers[Len(m.headers)])
<1> DEFINE hs == m.headers
           from == m.task.from
<1>1. /\ hs \in Seq(Headers) /\ Len(hs) \in Nat /\ DOMAIN hs = 1..Len(hs)
      /\ \A i \in DOMAIN hs : hs[i] \in Headers
      /\ from \in Headers /\ Len(from) \in Nat
  BY MessageFields, HeaderHeight DEF HeadersTasks
<1>2. /\ hs # <<>> /\ Len(hs) \in DOMAIN hs
      /\ rows' \subseteq Headers
      /\ \A i \in DOMAIN hs : hs[i] \in rows'
      /\ \A b \in rows' : b \in rows \/ \E i \in DOMAIN hs : b = hs[i]
      /\ \A b \in rows : (Len(b) < Len(from) \/ Len(b) >= Len(from) + Len(hs)) <=>
                         (b \in rows' /\ \A i \in DOMAIN hs : b # hs[i])
  BY SavedRows
<1>3. \A i \in DOMAIN hs : Len(hs[i]) = Len(from) + i - 1
  BY DEF Shaped
<1>4. hs[1] = from /\ \A i \in 2..Len(hs) : Parent(hs[i]) = hs[i - 1]
  BY DEF validate
<1>5. /\ from \in rows \/ from = Checkpoint
      /\ \A b \in rows : Len(b) <= Len(from) + Len(hs) - 1
  BY DEF Covers, Reaches
<1>6. \A b \in rows : b # Checkpoint => Parent(b) \in rows
  BY DEF HeadersLinked
<1>7. rows \subseteq Headers
  BY DEF TypeOK
<1> HIDE DEF hs, from
<1>8. ASSUME NEW b \in rows, b # Checkpoint, Len(b) <= Len(from) PROVE Parent(b) \in rows'
  <2>1. Parent(b) \in rows /\ Len(Parent(b)) = Len(b) - 1 /\ Len(b) \in Nat
    BY <1>6, <1>7, <1>8, ParentIsBelow, HeaderHeight
  <2>2. Len(Parent(b)) < Len(from)
    BY <1>1, <1>8, <2>1
  <2> QED BY <1>2, <2>1, <2>2
<1>9. ASSUME NEW b \in rows', b # Checkpoint PROVE Parent(b) \in rows'
  <2>1. ASSUME NEW i \in DOMAIN hs, b = hs[i] PROVE Parent(b) \in rows'
    <3>1. CASE i = 1
      BY <1>4, <1>5, <1>8, <1>9, <1>1, <2>1, <3>1
    <3>2. CASE i # 1
      <4>1. i \in 2..Len(hs) /\ i - 1 \in DOMAIN hs
        BY <1>1, <2>1, <3>2
      <4> QED BY <1>2, <1>4, <2>1, <4>1
    <3> QED BY <3>1, <3>2
  <2>2. ASSUME b \in rows, \A i \in DOMAIN hs : b # hs[i] PROVE Parent(b) \in rows'
    <3>1. Len(b) < Len(from) \/ Len(b) >= Len(from) + Len(hs)
      BY <1>2, <1>9, <2>2
    <3>2. Len(b) <= Len(from) + Len(hs) - 1 /\ Len(b) \in Nat
      BY <1>5, <1>7, <2>2, HeaderHeight
    <3>3. Len(b) <= Len(from)
      BY <1>1, <3>1, <3>2
    <3> QED BY <1>8, <1>9, <2>2, <3>3
  <2> QED BY <1>2, <2>1, <2>2
<1>10. Len(hs[Len(hs)]) = Len(from) + Len(hs) - 1
  BY <1>2, <1>3
<1>11. ASSUME NEW b \in rows' PROVE Len(b) <= Len(hs[Len(hs)])
  <2>1. ASSUME NEW i \in DOMAIN hs, b = hs[i] PROVE Len(b) <= Len(hs[Len(hs)])
    <3>1. i \in 1..Len(hs) /\ Len(b) = Len(from) + i - 1
      BY <1>1, <1>3, <2>1
    <3> QED BY <1>1, <1>10, <3>1
  <2> QED BY <1>2, <1>5, <1>10, <2>1
<1> QED BY <1>9, <1>11 DEF hs, from

LEMMA HeadersSyncInv == ASSUME SyncInv, handleBlockHeaders PROVE SyncInv'
<1> DEFINE m == Head(inbox)
           last == m.headers[Len(m.headers)]
           p == [type |-> "proof", task |-> last]
           r == [type |-> "headers", task |-> [from |-> last, reverse |-> FALSE]]
<1>1. TypeOK /\ OneRequest /\ AnswersFollow /\ SyncReaches /\ RowsBelow /\ HeadersLinked
  BY DEF SyncInv
<1>2. /\ Receive("headers") /\ ~m.task.reverse /\ UNCHANGED <<account, forkedAgain>>
      /\ validate(m.headers, m.task.from) = "valid"
      /\ rows' = Save({m.headers[i] : i \in DOMAIN m.headers})
  BY DEF handleBlockHeaders
<1>3. /\ m \in Messages /\ m.type = "headers" /\ inbox[1] = m /\ inbox # <<>> /\ link = "open"
      /\ UNCHANGED <<statusTask, head, greeted, reorgs, shrunk, restarts, overtaken>>
  BY <1>1, <1>2, ReceivedMessage
<1>4. inbox' = Tail(inbox) /\ answers' = answers /\ link' = "open"
  BY <1>3 DEF handleBlockHeaders, Proceed
<1>5. /\ syncing /\ 1 \in HeadersAt(inbox)
      /\ HeadersAt(requests) = {} /\ HeadersAt(answers) = {} /\ HeadersAt(inbox') = {}
  BY <1>1, <1>2, <1>4, HeadersTaken
<1>6. Shaped(m) /\ Below(m) /\ (~shrunk /\ ~forkedAgain => Covers(m))
  BY <1>1, <1>3, <1>5 DEF AnswersFollow, SyncReaches
<1>7. /\ m.headers # <<>> /\ Len(m.headers) \in DOMAIN m.headers
      /\ rows' \subseteq Headers
      /\ \A b, c \in rows' : Len(b) = Len(c) => b = c
      /\ \A i \in DOMAIN m.headers : m.headers[i] \in rows'
      /\ \A b \in rows' : b \in rows \/ \E i \in DOMAIN m.headers : b = m.headers[i]
  BY <1>1, <1>2, <1>3, <1>6, SavedRows
<1>8. last \in Headers /\ last \in rows'
  BY <1>7
<1>9. p \in Requests /\ p.type = "proof" /\ p.task = last
  BY <1>8 DEF Requests
<1>10. r \in Requests /\ r.type = "headers" /\ Ask(last, FALSE) = <<r>>
       /\ r.task.from = last /\ r.task.reverse = FALSE
  <2> HIDE DEF last
  <2>1. r \in Requests /\ r.type = "headers" /\ Ask(last, FALSE) = <<r>>
    <3>1. r.task \in HeadersTasks
      BY <1>8 DEF HeadersTasks
    <3> QED BY <3>1 DEF Requests, Ask
  <2>2. r.task.from = last /\ r.task.reverse = FALSE
    OBVIOUS
  <2> QED BY <2>1, <2>2
<1>11. \/ requests' = Append(requests, p) /\ syncing' = FALSE /\ lastSynced' = last
       \/ requests' = Append(requests, r) /\ UNCHANGED <<syncing, lastSynced>>
  <2>1. CASE Len(m.headers) < Limit
    <3>1. Proceed(<<p>>) /\ syncing' = FALSE /\ lastSynced' = last
      BY <2>1 DEF handleBlockHeaders
    <3> HIDE DEF p
    <3> QED BY <1>1, <1>9, <3>1, OneAsked
  <2>2. CASE ~(Len(m.headers) < Limit)
    <3>1. Proceed(Ask(last, FALSE)) /\ UNCHANGED <<syncing, lastSynced>>
      BY <2>2 DEF handleBlockHeaders
    <3> HIDE DEF r, last
    <3> QED BY <1>1, <1>10, <3>1, OneAsked
  <2> QED BY <2>1, <2>2
<1> HIDE DEF last, p, r
<1>12. requests' \in Seq(Requests) /\ inbox' \in Seq(Messages)
  <2>1. inbox' \in Seq(Messages)
    BY <1>1, <1>3, <1>4, TypesKnown, TailProperties
  <2>2. Append(requests, p) \in Seq(Requests) /\ Append(requests, r) \in Seq(Requests)
    BY <1>1, <1>9, <1>10, TypesKnown, AppendedProperties
  <2> QED BY <1>11, <2>1, <2>2
<1>13. TypeOK'
  <2>1. syncing' \in BOOLEAN /\ lastSynced' \in Headers \union {None}
    BY <1>1, <1>8, <1>11 DEF TypeOK
  <2> QED BY <1>1, <1>2, <1>3, <1>4, <1>7, <1>12, <2>1 DEF TypeOK
<1>14. /\ syncing' <=> HeadersAt(requests') # {}
       /\ \A i, j \in HeadersAt(requests') : i = j
       /\ \A k \in HeadersAt(requests') : requests'[k] = r
  <2>1. CASE requests' = Append(requests, p) /\ syncing' = FALSE
    BY <1>1, <1>5, <1>9, <2>1, TypesKnown, HeadersOfAppend
  <2>2. CASE requests' = Append(requests, r) /\ syncing' = syncing
    <3>1. HeadersAt(requests') = {Len(requests) + 1} /\ requests'[Len(requests) + 1] = r
      BY <1>1, <1>5, <1>10, <2>2, TypesKnown, HeadersOfAppend, AppendedProperties
    <3> QED BY <1>5, <2>2, <3>1
  <2> QED BY <1>11, <2>1, <2>2
<1>15. OneRequest' /\ ClosedIsEmpty'
  BY <1>4, <1>5, <1>14 DEF OneRequest, ClosedIsEmpty
<1>16. AnswersFollow'
  BY <1>1, <1>3, <1>4, TakenAnswersFollow
<1>17. RowsBelow'
  BY <1>1, <1>3, <1>6, <1>7 DEF RowsBelow, Below
<1>18. ASSUME ~shrunk, ~forkedAgain
       PROVE  /\ \A b \in rows' : b # Checkpoint => Parent(b) \in rows'
              /\ \A b \in rows' : Len(b) <= Len(last)
  BY <1>1, <1>2, <1>3, <1>6, <1>18, SavedRowsLinked DEF last
<1>19. HeadersLinked'
  BY <1>2, <1>3, <1>18 DEF HeadersLinked
<1>20. SyncReaches'
  <2>1. ASSUME ~shrunk, ~forkedAgain, NEW k \in HeadersAt(requests') PROVE Reaches(requests[k].task)'
    <3>1. \A b \in rows' : Len(b) <= Len(last) + Limit - 1
      <4>1. ASSUME NEW b \in rows' PROVE Len(b) <= Len(last) + Limit - 1
        <5>1. Len(b) \in Nat /\ Len(last) \in Nat /\ Len(b) <= Len(last)
          BY <1>7, <1>8, <1>18, <2>1, <4>1, HeaderHeight
        <5> QED BY <5>1, LimitAssumption
      <4> QED BY <4>1
    <3> QED BY <1>8, <1>10, <1>14, <2>1, <3>1 DEF Reaches
  <2>2. ~shrunk' /\ ~forkedAgain' => \A k \in HeadersAt(requests)' : Reaches(requests[k].task)'
    BY <1>2, <1>3, <2>1
  <2> QED BY <1>4, <1>5, <2>2 DEF SyncReaches
<1>21. LastProofIsNewest'
  <2>1. CASE requests' = Append(requests, p) /\ lastSynced' = last
    <3>1. LastProofIn(requests', last)
      BY <1>1, <1>9, <2>1, TypesKnown, ProofsOfAppend
    <3> QED BY <2>1, <3>1 DEF LastProofIsNewest
  <2>2. CASE requests' = Append(requests, r) /\ UNCHANGED <<syncing, lastSynced>>
    BY <1>1, <1>2, <1>3, <1>4, <1>10, <2>2, OtherMessageKeepsProofs DEF SyncInv
  <2> QED BY <1>11, <2>1, <2>2
<1> QED BY <1>13, <1>15, <1>16, <1>17, <1>19, <1>20, <1>21 DEF SyncInv

LEMMA ProofSyncInv == ASSUME SyncInv, didReceiveProof PROVE SyncInv'
<1> DEFINE m == Head(inbox)
<1>1. TypeOK /\ LastProofIsNewest
  BY DEF SyncInv
<1>2. Receive("proof") /\ UNCHANGED <<rows, syncing, forkedAgain, lastSynced>>
  BY DEF didReceiveProof
<1>3. /\ m \in Messages /\ m.type = "proof" /\ inbox # <<>> /\ link = "open"
      /\ UNCHANGED overtaken
  BY <1>1, <1>2, ReceivedMessage
<1>4. CASE m.found
  <2>1. Proceed(<<>>) /\ account' = m.task
    BY <1>4 DEF didReceiveProof
  <2>2. account' \in Headers \union {None}
    BY <1>3, <2>1, MessageFields
  <2>3. requests' = requests /\ answers' = answers /\ inbox' = Tail(inbox)
    BY <1>1, <1>3, <2>1, NothingAsked, ProceedTypes
  <2>4. LastProofIsNewest'
    <3> SUFFICES ASSUME ~overtaken, lastSynced # None
                 PROVE  \/ LastProofIn(requests, lastSynced)
                        \/ NoProofIn(requests) /\ LastProofIn(answers, lastSynced)
                        \/ NoProofIn(requests) /\ NoProofIn(answers) /\ LastProofIn(inbox', lastSynced)
                        \/ /\ NoProofIn(requests) /\ NoProofIn(answers) /\ NoProofIn(inbox')
                           /\ account' = lastSynced
      BY <1>2, <1>3, <2>3 DEF LastProofIsNewest
    <3>1. ~NoProofIn(inbox)
      BY <1>1, <1>3, TypesKnown, TailProperties DEF NoProofIn
    <3>2. LastProofIn(inbox, lastSynced) =>
            \/ LastProofIn(inbox', lastSynced)
            \/ m.task = lastSynced /\ NoProofIn(inbox')
      BY <1>1, <1>3, <2>3, TypesKnown, ProofsOfTail
    <3> QED BY <1>1, <1>3, <2>1, <3>1, <3>2 DEF LastProofIsNewest
  <2> QED BY <1>2, <2>1, <2>2, <2>4, TakenKeepsSync DEF SyncInv
<1>5. CASE ~m.found
  <2>1. Disconnect /\ UNCHANGED account
    BY <1>5 DEF didReceiveProof
  <2> QED BY <1>2, <2>1, DisconnectSyncInv DEF tables
<1> QED BY <1>4, <1>5

LEMMA ClientSyncInv == ASSUME SyncInv, Client PROVE SyncInv'
<1>1. CASE didCompleteHandshake
  BY <1>1, UpdateSyncInv DEF didCompleteHandshake
<1>2. CASE ExpiredBestBlockHeight
  BY <1>2, DisconnectSyncInv DEF ExpiredBestBlockHeight
<1>3. CASE didAnnounce
  BY <1>3, UpdateSyncInv DEF didAnnounce
<1> QED BY <1>1, <1>2, <1>3, ForkSyncInv, RefusedSyncInv, HeadersSyncInv, ProofSyncInv DEF Client

-----------------------------------------------------------------------------
(* Steps of the peer.                                                      *)

LEMMA ReorganiseSyncInv == ASSUME SyncInv, NEW b \in Headers, Reorganise(b) PROVE SyncInv'
<1>1. /\ head' = b /\ shrunk' = (shrunk \/ Len(b) < Len(head)) /\ reorgs < MaxReorgs
      /\ reorgs' = reorgs + 1
      /\ UNCHANGED <<rows, account, link, statusTask, syncing, requests, answers, inbox, greeted,
                     restarts, forkedAgain, overtaken, lastSynced>>
  BY DEF Reorganise, tables, wire, history
<1>2. TypeOK
  BY DEF SyncInv
<1>3. reorgs' \in 0..MaxReorgs
  BY <1>1, <1>2, BoundsAssumption DEF TypeOK
<1>4. shrunk' \in BOOLEAN /\ (~shrunk' => ~shrunk)
  BY <1>1
<1>5. TypeOK'
  BY <1>1, <1>2, <1>3, <1>4 DEF TypeOK
<1>6. ClosedIsEmpty' /\ OneRequest'
  BY <1>1 DEF SyncInv, ClosedIsEmpty, OneRequest
<1>7. ~shrunk' => Len(head) <= Len(head') /\ Len(head) \in Nat /\ Len(head') \in Nat
  <2>1. head \in Headers /\ head' \in Headers
    BY <1>1, <1>2, TypesKnown
  <2>2. Len(head) \in Nat /\ Len(head') \in Nat
    BY <2>1, HeaderHeight
  <2>3. ~shrunk' => ~(Len(b) < Len(head))
    BY <1>1
  <2> QED BY <1>1, <2>2, <2>3
<1>8. ASSUME NEW m \in Messages, m.type = "headers", Below(m) PROVE Below(m)'
  <2> SUFFICES ASSUME ~shrunk', NEW i \in DOMAIN m.headers PROVE Len(m.headers[i]) <= Len(head')
    BY DEF Below
  <2>1. Len(m.headers[i]) <= Len(head)
    BY <1>4, <1>8 DEF Below
  <2>2. Len(m.headers[i]) \in Nat
    BY <1>8, MessageFields, HeaderHeight
  <2> QED BY <1>7, <2>1, <2>2
<1>9. AnswersFollow'
  <2>1. AnswersFollow
    BY DEF SyncInv
  <2>2. ASSUME NEW k \in HeadersAt(answers) PROVE Shaped(answers[k]) /\ Below(answers[k])'
    <3>1. answers[k] \in Messages /\ answers[k].type = "headers"
      BY <1>2, <2>2, TypesKnown, LenProperties, ElementOfSeq DEF HeadersAt
    <3>2. Below(answers[k])
      BY <2>1, <2>2 DEF AnswersFollow
    <3>3. UNCHANGED answers
      BY <1>1
    <3> QED BY <1>8, <2>1, <2>2, <3>1, <3>2, <3>3 DEF AnswersFollow, Below
  <2>3. ASSUME NEW k \in HeadersAt(inbox) PROVE Shaped(inbox[k]) /\ Below(inbox[k])'
    <3>1. inbox[k] \in Messages /\ inbox[k].type = "headers"
      BY <1>2, <2>3, TypesKnown, LenProperties, ElementOfSeq DEF HeadersAt
    <3>2. Below(inbox[k])
      BY <2>1, <2>3 DEF AnswersFollow
    <3>3. UNCHANGED inbox
      BY <1>1
    <3> QED BY <1>8, <2>1, <2>3, <3>1, <3>2, <3>3 DEF AnswersFollow, Below
  <2> QED BY <1>1, <2>2, <2>3 DEF AnswersFollow, Shaped
<1>10. RowsBelow'
  <2> SUFFICES ASSUME ~shrunk', NEW c \in rows PROVE Len(c) <= Len(head')
    BY <1>1 DEF RowsBelow
  <2>1. Len(c) <= Len(head) /\ Len(c) \in Nat
    BY <1>2, <1>4, TypesKnown, HeaderHeight DEF SyncInv, RowsBelow
  <2> QED BY <1>7, <2>1
<1>11. SyncReaches' /\ HeadersLinked'
  <2>1. lastBlockHeader' = lastBlockHeader
    BY <1>1 DEF lastBlockHeader
  <2> QED BY <1>1, <1>4, <2>1 DEF SyncInv, SyncReaches, Covers, Reaches, HeadersLinked
<1>12. LastProofIsNewest'
  BY <1>1 DEF SyncInv, LastProofIsNewest
<1> QED BY <1>5, <1>6, <1>9, <1>10, <1>11, <1>12 DEF SyncInv

\* The peer says something it was not asked.
LEMMA ToldSyncInv ==
  ASSUME SyncInv, link = "open", NEW m \in Messages, m.type \in {"status", "announce"},
         inbox' = Append(inbox, m), greeted' \in BOOLEAN,
         UNCHANGED <<rows, account, link, statusTask, syncing, requests, answers, head, reorgs,
                     shrunk, restarts, forkedAgain, overtaken, lastSynced>>
  PROVE  SyncInv'
<1>1. TypeOK
  BY DEF SyncInv
<1>2. /\ inbox' \in Seq(Messages)
      /\ HeadersAt(inbox') = HeadersAt(inbox)
      /\ \A k \in HeadersAt(inbox) : inbox'[k] = inbox[k]
  <2>1. HeadersAt(inbox') = HeadersAt(inbox)
    <3>1. m.type # "headers"
      OBVIOUS
    <3>2. HeadersAt(Append(inbox, m)) =
            HeadersAt(inbox) \union (IF m.type = "headers" THEN {Len(inbox) + 1} ELSE {})
      BY <1>1, TypesKnown, HeadersOfAppend
    <3> QED BY <3>1, <3>2
  <2>2. HeadersAt(inbox) \subseteq DOMAIN inbox
    BY DEF HeadersAt
  <2> QED BY <1>1, <2>1, <2>2, TypesKnown, AppendedProperties
<1>3. TypeOK'
  BY <1>1, <1>2 DEF TypeOK
<1>4. ClosedIsEmpty' /\ OneRequest'
  BY <1>2 DEF SyncInv, ClosedIsEmpty, OneRequest
<1>5. AnswersFollow'
  <2>1. ASSUME NEW k \in HeadersAt(answers)' PROVE Shaped(answers[k])' /\ Below(answers[k])'
    BY <2>1 DEF SyncInv, AnswersFollow, Below, Shaped
  <2>2. ASSUME NEW k \in HeadersAt(inbox)' PROVE Shaped(inbox[k])' /\ Below(inbox[k])'
    <3>1. PICK n : n = inbox[k] /\ inbox'[k] = n
      BY <1>2, <2>2
    <3>2. Shaped(n) /\ Below(n)
      BY <1>2, <2>2, <3>1 DEF SyncInv, AnswersFollow
    <3>3. Below(n)'
      BY <3>2 DEF Below
    <3> QED BY <3>1, <3>2, <3>3
  <2> QED BY <2>1, <2>2 DEF AnswersFollow
<1>6. RowsBelow' /\ HeadersLinked'
  BY DEF SyncInv, RowsBelow, HeadersLinked
<1>7. SyncReaches'
  <2> SUFFICES ASSUME ~shrunk', ~forkedAgain'
               PROVE  /\ \A k \in HeadersAt(requests') : Reaches(requests[k].task)'
                      /\ \A k \in HeadersAt(answers') : Covers(answers[k])'
                      /\ \A k \in HeadersAt(inbox') : Covers(inbox[k])'
    BY DEF SyncReaches
  <2>1. SyncReaches /\ ~shrunk /\ ~forkedAgain
    BY DEF SyncInv
  <2>2. ASSUME NEW k \in HeadersAt(requests') PROVE Reaches(requests[k].task)'
    <3>1. PICK t : t = requests[k].task /\ requests'[k].task = t
      OBVIOUS
    <3>2. Reaches(t)
      BY <2>1, <2>2, <3>1 DEF SyncReaches
    <3> QED BY <3>1, <3>2, SameRowsReach
  <2>3. ASSUME NEW k \in HeadersAt(answers') PROVE Covers(answers[k])'
    <3>1. PICK n : n = answers[k] /\ answers'[k] = n
      OBVIOUS
    <3>2. Covers(n)
      BY <2>1, <2>3, <3>1 DEF SyncReaches
    <3> QED BY <3>1, <3>2, SameRowsReach
  <2>4. ASSUME NEW k \in HeadersAt(inbox') PROVE Covers(inbox[k])'
    <3>1. PICK n : n = inbox[k] /\ inbox'[k] = n
      BY <1>2, <2>4
    <3>2. Covers(n)
      BY <1>2, <2>1, <2>4, <3>1 DEF SyncReaches
    <3> QED BY <3>1, <3>2, SameRowsReach
  <2> QED BY <2>2, <2>3, <2>4
<1>8. LastProofIsNewest'
  <2>1. /\ NoProofIn(inbox) => NoProofIn(inbox')
        /\ LastProofIn(inbox, lastSynced) => LastProofIn(inbox', lastSynced)
    BY <1>1, TypesKnown, ProofsOfAppend
  <2> QED BY <2>1 DEF SyncInv, LastProofIsNewest
<1> QED BY <1>3, <1>4, <1>5, <1>6, <1>7, <1>8 DEF SyncInv

LEMMA GreetSyncInv == ASSUME SyncInv, Greet \/ Announce PROVE SyncInv'
<1>1. head \in Headers /\ greeted \in BOOLEAN
  BY DEF SyncInv, TypeOK
<1>2. CASE Greet
  <2> DEFINE m == [type |-> "status", head |-> head]
  <2>1. m \in Messages /\ m.type = "status"
    BY <1>1 DEF Messages
  <2>2. inbox' = Append(inbox, m) /\ link = "open" /\ greeted' \in BOOLEAN
    BY <1>2 DEF Greet
  <2> HIDE DEF m
  <2> QED BY <1>2, <2>1, <2>2, ToldSyncInv DEF Greet, tables, history
<1>3. CASE Announce
  <2> DEFINE m == [type |-> "announce", head |-> head]
  <2>1. m \in Messages /\ m.type = "announce"
    BY <1>1 DEF Messages
  <2>2. inbox' = Append(inbox, m) /\ link = "open" /\ greeted' \in BOOLEAN
    BY <1>1, <1>3 DEF Announce, peerVars
  <2> HIDE DEF m
  <2> QED BY <1>3, <2>1, <2>2, ToldSyncInv DEF Announce, tables, history, peerVars
<1> QED BY <1>2, <1>3

LEMMA SameRange == ASSUME NEW n \in Nat, NEW k \in Nat, 1..n = 1..k PROVE n = k
<1>1. n > k => n \in 1..n /\ n \notin 1..k
  OBVIOUS
<1>2. k > n => k \in 1..k /\ k \notin 1..n
  OBVIOUS
<1> QED BY <1>1, <1>2

\* Headers from one on, up or down the peer's chain.
LEMMA ForwardHeaders ==
  ASSUME head \in Headers, NEW from \in Headers
  PROVE  /\ Forward(from) \in Seq(Headers) /\ Len(Forward(from)) <= Limit
         /\ \A i \in DOMAIN Forward(from) :
              /\ Len(Forward(from)[i]) = Len(from) + i - 1
              /\ Len(Forward(from)[i]) <= Len(head)
         /\ Len(from) <= Len(head) =>
              \/ Len(Forward(from)) = Limit
              \/ Len(from) + Len(Forward(from)) - 1 = Len(head)
<1> DEFINE last == IF Len(from) + Limit - 1 <= Len(head) THEN Len(from) + Limit - 1 ELSE Len(head)
           n == IF Len(from) <= last THEN last - Len(from) + 1 ELSE 0
<1>1. Len(from) \in Nat /\ Len(head) \in Nat /\ Limit \in Nat \ {0, 1}
  BY HeaderHeight, LimitAssumption
<1>2. n \in Nat /\ n <= Limit
  BY <1>1
<1>3. Forward(from) = [i \in 1..n |-> Ancestor(head, Len(from) + i - 1)]
  BY DEF Forward
<1>4. ASSUME NEW i \in 1..n
      PROVE  /\ Ancestor(head, Len(from) + i - 1) \in Headers
             /\ Len(Ancestor(head, Len(from) + i - 1)) = Len(from) + i - 1
             /\ Len(from) + i - 1 <= Len(head)
  <2>1. Len(from) + i - 1 \in Nat /\ Len(from) + i - 1 <= Len(head)
    BY <1>1, <1>4
  <2> QED BY <2>1, AncestorIsHeader
<1>5. Len(from) <= Len(head) => n = Limit \/ Len(from) + n - 1 = Len(head)
  BY <1>1
<1> HIDE DEF n
<1>6. Forward(from) \in [1..n -> Headers]
  BY <1>3, <1>4
<1>7. Forward(from) \in Seq(Headers)
  BY <1>2, <1>6, SeqDef
<1>8. Len(Forward(from)) = n /\ DOMAIN Forward(from) = 1..n
  <2>1. Len(Forward(from)) \in Nat /\ DOMAIN Forward(from) = 1..Len(Forward(from))
    BY <1>7, LenProperties
  <2>2. 1..n = 1..Len(Forward(from))
    BY <1>6, <2>1, Zenon
  <2>3. Len(Forward(from)) = n
    BY <1>2, <2>1, <2>2, SameRange, Zenon
  <2> QED BY <1>6, <2>3
<1>9. \A i \in 1..n : Forward(from)[i] = Ancestor(head, Len(from) + i - 1)
  BY <1>3
<1> QED BY <1>2, <1>4, <1>5, <1>7, <1>8, <1>9

LEMMA BackwardHeaders ==
  ASSUME head \in Headers, NEW from \in Headers
  PROVE  /\ Backward(from) \in Seq(Headers) /\ Len(Backward(from)) <= Limit
         /\ \A i \in DOMAIN Backward(from) :
              /\ Len(Backward(from)[i]) = Len(from) - i + 1
              /\ Len(Backward(from)[i]) <= Len(head)
<1> DEFINE n == IF Len(from) > Len(head) THEN 0
                ELSE IF Len(from) + 1 < Limit THEN Len(from) + 1 ELSE Limit
<1>1. Len(from) \in Nat /\ Len(head) \in Nat /\ Limit \in Nat \ {0, 1}
  BY HeaderHeight, LimitAssumption
<1>2. n \in Nat /\ n <= Limit
  BY <1>1
<1>3. Backward(from) = [i \in 1..n |-> Ancestor(head, Len(from) - i + 1)]
  BY DEF Backward
<1>4. ASSUME NEW i \in 1..n
      PROVE  /\ Ancestor(head, Len(from) - i + 1) \in Headers
             /\ Len(Ancestor(head, Len(from) - i + 1)) = Len(from) - i + 1
             /\ Len(from) - i + 1 <= Len(head)
  <2>1. Len(from) - i + 1 \in Nat /\ Len(from) - i + 1 <= Len(head)
    BY <1>1, <1>4
  <2> QED BY <2>1, AncestorIsHeader
<1> HIDE DEF n
<1>6. Backward(from) \in [1..n -> Headers]
  BY <1>3, <1>4
<1>7. Backward(from) \in Seq(Headers)
  BY <1>2, <1>6, SeqDef
<1>8. Len(Backward(from)) = n /\ DOMAIN Backward(from) = 1..n
  <2>1. Len(Backward(from)) \in Nat /\ DOMAIN Backward(from) = 1..Len(Backward(from))
    BY <1>7, LenProperties
  <2>2. 1..n = 1..Len(Backward(from))
    BY <1>6, <2>1
  <2>3. Len(Backward(from)) = n
    BY <1>2, <2>1, <2>2, SameRange
  <2> QED BY <1>6, <2>3
<1>9. \A i \in 1..n : Backward(from)[i] = Ancestor(head, Len(from) - i + 1)
  BY <1>3
<1> QED BY <1>2, <1>4, <1>7, <1>8, <1>9

\* An answer computed now follows the head there is now, and covers what it was asked for.
LEMMA AnswerComputed ==
  ASSUME TypeOK, RowsBelow, NEW task \in HeadersTasks,
         NEW m, m = [type |-> "headers", task |-> task,
                     headers |-> IF task.reverse THEN Backward(task.from) ELSE Forward(task.from)]
  PROVE  /\ m \in Messages /\ m.type = "headers"
         /\ Shaped(m) /\ Below(m)
         /\ ~shrunk /\ Reaches(task) => Covers(m)
<1>1. task.from \in Headers /\ task.reverse \in BOOLEAN /\ head \in Headers
  BY TypesKnown DEF HeadersTasks
<1> DEFINE hs == IF task.reverse THEN Backward(task.from) ELSE Forward(task.from)
<1>2. /\ hs \in Seq(Headers) /\ Len(hs) <= Limit
      /\ \A i \in DOMAIN hs :
           /\ Len(hs[i]) = IF task.reverse THEN Len(task.from) - i + 1 ELSE Len(task.from) + i - 1
           /\ Len(hs[i]) <= Len(head)
      /\ ~task.reverse /\ Len(task.from) <= Len(head) =>
           Len(hs) = Limit \/ Len(task.from) + Len(hs) - 1 = Len(head)
  <2>1. CASE task.reverse
    <3>1. hs = Backward(task.from)
      BY <2>1
    <3> HIDE DEF hs
    <3> QED BY <1>1, <2>1, <3>1, BackwardHeaders
  <2>2. CASE ~task.reverse
    <3>1. hs = Forward(task.from)
      BY <2>2
    <3> HIDE DEF hs
    <3> QED BY <1>1, <2>2, <3>1, ForwardHeaders
  <2> QED BY <2>1, <2>2
<1> HIDE DEF hs
<1>3. m = [type |-> "headers", task |-> task, headers |-> hs]
  BY DEF hs
<1>4. m \in Messages /\ m.type = "headers" /\ m.task = task /\ m.headers = hs
  BY <1>2, <1>3, HeadersMessage
<1>5. Shaped(m) /\ Below(m)
  BY <1>2, <1>4 DEF Shaped, Below
<1>6. ASSUME ~shrunk, Reaches(task), ~task.reverse, NEW b \in rows
      PROVE  Len(b) <= Len(task.from) + Len(hs) - 1
  <2>1. Len(b) <= Len(head) /\ Len(b) <= Len(task.from) + Limit - 1
    BY <1>6 DEF RowsBelow, Reaches
  <2>2. Len(task.from) <= Len(head)
    BY <1>1, <1>6, CheckpointIsHeader, HeaderHeight DEF RowsBelow, Reaches
  <2> QED BY <1>2, <1>6, <2>1, <2>2
<1> QED BY <1>4, <1>5, <1>6 DEF Covers

LEMMA AnswerSyncInv ==
  ASSUME SyncInv, NEW i \in DOMAIN requests, Answer(i)
  PROVE  SyncInv'
<1> DEFINE r == requests[i]
<1>1. TypeOK /\ OneRequest /\ AnswersFollow /\ SyncReaches /\ RowsBelow /\ LastProofIsNewest
  BY DEF SyncInv
<1>2. /\ requests \in Seq(Requests) /\ answers \in Seq(Messages)
      /\ Len(requests) \in Nat /\ DOMAIN requests = 1..Len(requests) /\ i \in 1..Len(requests)
  BY <1>1, TypesKnown, LenProperties
<1>3. /\ requests' = Without(requests, i)
      /\ UNCHANGED <<rows, account, link, statusTask, syncing, inbox, head, greeted, reorgs, shrunk,
                     restarts, forkedAgain, lastSynced>>
  BY DEF Answer, Without, tables, peerVars
<1>4. /\ requests' \in Seq(Requests)
      /\ HeadersAt(requests') =
           {k \in 1..(Len(requests) - 1) : (IF k < i THEN k ELSE k + 1) \in HeadersAt(requests)}
      /\ \A k \in 1..(Len(requests) - 1) :
           requests'[k] = IF k < i THEN requests[k] ELSE requests[k + 1]
  BY <1>2, <1>3, WithoutProperties, HeadersWithout
<1>5. r \in Requests
  BY <1>2, ElementOfSeq
<1>6. link = "open"
  <2>1. requests # <<>>
    OBVIOUS
  <2> QED BY <2>1 DEF SyncInv, ClosedIsEmpty
<1>7. lastBlockHeader' = lastBlockHeader
  BY <1>3 DEF lastBlockHeader
<1>8. ClosedIsEmpty' /\ RowsBelow' /\ HeadersLinked'
  BY <1>3, <1>6 DEF SyncInv, ClosedIsEmpty, RowsBelow, HeadersLinked
<1> HIDE DEF r
<1>9. CASE r.type = "headers"
  <2> DEFINE m == [type |-> "headers", task |-> r.task,
                   headers |-> IF r.task.reverse THEN Backward(r.task.from)
                               ELSE Forward(r.task.from)]
  <2>1. answers' = Append(answers, m) /\ UNCHANGED overtaken
    BY <1>9 DEF Answer, r
  <2>2. r.task \in HeadersTasks
    BY <1>5, <1>9, RequestFields
  <2>3. /\ m \in Messages /\ m.type = "headers" /\ Shaped(m) /\ Below(m)
        /\ ~shrunk /\ Reaches(r.task) => Covers(m)
    BY <1>1, <2>2, AnswerComputed
  <2> HIDE DEF m
  <2>4. i \in HeadersAt(requests)
    BY <1>9 DEF HeadersAt, r
  <2>5. HeadersAt(answers) = {} /\ HeadersAt(inbox) = {} /\ syncing
        /\ \A k \in HeadersAt(requests) : k = i
    BY <1>1, <1>6, <2>4 DEF OneRequest
  <2>6. HeadersAt(requests') = {}
    <3> SUFFICES ASSUME NEW k \in HeadersAt(requests') PROVE FALSE
      OBVIOUS
    <3>1. k \in 1..(Len(requests) - 1) /\ (IF k < i THEN k ELSE k + 1) = i
      BY <1>4, <2>5
    <3> QED BY <1>2, <3>1
  <2>7. /\ HeadersAt(answers') = {Len(answers) + 1} /\ answers'[Len(answers) + 1] = m
        /\ answers' \in Seq(Messages)
    BY <1>2, <2>1, <2>3, <2>5, HeadersOfAppend, AppendedProperties
  <2>8. TypeOK'
    BY <1>1, <1>3, <1>4, <2>1, <2>7 DEF TypeOK
  <2>9. OneRequest'
    BY <1>3, <2>5, <2>6, <2>7 DEF OneRequest
  <2>10. AnswersFollow'
    <3>1. ASSUME NEW k \in HeadersAt(answers)' PROVE Shaped(answers[k])' /\ Below(answers[k])'
      <4>1. answers'[k] = m
        BY <2>7, <3>1
      <4> QED BY <1>3, <2>3, <4>1 DEF Shaped, Below
    <3>2. HeadersAt(inbox)' = {}
      BY <1>3, <2>5
    <3> QED BY <3>1, <3>2 DEF AnswersFollow
  <2>11. SyncReaches'
    <3>1. ASSUME ~shrunk, ~forkedAgain, NEW k \in HeadersAt(answers)' PROVE Covers(answers[k])'
      <4>1. answers'[k] = m
        BY <2>7, <3>1
      <4>2. Covers(m)
        BY <1>1, <2>3, <2>4, <3>1 DEF SyncReaches, r
      <4> QED BY <1>3, <1>7, <4>1, <4>2 DEF Covers, Reaches
    <3>2. ~shrunk' /\ ~forkedAgain' => \A k \in HeadersAt(answers)' : Covers(answers[k])'
      BY <1>3, <3>1
    <3>3. HeadersAt(inbox)' = {} /\ HeadersAt(requests)' = {}
      BY <1>3, <2>5, <2>6
    <3> QED BY <3>2, <3>3 DEF SyncReaches
  <2>12. LastProofIsNewest'
    <3>1. /\ NoProofIn(requests) => NoProofIn(requests')
          /\ LastProofIn(requests, lastSynced) => LastProofIn(requests', lastSynced)
      BY <1>2, <1>3, <1>9, ProofsWithout DEF r
    <3>2. /\ NoProofIn(answers) => NoProofIn(answers')
          /\ LastProofIn(answers, lastSynced) => LastProofIn(answers', lastSynced)
      BY <1>2, <2>1, <2>3, ProofsOfAppend
    <3> QED BY <1>1, <1>3, <2>1, <3>1, <3>2 DEF LastProofIsNewest
  <2> QED BY <1>8, <2>8, <2>9, <2>10, <2>11, <2>12 DEF SyncInv
<1>10. CASE r.type = "proof"
  <2>1. PICK found \in BOOLEAN :
          answers' = Append(answers, [type |-> "proof", task |-> r.task, found |-> found])
    BY <1>10 DEF Answer, r
  <2>2. overtaken' = (overtaken \/ \E j \in 1..(i - 1) : requests[j].type = "proof")
    BY <1>10 DEF Answer, r
  <2> DEFINE m == [type |-> "proof", task |-> r.task, found |-> found]
  <2>3. m \in Messages /\ m.type = "proof" /\ m.task = r.task
    BY <1>5, <1>10, RequestFields DEF Messages
  <2>4. answers' = Append(answers, m)
    BY <2>1
  <2> HIDE DEF m
  <2>5. /\ answers' \in Seq(Messages) /\ HeadersAt(answers') = HeadersAt(answers)
        /\ \A k \in HeadersAt(answers) : answers'[k] = answers[k]
    <3>1. HeadersAt(answers) \subseteq DOMAIN answers
      BY DEF HeadersAt
    <3>2. m.type # "headers"
      BY <2>3
    <3>3. HeadersAt(Append(answers, m)) =
            HeadersAt(answers) \union (IF m.type = "headers" THEN {Len(answers) + 1} ELSE {})
      BY <1>2, <2>3, HeadersOfAppend
    <3>4. answers' \in Seq(Messages) /\ \A k \in DOMAIN answers : answers'[k] = answers[k]
      BY <1>2, <2>3, <2>4, AppendedProperties
    <3> QED BY <2>4, <3>1, <3>2, <3>3, <3>4
  <2>6. i \notin HeadersAt(requests) /\ HeadersAt(requests) \subseteq 1..Len(requests)
    BY <1>2, <1>10 DEF HeadersAt, r
  <2>7. TypeOK'
    <3>1. overtaken' \in BOOLEAN
      BY <2>2
    <3> QED BY <1>1, <1>3, <1>4, <2>5, <3>1 DEF TypeOK
  <2>8. HeadersAt(requests) # {} <=> HeadersAt(requests') # {}
    <3>1. ASSUME NEW k \in HeadersAt(requests) PROVE HeadersAt(requests') # {}
      <4>1. CASE k < i
        <5>1. k \in 1..(Len(requests) - 1)
          BY <1>2, <2>6, <3>1, <4>1
        <5> QED BY <1>4, <3>1, <4>1, <5>1
      <4>2. CASE k > i
        <5>1. k - 1 \in 1..(Len(requests) - 1) /\ ~(k - 1 < i) /\ (k - 1) + 1 = k
          BY <1>2, <2>6, <3>1, <4>2
        <5> QED BY <1>4, <3>1, <5>1
      <4> QED BY <1>2, <2>6, <3>1, <4>1, <4>2
    <3>2. HeadersAt(requests') # {} => HeadersAt(requests) # {}
      BY <1>4
    <3> QED BY <3>1, <3>2
  <2>9. \A k, l \in HeadersAt(requests') : k = l
    <3> SUFFICES ASSUME NEW k \in HeadersAt(requests'), NEW l \in HeadersAt(requests') PROVE k = l
      OBVIOUS
    <3>1. \A a, b \in HeadersAt(requests) : a = b
      BY <1>1, <1>6 DEF OneRequest
    <3>2. /\ k \in 1..(Len(requests) - 1) /\ l \in 1..(Len(requests) - 1)
          /\ (IF k < i THEN k ELSE k + 1) \in HeadersAt(requests)
          /\ (IF l < i THEN l ELSE l + 1) \in HeadersAt(requests)
      BY <1>4
    <3>3. (IF k < i THEN k ELSE k + 1) = (IF l < i THEN l ELSE l + 1)
      BY <3>1, <3>2
    <3> QED BY <1>2, <3>2, <3>3
  <2>10. OneRequest'
    BY <1>1, <1>3, <1>6, <2>5, <2>8, <2>9 DEF OneRequest
  <2>11. AnswersFollow'
    <3>1. ASSUME NEW k \in HeadersAt(answers)' PROVE Shaped(answers[k])' /\ Below(answers[k])'
      BY <1>1, <1>3, <2>5, <3>1 DEF AnswersFollow, Shaped, Below
    <3>2. ASSUME NEW k \in HeadersAt(inbox)' PROVE Shaped(inbox[k])' /\ Below(inbox[k])'
      BY <1>1, <1>3, <3>2 DEF AnswersFollow, Shaped, Below
    <3> QED BY <3>1, <3>2 DEF AnswersFollow
  <2>12. SyncReaches'
    <3>1. ASSUME ~shrunk, ~forkedAgain, NEW k \in HeadersAt(requests)' PROVE Reaches(requests[k].task)'
      <4>1. \E j \in HeadersAt(requests) : requests'[k] = requests[j]
        BY <1>4, <3>1
      <4> QED BY <1>1, <1>3, <1>7, <3>1, <4>1 DEF SyncReaches, Reaches
    <3>2. ASSUME ~shrunk, ~forkedAgain, NEW k \in HeadersAt(answers)' PROVE Covers(answers[k])'
      BY <1>1, <1>3, <1>7, <2>5, <3>2 DEF SyncReaches, Covers, Reaches
    <3>3. ASSUME ~shrunk, ~forkedAgain, NEW k \in HeadersAt(inbox)' PROVE Covers(inbox[k])'
      BY <1>1, <1>3, <1>7, <3>3 DEF SyncReaches, Covers, Reaches
    <3>4. ~shrunk' /\ ~forkedAgain' => \A k \in HeadersAt(requests)' : Reaches(requests[k].task)'
      BY <1>3, <3>1
    <3>5. ~shrunk' /\ ~forkedAgain' => \A k \in HeadersAt(answers)' : Covers(answers[k])'
      BY <1>3, <3>2
    <3>6. ~shrunk' /\ ~forkedAgain' => \A k \in HeadersAt(inbox)' : Covers(inbox[k])'
      BY <1>3, <3>3
    <3> QED BY <3>4, <3>5, <3>6 DEF SyncReaches
  <2>13. LastProofIsNewest'
    <3> SUFFICES ASSUME ~overtaken', lastSynced # None
                 PROVE  \/ LastProofIn(requests', lastSynced)
                        \/ NoProofIn(requests') /\ LastProofIn(answers', lastSynced)
      BY <1>3 DEF LastProofIsNewest
    <3>1. ~overtaken /\ \A j \in 1..(i - 1) : requests[j].type # "proof"
      BY <2>2
    <3>2. ~NoProofIn(requests)
      BY <1>10 DEF NoProofIn, r
    <3>3. LastProofIn(requests, lastSynced)
      BY <1>1, <1>6, <3>1, <3>2 DEF LastProofIsNewest
    <3>4. \/ LastProofIn(requests', lastSynced)
          \/ r.task = lastSynced /\ NoProofIn(requests')
      BY <1>2, <1>3, <3>1, <3>3, ProofsWithout DEF r
    <3>5. r.task = lastSynced => LastProofIn(answers', lastSynced)
      BY <1>2, <2>3, <2>4, ProofsOfAppend
    <3> QED BY <3>4, <3>5
  <2> QED BY <1>8, <2>7, <2>10, <2>11, <2>12, <2>13 DEF SyncInv
<1> QED BY <1>5, <1>9, <1>10, RequestFields

\* An answer goes the rest of its way.
LEMMA SendAnswerSyncInv == ASSUME SyncInv, SendAnswer PROVE SyncInv'
<1> DEFINE m == Head(answers)
<1>1. TypeOK /\ OneRequest /\ AnswersFollow /\ SyncReaches /\ LastProofIsNewest
  BY DEF SyncInv
<1>2. /\ answers # <<>> /\ inbox' = Append(inbox, m) /\ answers' = Tail(answers)
      /\ UNCHANGED <<rows, account, link, statusTask, syncing, requests, head, greeted, reorgs,
                     shrunk, restarts, forkedAgain, overtaken, lastSynced>>
  BY DEF SendAnswer, tables, peerVars, history
<1>3. link = "open"
  BY <1>2 DEF SyncInv, ClosedIsEmpty
<1>4. /\ m \in Messages /\ m = answers[1] /\ 1 \in DOMAIN answers
      /\ answers' \in Seq(Messages) /\ Len(answers) \in Nat \ {0} /\ DOMAIN answers = 1..Len(answers)
      /\ \A k \in 1..(Len(answers) - 1) : answers'[k] = answers[k + 1]
  BY <1>1, <1>2, TypesKnown, TailProperties
<1>5. /\ inbox' \in Seq(Messages) /\ inbox'[Len(inbox) + 1] = m
      /\ Len(inbox) \in Nat /\ DOMAIN inbox = 1..Len(inbox)
      /\ \A k \in DOMAIN inbox : inbox'[k] = inbox[k]
  BY <1>1, <1>2, <1>4, TypesKnown, AppendedProperties
<1>6. HeadersAt(answers') = {k \in 1..(Len(answers) - 1) : k + 1 \in HeadersAt(answers)}
  BY <1>1, <1>2, TypesKnown, HeadersOfTail
<1>7. HeadersAt(inbox') =
        HeadersAt(inbox) \union (IF m.type = "headers" THEN {Len(inbox) + 1} ELSE {})
  BY <1>1, <1>2, <1>4, TypesKnown, HeadersOfAppend
<1>8. HeadersAt(inbox) \subseteq DOMAIN inbox /\ HeadersAt(answers) \subseteq DOMAIN answers
  BY DEF HeadersAt
<1>9. lastBlockHeader' = lastBlockHeader
  BY <1>2 DEF lastBlockHeader
<1>10. m.type = "headers" => 1 \in HeadersAt(answers)
  BY <1>4 DEF HeadersAt
<1> HIDE DEF m
<1>11. TypeOK'
  BY <1>1, <1>2, <1>4, <1>5 DEF TypeOK
<1>12. ClosedIsEmpty' /\ RowsBelow' /\ HeadersLinked'
  BY <1>2, <1>3 DEF SyncInv, ClosedIsEmpty, RowsBelow, HeadersLinked
<1>13. OneRequest'
  <2>1. CASE m.type = "headers"
    <3>1. /\ HeadersAt(inbox) = {} /\ HeadersAt(requests) = {} /\ syncing
          /\ \A k \in HeadersAt(answers) : k = 1
      BY <1>1, <1>3, <1>10, <2>1 DEF OneRequest
    <3>2. HeadersAt(answers') = {}
      <4> SUFFICES ASSUME NEW k \in HeadersAt(answers') PROVE FALSE
        OBVIOUS
      <4>1. k \in 1..(Len(answers) - 1) /\ k + 1 = 1
        BY <1>6, <3>1
      <4> QED BY <4>1
    <3>3. HeadersAt(inbox') = {Len(inbox) + 1}
      BY <1>7, <2>1, <3>1
    <3> QED BY <1>2, <3>1, <3>2, <3>3 DEF OneRequest
  <2>2. CASE m.type # "headers"
    <3>1. HeadersAt(inbox') = HeadersAt(inbox)
      BY <1>7, <2>2
    <3>2. 1 \notin HeadersAt(answers)
      BY <1>4, <2>2 DEF HeadersAt
    <3>3. HeadersAt(answers) # {} => HeadersAt(answers') # {}
      <4> SUFFICES ASSUME NEW k \in HeadersAt(answers) PROVE k - 1 \in HeadersAt(answers')
        OBVIOUS
      <4>1. k - 1 \in 1..(Len(answers) - 1) /\ (k - 1) + 1 = k
        <5>1. k \in 1..Len(answers) /\ k # 1
          BY <1>4, <1>8, <3>2
        <5> QED BY <1>4, <5>1
      <4> QED BY <1>6, <4>1
    <3>4. HeadersAt(answers') # {} => HeadersAt(answers) # {}
      BY <1>6
    <3>5. \A k, l \in HeadersAt(answers) : k = l
      BY <1>1, <1>3 DEF OneRequest
    <3>6. ASSUME NEW k \in HeadersAt(answers'), NEW l \in HeadersAt(answers') PROVE k = l
      <4>1. k \in Int /\ l \in Int /\ k + 1 = l + 1
        BY <1>6, <3>5
      <4> QED BY <4>1
    <3> QED BY <1>1, <1>2, <1>3, <3>1, <3>3, <3>4, <3>6 DEF OneRequest
  <2> QED BY <2>1, <2>2
<1>14. \A k \in HeadersAt(answers') : k + 1 \in HeadersAt(answers) /\ answers'[k] = answers[k + 1]
  BY <1>4, <1>6
<1>15. ASSUME NEW k \in HeadersAt(inbox')
       PROVE  \/ k \in HeadersAt(inbox) /\ inbox'[k] = inbox[k]
              \/ 1 \in HeadersAt(answers) /\ inbox'[k] = answers[1]
  <2>1. CASE k \in HeadersAt(inbox)
    BY <1>5, <1>8, <2>1
  <2>2. CASE m.type = "headers" /\ k = Len(inbox) + 1
    BY <1>4, <1>5, <1>10, <2>2
  <2> QED BY <1>7, <1>15, <2>1, <2>2
<1>16. AnswersFollow'
  <2>1. ASSUME NEW k \in HeadersAt(answers)' PROVE Shaped(answers[k])' /\ Below(answers[k])'
    <3>1. PICK n : n = answers[k + 1] /\ answers'[k] = n
      BY <1>14, <2>1
    <3>2. Shaped(n) /\ Below(n)
      BY <1>1, <1>14, <2>1, <3>1 DEF AnswersFollow
    <3>3. Below(n)'
      BY <1>2, <3>2 DEF Below
    <3> QED BY <3>1, <3>2, <3>3
  <2>2. ASSUME NEW k \in HeadersAt(inbox)' PROVE Shaped(inbox[k])' /\ Below(inbox[k])'
    <3>1. PICK n : inbox'[k] = n /\ Shaped(n) /\ Below(n)
      BY <1>1, <1>15, <2>2 DEF AnswersFollow
    <3>2. Below(n)'
      BY <1>2, <3>1 DEF Below
    <3> QED BY <3>1, <3>2
  <2> QED BY <2>1, <2>2 DEF AnswersFollow
<1>17. SyncReaches'
  <2>1. ASSUME ~shrunk, ~forkedAgain, NEW k \in HeadersAt(requests)' PROVE Reaches(requests[k].task)'
    BY <1>1, <1>2, <1>9, <2>1 DEF SyncReaches, Reaches
  <2>2. ASSUME ~shrunk, ~forkedAgain, NEW k \in HeadersAt(answers)' PROVE Covers(answers[k])'
    <3>1. PICK n : n = answers[k + 1] /\ answers'[k] = n
      BY <1>14, <2>2
    <3>2. Covers(n)
      BY <1>1, <1>14, <2>2, <3>1 DEF SyncReaches
    <3>3. Covers(n)'
      BY <1>2, <3>2, SameRowsReach
    <3> QED BY <3>1, <3>3
  <2>3. ASSUME ~shrunk, ~forkedAgain, NEW k \in HeadersAt(inbox)' PROVE Covers(inbox[k])'
    <3>1. PICK n : inbox'[k] = n /\ Covers(n)
      BY <1>1, <1>15, <2>3 DEF SyncReaches
    <3>2. Covers(n)'
      BY <1>2, <3>1, SameRowsReach
    <3> QED BY <3>1, <3>2
  <2>4. ~shrunk' /\ ~forkedAgain' => \A k \in HeadersAt(requests)' : Reaches(requests[k].task)'
    BY <1>2, <2>1
  <2>5. ~shrunk' /\ ~forkedAgain' => \A k \in HeadersAt(answers)' : Covers(answers[k])'
    BY <1>2, <2>2
  <2>6. ~shrunk' /\ ~forkedAgain' => \A k \in HeadersAt(inbox)' : Covers(inbox[k])'
    BY <1>2, <2>3
  <2> QED BY <2>4, <2>5, <2>6 DEF SyncReaches
<1>18. LastProofIsNewest'
  <2> SUFFICES ASSUME ~overtaken, lastSynced # None
               PROVE  \/ LastProofIn(requests, lastSynced)
                      \/ NoProofIn(requests) /\ LastProofIn(answers', lastSynced)
                      \/ NoProofIn(requests) /\ NoProofIn(answers') /\ LastProofIn(inbox', lastSynced)
                      \/ /\ NoProofIn(requests) /\ NoProofIn(answers') /\ NoProofIn(inbox')
                         /\ account = lastSynced
    BY <1>2 DEF LastProofIsNewest
  <2>1. /\ NoProofIn(answers) => NoProofIn(answers')
        /\ LastProofIn(answers, lastSynced) =>
             \/ LastProofIn(answers', lastSynced)
             \/ m.type = "proof" /\ m.task = lastSynced /\ NoProofIn(answers')
    BY <1>1, <1>2, TypesKnown, ProofsOfTail DEF m
  <2>2. /\ m.type # "proof" /\ NoProofIn(inbox) => NoProofIn(inbox')
        /\ m.type # "proof" /\ LastProofIn(inbox, lastSynced) => LastProofIn(inbox', lastSynced)
        /\ m.type = "proof" /\ m.task = lastSynced => LastProofIn(inbox', lastSynced)
    BY <1>1, <1>2, <1>4, TypesKnown, ProofsOfAppend
  <2>3. NoProofIn(answers) => m.type # "proof"
    BY <1>4 DEF NoProofIn
  <2> QED BY <1>1, <1>3, <2>1, <2>2, <2>3 DEF LastProofIsNewest
<1> QED BY <1>11, <1>12, <1>13, <1>16, <1>17, <1>18 DEF SyncInv

LEMMA NextSyncInv == SyncInv /\ [Next]_vars => SyncInv'
<1> SUFFICES ASSUME SyncInv, [Next]_vars PROVE SyncInv'
  OBVIOUS
<1>1. CASE UNCHANGED vars
  <2> USE <1>1 DEF vars, tables, wire, peerVars, history
  <2>1. TypeOK' /\ ClosedIsEmpty' /\ OneRequest' /\ RowsBelow' /\ HeadersLinked' /\ LastProofIsNewest'
    BY DEF SyncInv, TypeOK, ClosedIsEmpty, OneRequest, RowsBelow, HeadersLinked, LastProofIsNewest
  <2>2. AnswersFollow'
    BY DEF SyncInv, AnswersFollow, Shaped, Below
  <2>3. SyncReaches'
    <3>1. lastBlockHeader' = lastBlockHeader
      BY DEF lastBlockHeader
    <3> QED BY <3>1 DEF SyncInv, SyncReaches, Covers, Reaches
  <2> QED BY <2>1, <2>2, <2>3 DEF SyncInv
<1>2. ASSUME NEW b \in Headers, Reorganise(b) PROVE SyncInv'
  BY <1>2, ReorganiseSyncInv
<1>3. ASSUME NEW i \in DOMAIN requests, Answer(i) PROVE SyncInv'
  BY <1>3, AnswerSyncInv
<1> QED BY <1>1, <1>2, <1>3, ConnectionSyncInv, ClientSyncInv, GreetSyncInv, SendAnswerSyncInv DEF Next

LEMMA InvariantHolds == Spec => []SyncInv
  BY InitSyncInv, NextSyncInv, PTL DEF Spec

-----------------------------------------------------------------------------
(* What the runs check.                                                    *)

\* Every variable keeps its type, and the table has one header at a height (the primary key
\* of BlockHeader).
THEOREM TypeCorrect == Spec => []TypeOK
<1>1. SyncInv => TypeOK
  BY DEF SyncInv
<1> QED BY <1>1, InvariantHolds, PTL

\* Whatever the peer's chain does and however often the process restarts, the stored headers
\* are one chain, as long as the peer's does not shrink and no fork is met while another is
\* being resolved (BlockSyncer.handleFork, BlockValidator and BlockHeaderDao.insertAll).
THEOREM StoredHeadersAreLinked == Spec => []HeadersLinked
<1>1. SyncInv => HeadersLinked
  BY DEF SyncInv
<1> QED BY <1>1, InvariantHolds, PTL

\* The three places as one queue.
LEMMA InFlightPlaces ==
  ASSUME TypeOK
  PROVE  /\ Len(requests) \in Nat /\ Len(answers) \in Nat /\ Len(inbox) \in Nat
         /\ DOMAIN requests = 1..Len(requests) /\ DOMAIN answers = 1..Len(answers)
         /\ DOMAIN inbox = 1..Len(inbox)
         /\ DOMAIN InFlight = 1..(Len(requests) + Len(answers) + Len(inbox))
         /\ \A i \in DOMAIN InFlight :
              InFlight[i] = IF i <= Len(requests) THEN requests[i]
                            ELSE IF i <= Len(requests) + Len(answers)
                                 THEN answers[i - Len(requests)]
                            ELSE inbox[i - (Len(requests) + Len(answers))]
<1> DEFINE All == Requests \union Messages
           front == requests \o answers
<1>1. /\ requests \in Seq(All) /\ answers \in Seq(All) /\ inbox \in Seq(All)
      /\ Len(requests) \in Nat /\ Len(answers) \in Nat /\ Len(inbox) \in Nat
      /\ DOMAIN requests = 1..Len(requests) /\ DOMAIN answers = 1..Len(answers)
      /\ DOMAIN inbox = 1..Len(inbox)
  <2>1. Requests \subseteq All /\ Messages \subseteq All
    OBVIOUS
  <2> HIDE DEF All
  <2> QED BY <2>1, TypesKnown, SeqMonotonic, LenProperties
<1> HIDE DEF All
<1>2. /\ front \in Seq(All) /\ Len(front) = Len(requests) + Len(answers)
      /\ \A i \in 1..(Len(requests) + Len(answers)) :
            front[i] = IF i <= Len(requests) THEN requests[i] ELSE answers[i - Len(requests)]
  BY <1>1, ConcatProperties
<1> HIDE DEF front
<1>3. /\ front \o inbox \in Seq(All) /\ Len(front \o inbox) = Len(front) + Len(inbox)
      /\ \A i \in 1..(Len(front) + Len(inbox)) :
            (front \o inbox)[i] = IF i <= Len(front) THEN front[i] ELSE inbox[i - Len(front)]
  <2>1. front \in Seq(All) /\ inbox \in Seq(All)
    BY <1>1, <1>2
  <2> QED BY <2>1, ConcatProperties
<1>4. InFlight = front \o inbox
  BY DEF InFlight, front
<1>5. DOMAIN InFlight = 1..(Len(requests) + Len(answers) + Len(inbox))
  BY <1>2, <1>3, <1>4, LenProperties
<1>6. ASSUME NEW i \in DOMAIN InFlight
      PROVE  InFlight[i] = IF i <= Len(requests) THEN requests[i]
                           ELSE IF i <= Len(requests) + Len(answers)
                                THEN answers[i - Len(requests)]
                           ELSE inbox[i - (Len(requests) + Len(answers))]
  <2>1. i \in 1..(Len(front) + Len(inbox))
    BY <1>2, <1>5
  <2>2. CASE i <= Len(front)
    <3>1. i \in 1..(Len(requests) + Len(answers)) /\ InFlight[i] = front[i]
      BY <1>1, <1>2, <1>3, <1>4, <2>1, <2>2
    <3> QED BY <1>1, <1>2, <2>2, <3>1
  <2>3. CASE ~(i <= Len(front))
    <3>1. InFlight[i] = inbox[i - Len(front)]
      BY <1>3, <1>4, <2>1, <2>3
    <3> QED BY <1>1, <1>2, <2>1, <2>3, <3>1
  <2> QED BY <2>2, <2>3
<1> QED BY <1>1, <1>5, <1>6

\* The flag that shuts out announcements is set exactly while one request for headers is
\* under way, whatever is lost (BlockSyncer.syncing).
THEOREM SyncingIsOneRequest == Spec => []SyncingHasRequest
<1>1. SyncInv => SyncingHasRequest
  <2> SUFFICES ASSUME TypeOK, OneRequest, link = "open" PROVE
                 /\ syncing <=> OfType("headers") # {}
                 /\ \A i, j \in OfType("headers") : i = j
    BY DEF SyncInv, SyncingHasRequest
  <2> DEFINE nr == Len(requests)
             na == Len(answers)
  <2>1. /\ nr \in Nat /\ na \in Nat /\ Len(inbox) \in Nat
        /\ DOMAIN requests = 1..nr /\ DOMAIN answers = 1..na
        /\ DOMAIN inbox = 1..Len(inbox)
        /\ DOMAIN InFlight = 1..(nr + na + Len(inbox))
        /\ \A i \in DOMAIN InFlight :
             InFlight[i] = IF i <= nr THEN requests[i]
                           ELSE IF i <= nr + na THEN answers[i - nr] ELSE inbox[i - (nr + na)]
    BY InFlightPlaces
  <2> HIDE DEF nr, na
  <2>2. ASSUME NEW i \in OfType("headers")
        PROVE  \/ i <= nr /\ i \in HeadersAt(requests)
               \/ i > nr /\ i <= nr + na /\ i - nr \in HeadersAt(answers)
               \/ i > nr + na /\ i - (nr + na) \in HeadersAt(inbox)
    <3>1. i \in 1..(nr + na + Len(inbox)) /\ InFlight[i].type = "headers"
      BY <2>1, <2>2 DEF OfType
    <3>2. CASE i <= nr
      <4>1. i \in 1..nr /\ requests[i].type = "headers"
        BY <2>1, <3>1, <3>2
      <4> QED BY <2>1, <3>2, <4>1 DEF HeadersAt
    <3>3. CASE i > nr /\ i <= nr + na
      <4>1. i - nr \in 1..na /\ answers[i - nr].type = "headers"
        BY <2>1, <3>1, <3>3
      <4> QED BY <2>1, <3>3, <4>1 DEF HeadersAt
    <3>4. CASE i > nr + na
      <4>1. i - (nr + na) \in 1..Len(inbox) /\ inbox[i - (nr + na)].type = "headers"
        BY <2>1, <3>1, <3>4
      <4> QED BY <2>1, <3>4, <4>1 DEF HeadersAt
    <3> QED BY <2>1, <3>1, <3>2, <3>3, <3>4
  <2>3. ASSUME NEW i \in HeadersAt(requests) PROVE i \in OfType("headers")
    BY <2>1, <2>3 DEF HeadersAt, OfType
  <2>4. ASSUME NEW i \in HeadersAt(answers) PROVE i + nr \in OfType("headers")
    <3>1. i \in 1..na /\ answers[i].type = "headers"
      BY <2>1, <2>4 DEF HeadersAt
    <3>2. i + nr \in DOMAIN InFlight /\ ~(i + nr <= nr) /\ i + nr <= nr + na /\ i + nr - nr = i
      BY <2>1, <3>1
    <3> QED BY <2>1, <3>1, <3>2 DEF OfType
  <2>5. ASSUME NEW i \in HeadersAt(inbox) PROVE i + (nr + na) \in OfType("headers")
    <3>1. i \in 1..Len(inbox) /\ inbox[i].type = "headers"
      BY <2>1, <2>5 DEF HeadersAt
    <3>2. /\ i + (nr + na) \in DOMAIN InFlight /\ ~(i + (nr + na) <= nr)
          /\ ~(i + (nr + na) <= nr + na) /\ i + (nr + na) - (nr + na) = i
      BY <2>1, <3>1
    <3> QED BY <2>1, <3>1, <3>2 DEF OfType
  <2>6. ASSUME NEW i \in OfType("headers"), NEW j \in OfType("headers") PROVE i = j
    <3>1. i \in Int /\ j \in Int
      BY <2>1 DEF OfType
    <3>2. /\ \A k, l \in HeadersAt(requests) : k = l
          /\ \A k, l \in HeadersAt(answers) : k = l
          /\ \A k, l \in HeadersAt(inbox) : k = l
          /\ HeadersAt(requests) = {} \/ HeadersAt(answers) = {}
          /\ HeadersAt(requests) = {} \/ HeadersAt(inbox) = {}
          /\ HeadersAt(answers) = {} \/ HeadersAt(inbox) = {}
      BY DEF OneRequest
    <3>3. CASE i <= nr /\ i \in HeadersAt(requests)
      BY <2>1, <2>2, <3>1, <3>2, <3>3
    <3>4. CASE i > nr /\ i <= nr + na /\ i - nr \in HeadersAt(answers)
      <4>1. j - nr \in HeadersAt(answers)
        BY <2>2, <3>2, <3>4
      <4>2. i - nr = j - nr
        BY <3>2, <3>4, <4>1
      <4> QED BY <2>1, <3>1, <4>2
    <3>5. CASE i > nr + na /\ i - (nr + na) \in HeadersAt(inbox)
      <4>1. j - (nr + na) \in HeadersAt(inbox)
        BY <2>2, <3>2, <3>5
      <4>2. i - (nr + na) = j - (nr + na)
        BY <3>2, <3>5, <4>1
      <4> QED BY <2>1, <3>1, <4>2
    <3> QED BY <2>2, <3>3, <3>4, <3>5
  <2>7. (\/ HeadersAt(requests) # {}
         \/ HeadersAt(answers) # {}
         \/ HeadersAt(inbox) # {}) <=> OfType("headers") # {}
    BY <2>2, <2>3, <2>4, <2>5
  <2> QED BY <2>6, <2>7 DEF OneRequest
<1> QED BY <1>1, InvariantHolds, PTL

\* When no proof is under way the account is that of the header last synced to, however the
\* chain moved between the requests, if the peer answers them in order
\* (BlockSyncer.handleBlockHeaders, AccountStateSyncer.didReceiveProof).
THEOREM AccountFollowsSync == Spec => []AccountIsLastSynced
<1>1. SyncInv => AccountIsLastSynced
  <2> SUFFICES ASSUME TypeOK, LastProofIsNewest, link = "open", ~overtaken, lastSynced # None,
                      OfType("proof") = {}
               PROVE  account = lastSynced
    BY DEF SyncInv, AccountIsLastSynced
  <2>1. /\ Len(requests) \in Nat /\ Len(answers) \in Nat /\ Len(inbox) \in Nat
        /\ DOMAIN requests = 1..Len(requests) /\ DOMAIN answers = 1..Len(answers)
        /\ DOMAIN inbox = 1..Len(inbox)
        /\ DOMAIN InFlight = 1..(Len(requests) + Len(answers) + Len(inbox))
        /\ \A i \in DOMAIN InFlight :
             InFlight[i] = IF i <= Len(requests) THEN requests[i]
                           ELSE IF i <= Len(requests) + Len(answers)
                                THEN answers[i - Len(requests)]
                           ELSE inbox[i - (Len(requests) + Len(answers))]
    BY InFlightPlaces
  <2>2. \A i \in DOMAIN InFlight : InFlight[i].type # "proof"
    BY DEF OfType
  <2>3. NoProofIn(requests)
    BY <2>1, <2>2 DEF NoProofIn
  <2>4. ASSUME NEW i \in DOMAIN answers PROVE answers[i].type # "proof"
    <3> DEFINE k == i + Len(requests)
    <3>1. k \in DOMAIN InFlight /\ ~(k <= Len(requests)) /\ k <= Len(requests) + Len(answers)
          /\ k - Len(requests) = i
      BY <2>1, <2>4
    <3> HIDE DEF k
    <3> QED BY <2>1, <2>2, <3>1
  <2>5. ASSUME NEW i \in DOMAIN inbox PROVE inbox[i].type # "proof"
    <3> DEFINE k == i + (Len(requests) + Len(answers))
    <3>1. k \in DOMAIN InFlight /\ ~(k <= Len(requests)) /\ ~(k <= Len(requests) + Len(answers))
          /\ k - (Len(requests) + Len(answers)) = i
      BY <2>1, <2>5
    <3> HIDE DEF k
    <3> QED BY <2>1, <2>2, <3>1
  <2> QED BY <2>3, <2>4, <2>5 DEF LastProofIsNewest, NoProofIn, LastProofIn
<1> QED BY <1>1, InvariantHolds, PTL
=============================================================================
