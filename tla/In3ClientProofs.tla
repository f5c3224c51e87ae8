--------------------------- MODULE In3ClientProofs ---------------------------
(***************************************************************************)
(* Proofs about In3Client, for every list, white list, answer and fault,   *)
(* every number of attempts and retries and any number of requests, codes  *)
(* and restarts.                                                           *)
(***************************************************************************)
EXTENDS In3Client, SequenceTheorems, WellFoundedInduction, TLAPS

-----------------------------------------------------------------------------
(* The contexts: their shape and what they know of their answer.           *)

Replies == UNION {Answers(kind) : kind \in Kinds}
Matches == [addr : Nodes, of : Blocks, ok : BOOLEAN]
Contexts ==
  [kind : Kinds, dataNode : Nodes \cup {None}, code : Nat, needs : Nat, attempt : 0 .. MaxAttempts,
   nodes : Seq(Matches), raw : Seq(Replies), response : {None} \cup Replies,
   error : BOOLEAN, state : Codes]

AnswersFit(c) ==
  /\ c.response \in {None} \cup Answers(c.kind)
  /\ c.raw \in Seq(Answers(c.kind))

\* The response was accepted: it is proved with every code at hand, or it is the last one.
Verified(c) ==
  \/ c.response.quality = "good" /\ c.needs = 0
  \/ c.response.quality \in {"refused", "errored"} /\ c.attempt = MaxAttempts - 1

Succeeds(c) == c.state = "OK" /\ c.response # None

\* A node that reported an error is only rejected while another attempt is left.
ContextInv(c) ==
  /\ c.raw # <<>> => Len(c.raw) = Len(c.nodes)
  /\ ~c.error => c.attempt < MaxAttempts
  /\ Succeeds(c) => Verified(c)
  /\ c.state = "OK" /\ c.response = None => c.needs = 0
  /\ \A n \in DOMAIN c.nodes : ~c.nodes[n].ok =>
       /\ c.raw # <<>>
       /\ c.raw[n].quality \in {"refused", "errored"} => c.attempt < MaxAttempts - 1

GoodContexts == {c \in Contexts : AnswersFit(c) /\ ContextInv(c)}
ChainInv == ctxs \in Seq(GoodContexts)

-----------------------------------------------------------------------------
(* The calls: who waits for whom, and what each has found out so far.      *)

SendPlaces == {"start", "executed", "required", "sub", "rechecked"}
ExecutePlaces == {"start", "required", "work", "listed", "whitelist", "whitelisted", "pick",
                  "verify", "verifying"}
Frames == [fn : {"send"}, ctx : Nat, at : SendPlaces, n : Nat]
          \cup [fn : {"execute"}, ctx : Nat, at : ExecutePlaces, n : Nat]

\* The call f waits for the call g.
Awaits(f, g) ==
  \/ f.fn = "send" /\ f.at \in {"executed", "rechecked"} /\ g.fn = "execute" /\ g.ctx = f.ctx
  \/ f.fn = "send" /\ f.at = "sub" /\ g.fn = "send" /\ g.ctx = f.ctx + 1
  \/ /\ f.fn = "execute" /\ f.at \in {"required", "listed", "whitelisted", "verifying"}
     /\ g.fn = "execute" /\ g.ctx = f.ctx + 1

StackType ==
  /\ stack \in Seq(Frames)
  /\ \A i \in DOMAIN stack : stack[i].ctx \in DOMAIN ctxs
  /\ stack # <<>> => stack[1].fn = "send" /\ stack[1].ctx = 1
  /\ \A i, j \in DOMAIN stack : j = i + 1 => Awaits(stack[i], stack[j])
  /\ \A i, j \in DOMAIN stack : i <= j => stack[i].ctx <= stack[j].ctx

\* What in3_ctx_execute has found out about its context c where it is.
FrameInv(f, c) ==
  f.fn = "execute" /\ f.at # "start" =>
    /\ c.attempt < MaxAttempts
    /\ c.state = "OK" => c.needs = 0
    /\ f.at \in {"listed", "whitelist", "whitelisted", "pick"} => c.nodes = <<>> /\ c.raw = <<>>
    /\ f.at \in {"verify", "verifying"} => c.raw # <<>> /\ f.n > 0
    /\ f.at = "verifying" => f.n <= Len(c.nodes) /\ c.raw[f.n].quality = "good"
FramesInv == \A i \in DOMAIN stack : FrameInv(stack[i], ctxs[stack[i].ctx])

\* What in3_ctx_execute or in3_send_ctx reports as a success has an accepted response.
ReturnInv ==
  ret = "OK" =>
    /\ In("send", "executed") \/ In("send", "rechecked") => Succeeds(Ctx)
    /\ ctxs # <<>> /\ stack = <<>> => Succeeds(ctxs[1])

CallsInv == StackType /\ FramesInv /\ ReturnInv

-----------------------------------------------------------------------------
(* The rest of the client's state.                                         *)

Stores == [version : Blocks, last : Blocks, until : [Nodes -> 0 .. Later]]
ListType ==
  /\ now \in 0 .. MaxTime /\ version \in Blocks /\ lastBlock \in Blocks
  /\ boot \subseteq Listed /\ flagged \subseteq Nodes
  /\ until \in [Nodes -> 0 .. Later]
  /\ upd8 \in {None} \cup Updates
  /\ wl \in {None} \cup WhiteListings
  /\ ret \in Codes
  /\ cache \in [list : {None} \cup Stores, white : {None} \cup DOMAIN WhiteLists]

\* What was announced is newer than the list.
UpdateInv == upd8 # None /\ upd8.exp # 0 => upd8.exp > lastBlock

ClientInv == ListType /\ UpdateInv /\ ChainInv /\ CallsInv

-----------------------------------------------------------------------------
(* Sequences.                                                              *)

\* A beginning of a sequence.
LEMMA Beginning ==
  ASSUME NEW T, NEW s \in Seq(T), NEW n \in 0 .. Len(s)
  PROVE  /\ SubSeq(s, 1, n) \in Seq(T) /\ Len(SubSeq(s, 1, n)) = n
         /\ DOMAIN SubSeq(s, 1, n) = 1 .. n
         /\ \A i \in 1 .. n : SubSeq(s, 1, n)[i] = s[i]
<1>1. n \in Int /\ 1 \in Int /\ \A i \in 1 .. n : s[i] \in T
  BY ElementOfSeq, LenProperties
<1>2. /\ SubSeq(s, 1, n) \in Seq(T)
      /\ Len(SubSeq(s, 1, n)) = IF 1 <= n THEN n - 1 + 1 ELSE 0
      /\ \A i \in 1 .. n - 1 + 1 : SubSeq(s, 1, n)[i] = s[1 + i - 1]
  BY <1>1, SubSeqProperties
<1>3. Len(SubSeq(s, 1, n)) = n
  BY <1>2, LenProperties
<1>4. ASSUME NEW i \in 1 .. n PROVE SubSeq(s, 1, n)[i] = s[i]
  BY <1>2
<1>5. DOMAIN SubSeq(s, 1, n) = 1 .. n
  BY <1>2, <1>3, LenProperties
<1> QED BY <1>2, <1>3, <1>4, <1>5

\* An end of a sequence.
LEMMA Ending ==
  ASSUME NEW T, NEW s \in Seq(T), NEW n \in 0 .. Len(s)
  PROVE  /\ SubSeq(s, n + 1, Len(s)) \in Seq(T)
         /\ Len(SubSeq(s, n + 1, Len(s))) = Len(s) - n
         /\ \A i \in 1 .. Len(s) - n : SubSeq(s, n + 1, Len(s))[i] = s[n + i]
<1>1. Len(s) \in Nat /\ n \in Int /\ n + 1 \in Int
  BY LenProperties
<1>2. \A i \in n + 1 .. Len(s) : s[i] \in T
  BY <1>1, ElementOfSeq
<1>3. /\ SubSeq(s, n + 1, Len(s)) \in Seq(T)
      /\ Len(SubSeq(s, n + 1, Len(s))) = IF n + 1 <= Len(s) THEN Len(s) - (n + 1) + 1 ELSE 0
      /\ \A i \in 1 .. Len(s) - (n + 1) + 1 : SubSeq(s, n + 1, Len(s))[i] = s[n + 1 + i - 1]
  BY <1>1, <1>2, SubSeqProperties
<1>4. ASSUME NEW i \in 1 .. Len(s) - n PROVE SubSeq(s, n + 1, Len(s))[i] = s[n + i]
  <2>1. i \in 1 .. Len(s) - (n + 1) + 1 /\ n + 1 + i - 1 = n + i
    BY <1>1
  <2> QED BY <1>3, <2>1
<1> QED BY <1>1, <1>3, <1>4

LEMMA SmallestOfNaturals ==
  ASSUME NEW T, T \subseteq Nat, T # {}
  PROVE  \E x \in T : \A y \in T : x <= y
<1> DEFINE Less == {p \in Nat \X Nat : p[1] < p[2]}
<1>1. IsWellFoundedOn(Less, Nat)
  BY NatLessThanWellFounded DEF OpToRel
<1>2. PICK x \in T : \A y \in T : ~ (<<y, x>> \in Less)
  <2> HIDE DEF Less
  <2> QED BY <1>1, WFMin
<1>3. ASSUME NEW y \in T PROVE x <= y
  <2>1. x \in Nat /\ y \in Nat /\ <<y, x>> \in Nat \X Nat
    BY <1>3
  <2>2. ~(y < x)
    BY <1>2, <2>1
  <2> QED BY <2>1, <2>2
<1> QED BY <1>3

-----------------------------------------------------------------------------
(* What a step does to the calls.                                          *)

\* The call under way works on a context of the chain.
LEMMA TheCall ==
  ASSUME ChainInv, StackType, stack # <<>>
  PROVE  /\ Len(stack) \in Nat \ {0} /\ DOMAIN stack = 1 .. Len(stack)
         /\ Top = stack[Len(stack)] /\ Top \in Frames
         /\ Len(ctxs) \in Nat /\ DOMAIN ctxs = 1 .. Len(ctxs)
         /\ this \in 1 .. Len(ctxs) /\ this = Top.ctx
         /\ Ctx = ctxs[this] /\ Ctx \in GoodContexts
<1>1. Len(stack) \in Nat \ {0} /\ DOMAIN stack = 1 .. Len(stack)
  BY EmptySeq, LenProperties DEF StackType
<1>2. Top = stack[Len(stack)] /\ Top \in Frames
  BY <1>1, ElementOfSeq DEF Top, StackType
<1>3. Len(ctxs) \in Nat /\ DOMAIN ctxs = 1 .. Len(ctxs)
  BY LenProperties DEF ChainInv
<1>4. this \in 1 .. Len(ctxs) /\ this = Top.ctx
  BY <1>1, <1>2, <1>3 DEF StackType, this
<1> QED BY <1>1, <1>2, <1>3, <1>4, ElementOfSeq DEF Ctx, ChainInv

\* A step keeps the chain up to the context it works on.
KeepsChain ==
  /\ ctxs' \in Seq(GoodContexts) /\ this <= Len(ctxs')
  /\ \A k \in 1 .. this - 1 : ctxs'[k] = ctxs[k]

LEMMA KeptChain ==
  ASSUME ChainInv, StackType, stack # <<>>, KeepsChain
  PROVE  /\ Len(ctxs') \in Nat /\ DOMAIN ctxs' = 1 .. Len(ctxs') /\ this \in 1 .. Len(ctxs')
         /\ ctxs'[this] \in GoodContexts /\ ctxs' # <<>>
<1>1. Len(ctxs') \in Nat /\ DOMAIN ctxs' = 1 .. Len(ctxs')
  BY LenProperties DEF KeepsChain
<1>2. this \in 1 .. Len(ctxs')
  BY <1>1, TheCall DEF KeepsChain
<1> QED BY <1>1, <1>2, ElementOfSeq, EmptySeq DEF KeepsChain

\* A position is the last one or lies before it.
LEMMA LastOrBefore ==
  /\ \A n \in Nat : \A i \in 1 .. n : i = n \/ i \in 1 .. n - 1
  /\ \A n \in Nat : \A i \in 1 .. n + 1 : i = n + 1 \/ i = n \/ i \in 1 .. n - 1
  /\ \A n \in Nat : \A i, j \in 1 .. n : j = i + 1 => i \in 1 .. n - 1
  /\ \A n \in Nat : \A i \in 1 .. n - 1 : i \in 1 .. n /\ i + 1 \in 1 .. n /\ i <= n /\ i # n
OBVIOUS

\* What comes right before something small is smaller.
LEMMA RightBelow ==
  \A m, n, k \in Nat : m \in 1 .. k /\ m + 1 = n /\ n <= k => m \in 1 .. k - 1
OBVIOUS

\* Nothing is kept of the contexts of in3_send_ctx's calls.
LEMMA OtherFrame == \A f, c : f.fn # "execute" => FrameInv(f, c)
BY DEF FrameInv

\* What the waiting calls found out stays true.
LEMMA WaitingCalls ==
  ASSUME ChainInv, StackType, FramesInv, stack # <<>>, KeepsChain,
         NEW i \in 1 .. Len(stack) - 1
  PROVE  /\ stack[i] \in Frames /\ stack[i].ctx \in Nat /\ stack[i].ctx <= this
         /\ stack[i].ctx \in DOMAIN ctxs'
         /\ FrameInv(stack[i], ctxs'[stack[i].ctx])
<1>1. i \in DOMAIN stack /\ i + 1 \in DOMAIN stack /\ Len(stack) \in DOMAIN stack
      /\ i + 1 <= Len(stack) /\ i <= Len(stack)
  BY TheCall
<1>2. stack[i] \in Frames /\ stack[i + 1] \in Frames
  BY <1>1, TheCall, ElementOfSeq DEF StackType
<1>3. stack[i].ctx \in Nat /\ stack[i + 1].ctx \in Nat
  BY <1>2 DEF Frames
<1>4. stack[i].ctx <= this /\ stack[i + 1].ctx <= this
  BY <1>1, TheCall DEF StackType
<1>5. Awaits(stack[i], stack[i + 1])
  BY <1>1 DEF StackType
<1>6. stack[i].ctx \in DOMAIN ctxs /\ stack[i].ctx \in DOMAIN ctxs'
  BY <1>1, <1>3, <1>4, TheCall, KeptChain DEF StackType
<1>7. CASE stack[i].fn = "execute"
  <2>1. stack[i].ctx + 1 = stack[i + 1].ctx
    BY <1>5, <1>7 DEF Awaits
  <2>2. stack[i].ctx \in 1 .. this - 1
    <3>1. this \in Nat /\ stack[i].ctx \in 1 .. Len(ctxs) /\ Len(ctxs) \in Nat
      BY <1>6, TheCall
    <3>2. PICK m, n, k \in Nat : m = stack[i].ctx /\ n = stack[i + 1].ctx /\ k = this
      BY <3>1, <1>3, Zenon
    <3>3. m + 1 = n /\ n <= k /\ m \in 1 .. k
      BY <3>1, <3>2, <2>1, <1>4
    <3> QED BY <3>2, <3>3, RightBelow, Zenon
  <2>3. ctxs'[stack[i].ctx] = ctxs[stack[i].ctx]
    BY <2>2 DEF KeepsChain
  <2> QED BY <2>3, <1>1, <1>2, <1>3, <1>4, <1>6 DEF FramesInv
<1>8. CASE stack[i].fn # "execute"
  <2>1. FrameInv(stack[i], ctxs'[stack[i].ctx])
    BY <1>8, OtherFrame, Zenon
  <2> QED BY <2>1, <1>2, <1>3, <1>4, <1>6, Zenon
<1> QED BY <1>7, <1>8

\* The stack when its last call goes on at another place.
LEMMA MovedStack ==
  ASSUME ChainInv, StackType, stack # <<>>, NEW f \in Frames,
         stack' = [stack EXCEPT ![Len(stack)] = f]
  PROVE  /\ stack' \in Seq(Frames) /\ Len(stack') = Len(stack) /\ DOMAIN stack' = DOMAIN stack
         /\ stack'[Len(stack)] = f
         /\ \A i \in 1 .. Len(stack) - 1 : stack'[i] = stack[i]
<1>1. Len(stack) \in 1 .. Len(stack) /\ stack \in Seq(Frames)
  BY TheCall DEF StackType
<1>2. /\ stack' \in Seq(Frames) /\ Len(stack') = Len(stack)
      /\ \A j \in 1 .. Len(stack) : stack'[j] = IF j = Len(stack) THEN f ELSE stack[j]
  BY <1>1, ExceptSeq
<1>3. DOMAIN stack' = DOMAIN stack
  BY <1>2, LenProperties, TheCall, Zenon
<1>4. ASSUME NEW i \in 1 .. Len(stack) - 1 PROVE stack'[i] = stack[i]
  <2>1. i \in 1 .. Len(stack) /\ i # Len(stack)
    <3>1. Len(stack) \in Nat
      BY TheCall
    <3> QED BY <3>1, LastOrBefore, Zenon
  <2> QED BY <1>2, <2>1, Zenon
<1>5. stack'[Len(stack)] = f
  BY <1>1, <1>2
<1> QED BY <1>2, <1>3, <1>4, <1>5

\* The call goes on at another place.
LEMMA Moves ==
  ASSUME ChainInv, StackType, FramesInv, stack # <<>>, KeepsChain,
         NEW f \in Frames, f.fn = Top.fn, f.ctx = this, f.at \notin {"executed", "rechecked"},
         stack' = [stack EXCEPT ![Len(stack)] = f],
         FrameInv(f, ctxs'[this])
  PROVE  CallsInv'
<1>1. /\ stack' \in Seq(Frames) /\ Len(stack') = Len(stack) /\ DOMAIN stack' = DOMAIN stack
      /\ stack'[Len(stack)] = f
      /\ \A i \in 1 .. Len(stack) - 1 : stack'[i] = stack[i]
  BY MovedStack
<1>2. ASSUME NEW i \in DOMAIN stack
      PROVE  /\ stack'[i].fn = stack[i].fn /\ stack'[i].ctx = stack[i].ctx
             /\ stack'[i].ctx \in DOMAIN ctxs' /\ FrameInv(stack'[i], ctxs'[stack'[i].ctx])
  <2>1. CASE i = Len(stack)
    BY <2>1, <1>1, TheCall, KeptChain
  <2>2. CASE i # Len(stack)
    <3>1. i \in 1 .. Len(stack) /\ Len(stack) \in Nat
      BY TheCall
    <3>2. i \in 1 .. Len(stack) - 1
      BY <2>2, <3>1, LastOrBefore, Zenon
    <3> QED BY <3>2, <1>1, WaitingCalls
  <2> QED BY <2>1, <2>2
<1>3. ASSUME NEW i \in DOMAIN stack, NEW j \in DOMAIN stack, j = i + 1
      PROVE  Awaits(stack'[i], stack'[j])
  <2>1. Awaits(stack[i], stack[j])
    BY <1>3 DEF StackType
  <2>2. stack'[i] = stack[i]
    <3>1. Len(stack) \in Nat /\ i \in 1 .. Len(stack) /\ j \in 1 .. Len(stack)
      BY TheCall
    <3>2. i \in 1 .. Len(stack) - 1
      BY <3>1, <1>3, LastOrBefore, Zenon
    <3> QED BY <3>2, <1>1, Zenon
  <2> QED BY <2>1, <2>2, <1>2, <1>3 DEF Awaits
<1>4. stack' # <<>> /\ stack'[1].fn = "send" /\ stack'[1].ctx = 1
  <2>1. 1 \in DOMAIN stack
    BY TheCall
  <2>2. stack[1].fn = "send" /\ stack[1].ctx = 1
    BY DEF StackType
  <2>3. stack'[1].fn = "send" /\ stack'[1].ctx = 1
    <3>1. stack'[1].fn = stack[1].fn /\ stack'[1].ctx = stack[1].ctx
      BY <2>1, <1>2, Zenon
    <3> QED BY <3>1, <2>2
  <2>4. stack' # <<>>
    <3>1. Len(stack') # 0
      BY <1>1, TheCall
    <3> QED BY <3>1, <1>1, EmptySeq
  <2> QED BY <2>3, <2>4
<1>5. StackType'
  <2>1. \A i, j \in DOMAIN stack' : i <= j => stack'[i].ctx <= stack'[j].ctx
    <3>1. ASSUME NEW i \in DOMAIN stack', NEW j \in DOMAIN stack', i <= j
          PROVE  stack'[i].ctx <= stack'[j].ctx
      <4>1. stack[i].ctx <= stack[j].ctx
        BY <1>1, <3>1 DEF StackType
      <4>2. stack'[i].ctx = stack[i].ctx /\ stack'[j].ctx = stack[j].ctx
        BY <1>1, <1>2, <3>1, Zenon
      <4> QED BY <4>1, <4>2, Zenon
    <3> QED BY <3>1
  <2>2. \A i, j \in DOMAIN stack' : j = i + 1 => Awaits(stack'[i], stack'[j])
    BY <1>1, <1>3, Zenon
  <2>3. \A i \in DOMAIN stack' : stack'[i].ctx \in DOMAIN ctxs'
    BY <1>1, <1>2, Zenon
  <2> QED BY <2>1, <2>2, <2>3, <1>1, <1>4 DEF StackType
<1>6. FramesInv'
  BY <1>1, <1>2, Zenon DEF FramesInv
<1>7. ReturnInv'
  BY <1>1, <1>4 DEF ReturnInv, In, Top
<1> QED BY <1>5, <1>6, <1>7 DEF CallsInv

\* The stack when its last call waits for a new one.
LEMMA CalledStack ==
  ASSUME ChainInv, StackType, stack # <<>>, NEW f \in Frames, NEW g \in Frames,
         stack' = Append([stack EXCEPT ![Len(stack)] = f], g)
  PROVE  /\ stack' \in Seq(Frames) /\ Len(stack') = Len(stack) + 1 /\ DOMAIN stack' = 1 .. Len(stack) + 1
         /\ stack'[Len(stack) + 1] = g /\ stack'[Len(stack)] = f
         /\ \A i \in 1 .. Len(stack) - 1 : stack'[i] = stack[i]
<1> DEFINE moved == [stack EXCEPT ![Len(stack)] = f]
           n == Len(stack) + 1
<1>1. /\ moved \in Seq(Frames) /\ Len(moved) = Len(stack)
      /\ moved[Len(stack)] = f
      /\ \A i \in 1 .. Len(stack) - 1 : moved[i] = stack[i]
  <2>1. Len(stack) \in 1 .. Len(stack) /\ stack \in Seq(Frames)
    BY TheCall DEF StackType
  <2>2. /\ moved \in Seq(Frames) /\ Len(moved) = Len(stack)
        /\ \A j \in 1 .. Len(stack) : moved[j] = IF j = Len(stack) THEN f ELSE stack[j]
    BY <2>1, ExceptSeq
  <2>3. ASSUME NEW i \in 1 .. Len(stack) - 1 PROVE moved[i] = stack[i]
    <3>1. i \in 1 .. Len(stack) /\ i # Len(stack)
      <4>1. Len(stack) \in Nat
        BY TheCall
      <4> QED BY <4>1
    <3> HIDE DEF moved
    <3> QED BY <2>2, <3>1
  <2>4. moved[Len(stack)] = f
    BY <2>1, <2>2
  <2> QED BY <2>2, <2>3, <2>4
<1>2. /\ stack' \in Seq(Frames) /\ Len(stack') = n /\ DOMAIN stack' = 1 .. n
      /\ stack'[n] = g /\ stack'[Len(stack)] = f
      /\ \A i \in 1 .. Len(stack) - 1 : stack'[i] = stack[i]
  <2> HIDE DEF moved
  <2>1. /\ Append(moved, g) \in Seq(Frames) /\ Len(Append(moved, g)) = Len(moved) + 1
        /\ \A i \in 1 .. Len(moved) : Append(moved, g)[i] = moved[i]
        /\ Append(moved, g)[Len(moved) + 1] = g
    BY <1>1, AppendProperties
  <2>2. stack' = Append(moved, g)
    BY DEF moved
  <2>3. stack' \in Seq(Frames) /\ Len(stack') = n /\ stack'[n] = g /\ DOMAIN stack' = 1 .. n
    BY <2>1, <2>2, <1>1, LenProperties
  <2>4. Len(stack) \in 1 .. Len(moved) /\ \A i \in 1 .. Len(stack) - 1 : i \in 1 .. Len(moved)
    BY <1>1, TheCall
  <2> QED BY <2>1, <2>2, <2>3, <2>4, <1>1
<1> QED BY <1>2, Zenon

\* The call waits for another one.
LEMMA Calls ==
  ASSUME ChainInv, StackType, FramesInv, stack # <<>>, KeepsChain,
         NEW f \in Frames, f.fn = Top.fn, f.ctx = this, FrameInv(f, ctxs'[this]),
         NEW g \in Frames, g.at = "start", g.ctx \in DOMAIN ctxs', Awaits(f, g),
         stack' = Append([stack EXCEPT ![Len(stack)] = f], g)
  PROVE  CallsInv'
<1> DEFINE n == Len(stack) + 1
<1>2. /\ stack' \in Seq(Frames) /\ Len(stack') = n /\ DOMAIN stack' = 1 .. n
      /\ stack'[n] = g /\ stack'[Len(stack)] = f
      /\ \A i \in 1 .. Len(stack) - 1 : stack'[i] = stack[i]
  BY CalledStack
<1>2a. DOMAIN stack' = 1 .. n /\ Len(stack') = n
  BY <1>2
<1>0. /\ Len(stack) \in Nat \ {0} /\ n = Len(stack) + 1 /\ DOMAIN stack = 1 .. Len(stack)
      /\ this \in Nat
  BY TheCall
<1> HIDE DEF n
<1>3. g.ctx \in Nat /\ this <= g.ctx
  BY TheCall DEF Awaits, Frames
<1>4. ASSUME NEW i \in DOMAIN stack'
      PROVE  /\ stack'[i].ctx \in Nat /\ stack'[i].ctx \in DOMAIN ctxs'
             /\ FrameInv(stack'[i], ctxs'[stack'[i].ctx])
             /\ i < n => stack'[i].ctx <= this /\ stack'[i].ctx = stack[i].ctx /\ stack'[i].fn = stack[i].fn
  <2>1. CASE i = n
    BY <2>1, <1>2, <1>3 DEF FrameInv
  <2>2. CASE i = Len(stack)
    BY <2>2, <1>2, TheCall, KeptChain
  <2>3. CASE i # n /\ i # Len(stack)
    <3>1. i \in 1 .. Len(stack) - 1
      BY <2>3, <1>2a, <1>0
    <3> QED BY <3>1, <1>2, WaitingCalls
  <2> QED BY <2>1, <2>2, <2>3, Zenon
<1>5. ASSUME NEW i \in DOMAIN stack', NEW j \in DOMAIN stack', j = i + 1
      PROVE  Awaits(stack'[i], stack'[j])
  <2>1. CASE j = n
    <3>1. i = Len(stack)
      BY <2>1, <1>5, <1>2a, <1>0
    <3> QED BY <2>1, <3>1, <1>2
  <2>2. CASE j # n
    <3>1. i \in 1 .. Len(stack) - 1 /\ i \in DOMAIN stack /\ j \in DOMAIN stack /\ j < n
      BY <2>2, <1>5, <1>2a, <1>0
    <3>2. Awaits(stack[i], stack[j]) /\ stack'[i] = stack[i]
      BY <3>1, <1>2, <1>5 DEF StackType
    <3>3. stack'[j].ctx = stack[j].ctx /\ stack'[j].fn = stack[j].fn
      BY <3>1, <1>4
    <3> QED BY <3>2, <3>3 DEF Awaits
  <2> QED BY <2>1, <2>2
<1>6. ASSUME NEW i \in DOMAIN stack', NEW j \in DOMAIN stack', i <= j
      PROVE  stack'[i].ctx <= stack'[j].ctx
  <2>1. CASE j = n
    <3>1. CASE i = n
      BY <3>1, <2>1, <1>4
    <3>2. CASE i < n
      <4>1. stack'[i].ctx <= this /\ stack'[i].ctx \in Nat
        BY <3>2, <1>4
      <4>2. stack'[j].ctx = g.ctx
        BY <2>1, <1>2
      <4> QED BY <4>1, <4>2, <1>3, <1>0
    <3>3. i = n \/ i < n
      BY <2>1, <1>6, <1>2a, <1>0
    <3> QED BY <3>1, <3>2, <3>3
  <2>2. CASE j # n
    <3>1. i < n /\ j < n /\ i \in DOMAIN stack /\ j \in DOMAIN stack
      BY <2>2, <1>6, <1>2a, <1>0
    <3>2. stack[i].ctx <= stack[j].ctx
      BY <3>1, <1>6 DEF StackType
    <3>3. stack'[i].ctx = stack[i].ctx /\ stack'[j].ctx = stack[j].ctx
      BY <3>1, <1>4
    <3> QED BY <3>2, <3>3
  <2> QED BY <2>1, <2>2
<1>7. stack' # <<>> /\ stack'[1].fn = "send" /\ stack'[1].ctx = 1
  <2>1. 1 \in DOMAIN stack /\ 1 \in DOMAIN stack' /\ 1 < n /\ n # 0
    BY <1>2a, <1>0
  <2>2. stack'[1].ctx = stack[1].ctx /\ stack'[1].fn = stack[1].fn
    BY <2>1, <1>4
  <2>3. stack' # <<>>
    BY <2>1, <1>2, EmptySeq
  <2> QED BY <2>2, <2>3 DEF StackType
<1>8. StackType'
  <2>1. \A i \in DOMAIN stack' : stack'[i].ctx \in DOMAIN ctxs'
    BY <1>4
  <2>2. stack' \in Seq(Frames)
    BY <1>2
  <2> QED BY <2>1, <2>2, <1>5, <1>6, <1>7 DEF StackType
<1>9. FramesInv'
  BY <1>4 DEF FramesInv
<1>10. ReturnInv'
  <2>1. stack'[Len(stack')].at = "start"
    BY <1>2
  <2> QED BY <2>1, <1>7 DEF ReturnInv, In, Top
<1> QED BY <1>8, <1>9, <1>10 DEF CallsInv

\* The call returns to the one that waits for it, or to the client.
LEMMA TheFrontOfCalls ==
  ASSUME ChainInv, StackType, stack # <<>>, stack' = Front(stack)
  PROVE  /\ stack' \in Seq(Frames) /\ Len(stack') = Len(stack) - 1
         /\ DOMAIN stack' = 1 .. Len(stack) - 1
         /\ \A i \in DOMAIN stack' : stack'[i] = stack[i]
<1>1. Len(stack) - 1 \in 0 .. Len(stack) /\ stack \in Seq(Frames)
  BY TheCall DEF StackType
<1>2. stack' = SubSeq(stack, 1, Len(stack) - 1)
  BY DEF Front
<1> HIDE DEF Front
<1>3. /\ SubSeq(stack, 1, Len(stack) - 1) \in Seq(Frames)
      /\ Len(SubSeq(stack, 1, Len(stack) - 1)) = Len(stack) - 1
      /\ DOMAIN SubSeq(stack, 1, Len(stack) - 1) = 1 .. Len(stack) - 1
      /\ \A i \in 1 .. Len(stack) - 1 : SubSeq(stack, 1, Len(stack) - 1)[i] = stack[i]
  BY <1>1, Beginning
<1> QED BY <1>2, <1>3

LEMMA Returns ==
  ASSUME ChainInv, StackType, FramesInv, stack # <<>>, KeepsChain,
         stack' = Front(stack), ret' = "OK" => Succeeds(ctxs'[this])
  PROVE  CallsInv'
<1>1. /\ stack' \in Seq(Frames) /\ Len(stack') = Len(stack) - 1
      /\ DOMAIN stack' = 1 .. Len(stack) - 1
      /\ \A i \in DOMAIN stack' : stack'[i] = stack[i]
  BY TheFrontOfCalls
<1>2. ASSUME NEW i \in DOMAIN stack' PROVE i \in DOMAIN stack /\ i \in 1 .. Len(stack) - 1
  BY <1>1, TheCall
<1>3. StackType'
  <2>1. \A i \in DOMAIN stack' : stack'[i].ctx \in DOMAIN ctxs'
    BY <1>1, WaitingCalls
  <2>2. \A i, j \in DOMAIN stack' : j = i + 1 => Awaits(stack'[i], stack'[j])
    BY <1>1, <1>2 DEF StackType
  <2>3. \A i, j \in DOMAIN stack' : i <= j => stack'[i].ctx <= stack'[j].ctx
    BY <1>1, <1>2 DEF StackType
  <2>4. stack' # <<>> => stack'[1].fn = "send" /\ stack'[1].ctx = 1
    <3>1. ASSUME stack' # <<>> PROVE 1 \in DOMAIN stack'
      <4>1. Len(stack') > 0
        BY <3>1, <1>1, EmptySeq
      <4> QED BY <4>1, <1>1, TheCall
    <3> QED BY <3>1, <1>1 DEF StackType
  <2> QED BY <2>1, <2>2, <2>3, <2>4, <1>1 DEF StackType
<1>4. FramesInv'
  BY <1>1, WaitingCalls DEF FramesInv
<1>5. ASSUME ret' = "OK", stack' # <<>>,
             stack'[Len(stack')].fn = "send", stack'[Len(stack')].at \in {"executed", "rechecked"}
      PROVE  Succeeds(ctxs'[stack'[Len(stack')].ctx])
  <2>1. Len(stack') = Len(stack) - 1 /\ Len(stack) - 1 \in DOMAIN stack' /\ Len(stack) - 1 + 1 = Len(stack)
    <3>1. Len(stack') > 0
      BY <1>5, <1>1, EmptySeq
    <3> QED BY <3>1, <1>1, TheCall
  <2>2. Awaits(stack'[Len(stack')], Top)
    <3>1. Len(stack) - 1 \in DOMAIN stack /\ Len(stack) \in DOMAIN stack /\ Top = stack[Len(stack)]
      BY <2>1, <1>2, TheCall
    <3>2. Awaits(stack[Len(stack) - 1], stack[Len(stack)])
      BY <3>1, <2>1 DEF StackType
    <3> QED BY <3>1, <3>2, <2>1, <1>1
  <2>3. stack'[Len(stack')].ctx = this
    BY <2>2, <1>5, TheCall DEF Awaits
  <2> QED BY <2>3, <1>5
<1>6. ASSUME ret' = "OK", stack' = <<>> PROVE Succeeds(ctxs'[1])
  <2>1. Len(stack) = 1
    BY <1>6, <1>1, EmptySeq, TheCall
  <2>2. this = 1
    BY <2>1, TheCall DEF StackType
  <2> QED BY <2>2, <1>6
<1>7. ReturnInv'
  BY <1>5, <1>6 DEF ReturnInv, In, Top, Ctx, this
<1> QED BY <1>3, <1>4, <1>7 DEF CallsInv

-----------------------------------------------------------------------------
(* What a step does to the chain of contexts.                              *)

LEMMA SameChain ==
  ASSUME ChainInv, StackType, stack # <<>>, UNCHANGED ctxs
  PROVE  KeepsChain /\ ctxs'[this] = Ctx
BY TheCall DEF KeepsChain, ChainInv

LEMMA OwnContext ==
  ASSUME ChainInv, StackType, stack # <<>>, NEW c \in GoodContexts,
         ctxs' = [ctxs EXCEPT ![this] = c]
  PROVE  /\ KeepsChain /\ ctxs'[this] = c /\ Len(ctxs') = Len(ctxs)
         /\ \A k \in DOMAIN ctxs : k # this => ctxs'[k] = ctxs[k]
<1>1. this \in 1 .. Len(ctxs) /\ Len(ctxs) \in Nat /\ DOMAIN ctxs = 1 .. Len(ctxs)
  BY TheCall
<1>2. /\ ctxs' \in Seq(GoodContexts) /\ Len(ctxs') = Len(ctxs)
      /\ \A j \in 1 .. Len(ctxs) : ctxs'[j] = IF j = this THEN c ELSE ctxs[j]
  BY <1>1, ExceptSeq DEF ChainInv
<1>3. \A k \in 1 .. this - 1 : k \in 1 .. Len(ctxs) /\ k # this
  BY <1>1
<1> QED BY <1>1, <1>2, <1>3 DEF KeepsChain

LEMMA Added ==
  ASSUME ChainInv, StackType, stack # <<>>, NEW d \in GoodContexts
  PROVE  LET cs == AddRequired(this, d)
         IN  /\ cs \in Seq(GoodContexts) /\ Len(cs) = Len(ctxs) + 1
             /\ this + 1 \in 1 .. Len(cs) /\ this \in 1 .. Len(cs)
             /\ cs[this + 1] = d
             /\ \A k \in 1 .. this : cs[k] = ctxs[k]
             /\ \A k \in this + 1 .. Len(ctxs) : cs[k + 1] = ctxs[k]
<1> DEFINE before == SubSeq(ctxs, 1, this)
           after == SubSeq(ctxs, this + 1, Len(ctxs))
<1>1. /\ this \in 1 .. Len(ctxs) /\ Len(ctxs) \in Nat /\ this \in 0 .. Len(ctxs) /\ this \in Nat
      /\ ctxs \in Seq(GoodContexts)
  BY TheCall DEF ChainInv
<1>2. /\ before \in Seq(GoodContexts) /\ Len(before) = this
      /\ \A k \in 1 .. this : before[k] = ctxs[k]
  BY <1>1, Beginning
<1>3. /\ after \in Seq(GoodContexts) /\ Len(after) = Len(ctxs) - this
      /\ \A k \in 1 .. Len(ctxs) - this : after[k] = ctxs[this + k]
  BY <1>1, Ending
<1>4. AddRequired(this, d) = before \o <<d>> \o after
  BY DEF AddRequired
<1> HIDE DEF before, after
<1>5. <<d>> \in Seq(GoodContexts) /\ Len(<<d>>) = 1 /\ <<d>>[1] = d
  OBVIOUS
<1>6. /\ before \o <<d>> \in Seq(GoodContexts) /\ Len(before \o <<d>>) = this + 1
      /\ \A k \in 1 .. this + 1 : (before \o <<d>>)[k] = IF k <= this THEN before[k] ELSE <<d>>[k - this]
  BY <1>2, <1>5, ConcatProperties
<1> DEFINE front == before \o <<d>>
<1>7. front \in Seq(GoodContexts) /\ Len(front) = this + 1 /\ front[this + 1] = d
  <2>1. this + 1 \in 1 .. this + 1 /\ ~(this + 1 <= this) /\ this + 1 - this = 1
    BY <1>1
  <2>2. front[this + 1] = <<d>>[this + 1 - this]
    BY <2>1, <1>6
  <2> QED BY <2>1, <2>2, <1>5, <1>6
<1>8. \A k \in 1 .. this : k \in 1 .. this + 1 /\ front[k] = ctxs[k]
  BY <1>1, <1>2, <1>6
<1> HIDE DEF front
<1>9. /\ front \o after \in Seq(GoodContexts)
      /\ Len(front \o after) = this + 1 + (Len(ctxs) - this)
      /\ \A k \in 1 .. this + 1 + (Len(ctxs) - this) :
           (front \o after)[k] = IF k <= this + 1 THEN front[k] ELSE after[k - (this + 1)]
  <2>1. /\ front \o after \in Seq(GoodContexts)
        /\ Len(front \o after) = Len(front) + Len(after)
        /\ \A k \in 1 .. Len(front) + Len(after) :
             (front \o after)[k] = IF k <= Len(front) THEN front[k] ELSE after[k - Len(front)]
    BY <1>3, <1>7, ConcatProperties
  <2>2. Len(front) = this + 1 /\ Len(after) = Len(ctxs) - this
    BY <1>3, <1>7
  <2> QED BY <2>1, <2>2
<1>10. AddRequired(this, d) = front \o after
  BY <1>4 DEF front
<1>11. this + 1 + (Len(ctxs) - this) = Len(ctxs) + 1
  BY <1>1
<1>12. ASSUME NEW k \in 1 .. this PROVE (front \o after)[k] = ctxs[k]
  <2>1. k \in 1 .. Len(ctxs) + 1 /\ k <= this + 1
    BY <1>1
  <2> QED BY <2>1, <1>8, <1>9, <1>11
<1>13. ASSUME NEW k \in this + 1 .. Len(ctxs) PROVE (front \o after)[k + 1] = ctxs[k]
  <2>1. PICK m \in Nat : m = k + 1
    BY <1>1
  <2>2. /\ m \in 1 .. this + 1 + (Len(ctxs) - this) /\ ~(m <= this + 1)
        /\ m - (this + 1) = k - this /\ k - this \in 1 .. Len(ctxs) - this /\ this + (k - this) = k
    BY <2>1, <1>1
  <2>3. (front \o after)[m] = after[m - (this + 1)]
    BY <2>2, <1>9
  <2>4. after[k - this] = ctxs[this + (k - this)]
    BY <2>2, <1>3
  <2> QED BY <2>1, <2>2, <2>3, <2>4
<1>14. this + 1 \in 1 .. Len(ctxs) + 1 /\ this \in 1 .. Len(ctxs) + 1 /\ this + 1 <= this + 1
  BY <1>1
<1>15. (front \o after)[this + 1] = d
  BY <1>14, <1>7, <1>9, <1>11
<1> QED BY <1>9, <1>10, <1>11, <1>12, <1>13, <1>14, <1>15

LEMMA AddedContext ==
  ASSUME ChainInv, StackType, stack # <<>>, NEW d \in GoodContexts,
         ctxs' = AddRequired(this, d)
  PROVE  /\ KeepsChain /\ ctxs'[this] = Ctx /\ Len(ctxs') = Len(ctxs) + 1
         /\ this + 1 \in DOMAIN ctxs' /\ ctxs'[this + 1] = d
         /\ \A k \in this + 1 .. Len(ctxs) : ctxs'[k + 1] = ctxs[k]
<1>1. /\ ctxs' \in Seq(GoodContexts) /\ Len(ctxs') = Len(ctxs) + 1
      /\ this + 1 \in 1 .. Len(ctxs') /\ this \in 1 .. Len(ctxs')
      /\ ctxs'[this + 1] = d
      /\ \A k \in 1 .. this : ctxs'[k] = ctxs[k]
      /\ \A k \in this + 1 .. Len(ctxs) : ctxs'[k + 1] = ctxs[k]
  BY Added
<1>2. this \in 1 .. this /\ \A k \in 1 .. this - 1 : k \in 1 .. this
  BY TheCall
<1>3. this <= Len(ctxs') /\ DOMAIN ctxs' = 1 .. Len(ctxs')
  BY <1>1, LenProperties
<1> QED BY <1>1, <1>2, <1>3, TheCall DEF KeepsChain

LEMMA AddedAndOwnContext ==
  ASSUME ChainInv, StackType, stack # <<>>, NEW c \in GoodContexts, NEW d \in GoodContexts,
         ctxs' = [AddRequired(this, d) EXCEPT ![this] = c]
  PROVE  /\ KeepsChain /\ ctxs'[this] = c /\ Len(ctxs') = Len(ctxs) + 1
         /\ this + 1 \in DOMAIN ctxs' /\ ctxs'[this + 1] = d
         /\ \A k \in this + 1 .. Len(ctxs) : ctxs'[k + 1] = ctxs[k]
<1> DEFINE cs == AddRequired(this, d)
<1>1. /\ cs \in Seq(GoodContexts) /\ Len(cs) = Len(ctxs) + 1
      /\ this + 1 \in 1 .. Len(cs) /\ this \in 1 .. Len(cs)
      /\ cs[this + 1] = d
      /\ \A k \in 1 .. this : cs[k] = ctxs[k]
      /\ \A k \in this + 1 .. Len(ctxs) : cs[k + 1] = ctxs[k]
  BY Added
<1>2. ctxs' = [cs EXCEPT ![this] = c]
  OBVIOUS
<1> HIDE DEF cs
<1>3. /\ ctxs' \in Seq(GoodContexts) /\ Len(ctxs') = Len(cs)
      /\ \A j \in 1 .. Len(cs) : ctxs'[j] = IF j = this THEN c ELSE cs[j]
  <2>1. cs \in Seq(GoodContexts) /\ this \in 1 .. Len(cs)
    BY <1>1
  <2>2. /\ [cs EXCEPT ![this] = c] \in Seq(GoodContexts) /\ Len([cs EXCEPT ![this] = c]) = Len(cs)
        /\ \A j \in 1 .. Len(cs) : [cs EXCEPT ![this] = c][j] = IF j = this THEN c ELSE cs[j]
    BY <2>1, ExceptSeq
  <2> QED BY <2>2, <1>2
<1>4. this \in Nat /\ Len(ctxs) \in Nat /\ this <= Len(ctxs)
  BY TheCall
<1>5. ASSUME NEW k \in 1 .. this - 1 PROVE ctxs'[k] = ctxs[k]
  <2>1. k \in 1 .. this /\ k \in 1 .. Len(cs) /\ k # this
    BY <1>1, <1>4
  <2> QED BY <2>1, <1>1, <1>3
<1>6. ASSUME NEW k \in this + 1 .. Len(ctxs) PROVE ctxs'[k + 1] = ctxs[k]
  <2>1. k + 1 \in 1 .. Len(cs) /\ k + 1 # this
    BY <1>1, <1>4
  <2> QED BY <2>1, <1>1, <1>3
<1>7. this + 1 # this /\ this <= Len(ctxs')
  BY <1>1, <1>3, <1>4
<1>8. DOMAIN ctxs' = 1 .. Len(ctxs')
  BY <1>3, LenProperties
<1> QED BY <1>1, <1>3, <1>5, <1>6, <1>7, <1>8 DEF KeepsChain

LEMMA CutChain ==
  ASSUME ChainInv, StackType, stack # <<>>, NEW k \in this + 1 .. Len(ctxs) + 1,
         ctxs' = RemoveRequired(k)
  PROVE  /\ KeepsChain /\ ctxs'[this] = Ctx /\ Len(ctxs') = k - 1
         /\ \A j \in 1 .. k - 1 : ctxs'[j] = ctxs[j]
<1>1. /\ this \in Nat /\ this \in 1 .. k - 1 /\ k - 1 \in 0 .. Len(ctxs) /\ Ctx = ctxs[this]
      /\ ctxs \in Seq(GoodContexts)
  BY TheCall DEF ChainInv
<1>2. ctxs' = SubSeq(ctxs, 1, k - 1)
  BY DEF RemoveRequired
<1>3. /\ ctxs' \in Seq(GoodContexts) /\ Len(ctxs') = k - 1
      /\ \A j \in 1 .. k - 1 : ctxs'[j] = ctxs[j]
  BY <1>1, <1>2, Beginning
<1>4. this <= Len(ctxs') /\ \A j \in 1 .. this - 1 : j \in 1 .. k - 1
  BY <1>1, <1>3
<1> QED BY <1>1, <1>3, <1>4 DEF KeepsChain

\* ctx_find_required finds one of this kind behind the context.
LEMMA FoundRequired ==
  ASSUME ChainInv, StackType, stack # <<>>, NEW kind, FindRequired(this, kind) # 0
  PROVE  LET k == FindRequired(this, kind)
         IN  /\ k \in this + 1 .. Len(ctxs) /\ ctxs[k].kind = kind
             /\ \A j \in this + 1 .. Len(ctxs) : ctxs[j].kind = kind => k <= j
<1> DEFINE ks == {k \in this + 1 .. Len(ctxs) : ctxs[k].kind = kind}
<1>1. this \in Nat /\ Len(ctxs) \in Nat
  BY TheCall
<1>2. ks \subseteq Nat
  BY <1>1
<1>3. ks # {}
  BY DEF FindRequired
<1>4. \E k \in ks : \A j \in ks : k <= j
  <2> HIDE DEF ks
  <2> QED BY <1>2, <1>3, SmallestOfNaturals
<1>5. FindRequired(this, kind) = CHOOSE k \in ks : \A j \in ks : k <= j
  BY <1>3 DEF FindRequired
<1>6. FindRequired(this, kind) \in ks /\ \A j \in ks : FindRequired(this, kind) <= j
  <2> HIDE DEF ks
  <2> QED BY <1>4, <1>5
<1> QED BY <1>6

LEMMA FoundCode ==
  ASSUME ChainInv, StackType, stack # <<>>, CodeRequest # 0
  PROVE  /\ CodeRequest \in this + 1 .. Len(ctxs)
         /\ ctxs[CodeRequest].kind = "getCode" /\ ctxs[CodeRequest].code = Ctx.needs
<1> DEFINE ks == {k \in this + 1 .. Len(ctxs) : ctxs[k].kind = "getCode" /\ ctxs[k].code = Ctx.needs}
<1>1. this \in Nat /\ Len(ctxs) \in Nat
  BY TheCall
<1>2. ks \subseteq Nat
  BY <1>1
<1>3. ks # {}
  BY DEF CodeRequest
<1>4. \E k \in ks : \A j \in ks : k <= j
  <2> HIDE DEF ks
  <2> QED BY <1>2, <1>3, SmallestOfNaturals
<1>5. CodeRequest = CHOOSE k \in ks : \A j \in ks : k <= j
  BY <1>3 DEF CodeRequest
<1>6. CodeRequest \in ks
  <2> HIDE DEF ks
  <2> QED BY <1>4, <1>5
<1> QED BY <1>6

-----------------------------------------------------------------------------
(* What a step does to a context.                                          *)

LEMMA ConstantFacts ==
  /\ MaxAttempts \in Nat \ {0} /\ RequestCount \in Nat \ {0} /\ MaxTime \in Nat
  /\ Blocks \subseteq Nat /\ 0 \in Blocks
  /\ \A v \in Blocks : Registry[v] \in Seq(Nodes)
  /\ \A v \in DOMAIN WhiteLists : v \in Nat /\ v > 0 /\ WhiteLists[v] \in Seq(Nodes)
  /\ Kinds = {"rpc", "getCode", "in3_nodeList", "in3_whiteList"}
  /\ None \notin Nodes /\ Later = MaxTime + 1 /\ Later \in Nat
<1>1. \A v \in DOMAIN WhiteLists : v \in Nat /\ v > 0
  BY ConstantsAssumption
<1> QED BY <1>1, ConstantsAssumption DEF Blocks, Kinds, Later

\* The null pointer is none of the answers, and an answer has what its kind asks for.
LEMMA AnswerFacts ==
  ASSUME NEW kind \in Kinds, NEW r \in Answers(kind)
  PROVE  /\ r # None /\ r \in Replies
         /\ r.quality \in Qualities
         /\ r.header \in [last : Nat, cur : Nat, white : Nat]
         /\ r.quality = "good" => r.list \in Lists(kind)
<1>1. r # None /\ r \in Replies
  BY NullAssumption DEF Replies
<1>2. NoHeader \in [last : Nat, cur : Nat, white : Nat]
  BY DEF NoHeader
<1>3. Headers \subseteq [last : Nat, cur : Nat, white : Nat] /\ Faults[kind] \subseteq Qualities \ {"good"}
  BY ConstantsAssumption
<1>4. \/ r \in Answer({"good"}, Headers, Lists(kind))
      \/ r \in Answer(Faults[kind] \cap {"refused", "errored"}, Headers, {None})
      \/ r \in Answer(Faults[kind] \ {"refused", "errored"}, {NoHeader}, {None})
  BY DEF Answers
<1>5. CASE r \in Answer({"good"}, Headers, Lists(kind))
  BY <1>1, <1>3, <1>5 DEF Answer, Qualities
<1>6. CASE r \in Answer(Faults[kind] \cap {"refused", "errored"}, Headers, {None})
  BY <1>1, <1>3, <1>6 DEF Answer, Qualities
<1>7. CASE r \in Answer(Faults[kind] \ {"refused", "errored"}, {NoHeader}, {None})
  <2>1. r.quality \in Faults[kind] /\ r.header = NoHeader
    BY <1>7 DEF Answer
  <2> QED BY <2>1, <1>1, <1>2, <1>3 DEF Qualities
<1> QED BY <1>4, <1>5, <1>6, <1>7

LEMMA GoodFacts ==
  ASSUME NEW c \in GoodContexts
  PROVE  /\ c \in Contexts /\ AnswersFit(c) /\ ContextInv(c)
         /\ c.kind \in Kinds /\ c.dataNode \in Nodes \cup {None} /\ c.code \in Nat /\ c.needs \in Nat
         /\ c.attempt \in Nat /\ c.attempt <= MaxAttempts /\ c.nodes \in Seq(Matches)
         /\ c.raw \in Seq(Answers(c.kind)) /\ c.response \in {None} \cup Answers(c.kind)
         /\ c.error \in BOOLEAN /\ c.state \in Codes
<1>1. c \in Contexts /\ AnswersFit(c) /\ ContextInv(c)
  BY DEF GoodContexts
<1>2. /\ c.kind \in Kinds /\ c.dataNode \in Nodes \cup {None} /\ c.code \in Nat /\ c.needs \in Nat
      /\ c.attempt \in 0 .. MaxAttempts /\ c.nodes \in Seq(Matches)
      /\ c.error \in BOOLEAN /\ c.state \in Codes
  BY <1>1 DEF Contexts
<1>3. c.attempt \in Nat /\ c.attempt <= MaxAttempts
  BY <1>2, ConstantFacts
<1> QED BY <1>1, <1>2, <1>3 DEF AnswersFit

LEMMA NewIsGood ==
  ASSUME NEW kind \in Kinds, NEW dataNode \in Nodes \cup {None}, NEW code \in Nat, NEW needs \in Nat
  PROVE  NewCtx(kind, dataNode, code, needs) \in GoodContexts
<1> DEFINE c == NewCtx(kind, dataNode, code, needs)
<1>1. /\ c.kind = kind /\ c.dataNode = dataNode /\ c.code = code /\ c.needs = needs /\ c.attempt = 0
      /\ c.nodes = <<>> /\ c.raw = <<>> /\ c.response = None /\ c.error = FALSE /\ c.state = "WAITING"
  BY DEF NewCtx
<1>2. /\ <<>> \in Seq(Matches) /\ <<>> \in Seq(Replies) /\ <<>> \in Seq(Answers(kind))
      /\ 0 \in 0 .. MaxAttempts /\ DOMAIN <<>> = {} /\ 0 < MaxAttempts /\ "WAITING" \in Codes /\ FALSE \in BOOLEAN
  BY ConstantFacts, EmptySeq DEF Codes
<1>3. c \in Contexts
  BY <1>2 DEF NewCtx, Contexts
<1> HIDE DEF c
<1>4. AnswersFit(c)
  BY <1>1, <1>2 DEF AnswersFit
<1>5. ContextInv(c)
  BY <1>1, <1>2 DEF ContextInv, Succeeds
<1>6. c \in GoodContexts
  BY <1>3, <1>4, <1>5 DEF GoodContexts
<1> QED BY <1>6 DEF c

LEMMA ErredIsGood ==
  ASSUME NEW c \in GoodContexts, NEW code \in Codes \ {"OK"}
  PROVE  [c EXCEPT !.error = TRUE, !.state = code] \in GoodContexts
<1> DEFINE d == [c EXCEPT !.error = TRUE, !.state = code]
<1>1. d \in Contexts
  <2>1. TRUE \in BOOLEAN /\ code \in Codes /\ c \in Contexts
    BY GoodFacts
  <2> QED BY <2>1 DEF Contexts
<1>2. /\ d.kind = c.kind /\ d.needs = c.needs /\ d.attempt = c.attempt /\ d.nodes = c.nodes
      /\ d.raw = c.raw /\ d.response = c.response /\ d.error = TRUE /\ d.state = code
  BY GoodFacts DEF Contexts
<1> HIDE DEF d
<1>3. AnswersFit(d)
  BY <1>2, GoodFacts DEF AnswersFit
<1>4. ContextInv(d)
  BY <1>2, GoodFacts DEF ContextInv, Succeeds
<1>5. d \in GoodContexts
  BY <1>1, <1>3, <1>4 DEF GoodContexts
<1> QED BY <1>5 DEF d

\* ctx_set_error_intern changes one context.
Erred(c, code) == [c EXCEPT !.error = TRUE, !.state = code]
ErredAt(cs, i, code) == [cs EXCEPT ![i] = Erred(cs[i], code)]

LEMMA SetErrorIs ==
  ASSUME NEW cs \in Seq(GoodContexts), NEW i \in 1 .. Len(cs), NEW code \in Codes
  PROVE  \/ code = "WAITING" /\ SetError(cs, i, code) = cs
         \/ /\ code # "WAITING"
            /\ SetError(cs, i, code) = ErredAt(cs, i, code)
<1>1. CASE code = "WAITING"
  BY <1>1 DEF SetError
<1>2. CASE code # "WAITING"
  <2>1. SetError(cs, i, code) = [cs EXCEPT ![i].error = TRUE, ![i].state = code]
    BY <1>2 DEF SetError
  <2> DEFINE ds == [cs EXCEPT ![i].error = TRUE]
  <2>2. i \in DOMAIN cs
    BY LenProperties
  <2>3. ds[i] = [cs[i] EXCEPT !.error = TRUE]
    BY <2>2
  <2>4. [cs EXCEPT ![i].error = TRUE, ![i].state = code]
          = [cs EXCEPT ![i] = [cs[i] EXCEPT !.error = TRUE, !.state = code]]
    BY <2>2, <2>3
  <2> QED BY <1>2, <2>1, <2>4 DEF Erred, ErredAt
<1> QED BY <1>1, <1>2

LEMMA AnsweredIsGood ==
  ASSUME NEW c \in GoodContexts, c.raw = <<>>, NEW raw \in [1 .. Len(c.nodes) -> Answers(c.kind)]
  PROVE  [c EXCEPT !.raw = raw] \in GoodContexts
<1> DEFINE d == [c EXCEPT !.raw = raw]
<1>1. Len(c.nodes) \in Nat /\ DOMAIN c.nodes = 1 .. Len(c.nodes)
  BY GoodFacts, LenProperties
<1>2. raw \in Seq(Answers(c.kind)) /\ Len(raw) = Len(c.nodes)
  BY <1>1
<1>3. raw \in Seq(Replies)
  <2>1. Answers(c.kind) \subseteq Replies
    BY GoodFacts DEF Replies
  <2> QED BY <2>1, <1>2, SeqMonotonic
<1>4. d \in Contexts
  BY <1>3, GoodFacts DEF Contexts
<1>5. /\ d.kind = c.kind /\ d.needs = c.needs /\ d.attempt = c.attempt /\ d.nodes = c.nodes
      /\ d.raw = raw /\ d.response = c.response /\ d.error = c.error /\ d.state = c.state
  BY GoodFacts DEF Contexts
<1> HIDE DEF d
<1>6. AnswersFit(d)
  BY <1>2, <1>5, GoodFacts DEF AnswersFit
<1>7. \A n \in DOMAIN c.nodes : c.nodes[n].ok
  BY GoodFacts DEF ContextInv
<1>8. ContextInv(d)
  <2>1. d.raw # <<>> => Len(d.raw) = Len(d.nodes)
    BY <1>2, <1>5
  <2>2. Succeeds(d) => Verified(d)
    BY <1>5, GoodFacts DEF ContextInv, Succeeds, Verified
  <2>3. \A n \in DOMAIN d.nodes : d.nodes[n].ok
    BY <1>5, <1>7
  <2> QED BY <1>5, <2>1, <2>2, <2>3, GoodFacts DEF ContextInv
<1>9. d \in GoodContexts
  BY <1>4, <1>6, <1>8 DEF GoodContexts
<1> QED BY <1>9 DEF d

LEMMA PickedIsGood ==
  ASSUME NEW c \in GoodContexts, c.raw = <<>>, NEW nodes \in Seq(Matches),
         \A n \in DOMAIN nodes : nodes[n].ok = TRUE
  PROVE  [c EXCEPT !.nodes = nodes] \in GoodContexts
<1> DEFINE d == [c EXCEPT !.nodes = nodes]
<1>1. d \in Contexts
  BY GoodFacts DEF Contexts
<1>2. /\ d.kind = c.kind /\ d.needs = c.needs /\ d.attempt = c.attempt /\ d.nodes = nodes
      /\ d.raw = c.raw /\ d.response = c.response /\ d.error = c.error /\ d.state = c.state
  BY GoodFacts DEF Contexts
<1> HIDE DEF d
<1>3. AnswersFit(d)
  BY <1>2, GoodFacts DEF AnswersFit
<1>4. ContextInv(d)
  <2>1. Succeeds(d) => Verified(d)
    BY <1>2, GoodFacts DEF ContextInv, Succeeds, Verified
  <2> QED BY <1>2, <2>1, GoodFacts DEF ContextInv
<1>5. d \in GoodContexts
  BY <1>1, <1>3, <1>4 DEF GoodContexts
<1> QED BY <1>5 DEF d

\* A rejected node: the response that was looked at does not count as a success.
LEMMA RejectedIsGood ==
  ASSUME NEW c \in GoodContexts, NEW n \in DOMAIN c.nodes, c.raw # <<>>, c.attempt < MaxAttempts,
         NEW d \in Contexts, d.kind = c.kind, d.needs = c.needs, d.attempt = c.attempt, d.raw = c.raw,
         d.nodes = [c.nodes EXCEPT ![n].ok = FALSE],
         d.response \in {None} \cup Answers(c.kind),
         d.state = "OK" => c.state = "OK" /\ d.response = c.response,
         c.raw[n].quality \in {"refused", "errored"} => c.attempt < MaxAttempts - 1
  PROVE  d \in GoodContexts
<1>1. Len(d.nodes) = Len(c.nodes) /\ DOMAIN d.nodes = DOMAIN c.nodes
  <2>1. DOMAIN d.nodes = DOMAIN c.nodes
    OBVIOUS
  <2>2. d.nodes \in Seq(Matches) /\ c.nodes \in Seq(Matches)
    BY GoodFacts DEF Contexts
  <2>3. Len(d.nodes) \in Nat /\ Len(c.nodes) \in Nat
        /\ DOMAIN d.nodes = 1 .. Len(d.nodes) /\ DOMAIN c.nodes = 1 .. Len(c.nodes)
    BY <2>2, LenProperties
  <2> QED BY <2>1, <2>3
<1>2. \A m \in DOMAIN c.nodes : m # n => d.nodes[m] = c.nodes[m]
  OBVIOUS
<1>3. AnswersFit(d)
  BY GoodFacts DEF AnswersFit
<1>4. ContextInv(d)
  <2>1. Succeeds(d) => Verified(d)
    BY GoodFacts DEF ContextInv, Succeeds, Verified
  <2>2. d.state = "OK" /\ d.response = None => d.needs = 0
    BY GoodFacts DEF ContextInv
  <2>3. d.raw # <<>> => Len(d.raw) = Len(d.nodes)
    BY <1>1, GoodFacts DEF ContextInv
  <2>4. ASSUME NEW m \in DOMAIN d.nodes, ~d.nodes[m].ok
        PROVE  d.raw[m].quality \in {"refused", "errored"} => d.attempt < MaxAttempts - 1
    <3>1. CASE m = n
      BY <3>1
    <3>2. CASE m # n
      BY <3>2, <2>4, <1>1, <1>2, GoodFacts DEF ContextInv
    <3> QED BY <3>1, <3>2
  <2> QED BY <2>1, <2>2, <2>3, <2>4 DEF ContextInv
<1> QED BY <1>3, <1>4 DEF GoodContexts

\* A context that has not succeeded, whatever its response.
LEMMA UnsettledIsGood ==
  ASSUME NEW c \in GoodContexts,
         NEW d \in Contexts, d.kind = c.kind, d.attempt = c.attempt, d.raw = c.raw, d.nodes = c.nodes,
         d.response \in {None} \cup Answers(c.kind), d.error = c.error, d.state # "OK"
  PROVE  d \in GoodContexts
<1>1. AnswersFit(d)
  BY GoodFacts DEF AnswersFit
<1>2. ContextInv(d)
  BY GoodFacts DEF ContextInv, Succeeds
<1> QED BY <1>1, <1>2 DEF GoodContexts

LEMMA AcceptedIsGood ==
  ASSUME NEW c \in GoodContexts, c.raw # <<>>, NEW r \in Answers(c.kind), NEW d,
         d = [[c EXCEPT !.response = r] EXCEPT !.state = "OK"],
         \/ r.quality = "good" /\ c.needs = 0
         \/ r.quality \in {"refused", "errored"} /\ c.attempt = MaxAttempts - 1
  PROVE  d \in GoodContexts /\ Succeeds(d) /\ d.raw = c.raw /\ d.nodes = c.nodes /\ d.attempt = c.attempt
         /\ d.needs = c.needs
<1>1. r # None /\ r \in Replies
  BY AnswerFacts, GoodFacts
<1>2. d \in Contexts
  BY <1>1, GoodFacts DEF Contexts, Codes
<1>3. /\ d.kind = c.kind /\ d.needs = c.needs /\ d.attempt = c.attempt /\ d.nodes = c.nodes
      /\ d.raw = c.raw /\ d.response = r /\ d.error = c.error /\ d.state = "OK"
  BY GoodFacts DEF Contexts
<1>4. AnswersFit(d)
  BY <1>3, GoodFacts DEF AnswersFit
<1>5. Succeeds(d) /\ Verified(d)
  BY <1>1, <1>3 DEF Succeeds, Verified
<1>6. ContextInv(d)
  BY <1>1, <1>3, <1>5, GoodFacts DEF ContextInv
<1> QED BY <1>2, <1>3, <1>4, <1>5, <1>6 DEF GoodContexts

\* Another attempt, or none.
LEMMA ClearedIsGood ==
  ASSUME NEW c \in GoodContexts, c.attempt < MaxAttempts, c.state = "OK" => c.needs = 0,
         NEW error \in BOOLEAN, NEW state \in Codes,
         ~error => c.attempt + 1 < MaxAttempts, state = "OK" => c.state = "OK",
         NEW d \in Contexts, d.kind = c.kind, d.needs = c.needs, d.attempt = c.attempt + 1, d.nodes = <<>>,
         d.raw = <<>>, d.response = None, d.error = error, d.state = state
  PROVE  d \in GoodContexts
<1>1. AnswersFit(d)
  BY EmptySeq DEF AnswersFit
<1>2. ContextInv(d)
  BY DEF ContextInv, Succeeds
<1> QED BY <1>1, <1>2 DEF GoodContexts

-----------------------------------------------------------------------------
(* The steps of the calls.                                                 *)

LEMMA TopFrame ==
  ASSUME ChainInv, StackType, stack # <<>>
  PROVE  /\ Top.fn \in {"send", "execute"} /\ Top.n \in Nat /\ Top.ctx = this /\ this \in Nat
         /\ Top.fn = "send" => Top.at \in SendPlaces
         /\ Top.fn = "execute" => Top.at \in ExecutePlaces
BY TheCall DEF Frames

Places(fn) == IF fn = "send" THEN SendPlaces ELSE ExecutePlaces

\* The frame of the call at another place.
LEMMA NewFrame ==
  ASSUME ChainInv, StackType, stack # <<>>, NEW at \in Places(Top.fn), NEW n \in Nat
  PROVE  LET f == [fn |-> Top.fn, ctx |-> this, at |-> at, n |-> n]
         IN  f \in Frames
BY TopFrame DEF Places, Frames

LEMMA Goes ==
  ASSUME ChainInv, StackType, FramesInv, stack # <<>>, KeepsChain,
         NEW at \in Places(Top.fn) \ {"executed", "rechecked"}, NEW n \in Nat,
         stack' = [stack EXCEPT ![Len(stack)] = [fn |-> Top.fn, ctx |-> this, at |-> at, n |-> n]],
         FrameInv([fn |-> Top.fn, ctx |-> this, at |-> at, n |-> n], ctxs'[this])
  PROVE  CallsInv'
<1> DEFINE f == [fn |-> Top.fn, ctx |-> this, at |-> at, n |-> n]
<1>1. f \in Frames
  BY NewFrame
<1>2. f.fn = Top.fn /\ f.ctx = this /\ f.at \notin {"executed", "rechecked"}
  OBVIOUS
<1>3. stack' = [stack EXCEPT ![Len(stack)] = f] /\ FrameInv(f, ctxs'[this])
  OBVIOUS
<1> HIDE DEF f
<1> QED BY <1>1, <1>2, <1>3, Moves

\* The last frame of the stack, one field after the other.
LEMMA FrameAt ==
  ASSUME ChainInv, StackType, stack # <<>>, NEW at
  PROVE  [stack EXCEPT ![Len(stack)].at = at]
           = [stack EXCEPT ![Len(stack)] = [fn |-> Top.fn, ctx |-> this, at |-> at, n |-> Top.n]]
<1>1. Len(stack) \in DOMAIN stack /\ Top = stack[Len(stack)] /\ Top \in Frames /\ this = Top.ctx
  BY TheCall
<1>2. [Top EXCEPT !.at = at] = [fn |-> Top.fn, ctx |-> this, at |-> at, n |-> Top.n]
  BY <1>1 DEF Frames
<1>3. [stack EXCEPT ![Len(stack)].at = at] = [stack EXCEPT ![Len(stack)] = [Top EXCEPT !.at = at]]
  BY <1>1
<1> QED BY <1>2, <1>3

LEMMA FrameAtN ==
  ASSUME ChainInv, StackType, stack # <<>>, NEW at, NEW n
  PROVE  [stack EXCEPT ![Len(stack)].at = at, ![Len(stack)].n = n]
           = [stack EXCEPT ![Len(stack)] = [fn |-> Top.fn, ctx |-> this, at |-> at, n |-> n]]
<1>1. Len(stack) \in DOMAIN stack /\ Top = stack[Len(stack)] /\ Top \in Frames /\ this = Top.ctx
  BY TheCall
<1>2. [[Top EXCEPT !.at = at] EXCEPT !.n = n] = [fn |-> Top.fn, ctx |-> this, at |-> at, n |-> n]
  <2>1. PICK fn, ctx, place, m : Top = [fn |-> fn, ctx |-> ctx, at |-> place, n |-> m]
    BY <1>1 DEF Frames
  <2>2. [Top EXCEPT !.at = at] = [fn |-> fn, ctx |-> ctx, at |-> at, n |-> m]
    BY <2>1
  <2>3. [[fn |-> fn, ctx |-> ctx, at |-> at, n |-> m] EXCEPT !.n = n]
          = [fn |-> fn, ctx |-> ctx, at |-> at, n |-> n]
    OBVIOUS
  <2>4. Top.fn = fn /\ this = ctx
    BY <2>1, <1>1
  <2> QED BY <2>2, <2>3, <2>4
<1> DEFINE s == [stack EXCEPT ![Len(stack)].at = at]
<1>3. s[Len(stack)] = [Top EXCEPT !.at = at]
  BY <1>1
<1>4. [stack EXCEPT ![Len(stack)].at = at, ![Len(stack)].n = n]
        = [s EXCEPT ![Len(stack)] = [[Top EXCEPT !.at = at] EXCEPT !.n = n]]
  BY <1>1, <1>3
<1>5. \A x : [s EXCEPT ![Len(stack)] = x] = [stack EXCEPT ![Len(stack)] = x]
  BY <1>1
<1> QED BY <1>2, <1>4, <1>5

LEMMA FrameNAt ==
  ASSUME ChainInv, StackType, stack # <<>>, NEW at
  PROVE  [stack EXCEPT ![Len(stack)].n = @ + 1, ![Len(stack)].at = at]
           = [stack EXCEPT ![Len(stack)] = [fn |-> Top.fn, ctx |-> this, at |-> at, n |-> Top.n + 1]]
<1>1. Len(stack) \in DOMAIN stack /\ Top = stack[Len(stack)] /\ Top \in Frames /\ this = Top.ctx
  BY TheCall
<1>2. [[Top EXCEPT !.n = Top.n + 1] EXCEPT !.at = at] = [fn |-> Top.fn, ctx |-> this, at |-> at, n |-> Top.n + 1]
  <2>1. PICK fn, ctx, place, m : Top = [fn |-> fn, ctx |-> ctx, at |-> place, n |-> m]
    BY <1>1 DEF Frames
  <2>2. [Top EXCEPT !.n = Top.n + 1] = [fn |-> fn, ctx |-> ctx, at |-> place, n |-> Top.n + 1]
    BY <2>1
  <2>3. [[fn |-> fn, ctx |-> ctx, at |-> place, n |-> Top.n + 1] EXCEPT !.at = at]
          = [fn |-> fn, ctx |-> ctx, at |-> at, n |-> Top.n + 1]
    OBVIOUS
  <2>4. Top.fn = fn /\ this = ctx
    BY <2>1, <1>1
  <2> QED BY <2>2, <2>3, <2>4
<1> DEFINE s == [stack EXCEPT ![Len(stack)].n = @ + 1]
<1>3. s[Len(stack)] = [Top EXCEPT !.n = Top.n + 1]
  BY <1>1
<1>4. [stack EXCEPT ![Len(stack)].n = @ + 1, ![Len(stack)].at = at]
        = [s EXCEPT ![Len(stack)] = [[Top EXCEPT !.n = Top.n + 1] EXCEPT !.at = at]]
  BY <1>1, <1>3
<1>5. \A x : [s EXCEPT ![Len(stack)] = x] = [stack EXCEPT ![Len(stack)] = x]
  BY <1>1
<1> QED BY <1>2, <1>4, <1>5

LEMMA GoesTo ==
  ASSUME ChainInv, StackType, FramesInv, stack # <<>>, KeepsChain,
         NEW at \in Places(Top.fn) \ {"executed", "rechecked"}, Goto(at),
         FrameInv([fn |-> Top.fn, ctx |-> this, at |-> at, n |-> Top.n], ctxs'[this])
  PROVE  CallsInv'
<1>1. Top.n \in Nat
  BY TopFrame
<1>2. stack' = [stack EXCEPT ![Len(stack)] = [fn |-> Top.fn, ctx |-> this, at |-> at, n |-> Top.n]]
  BY FrameAt DEF Goto
<1> QED BY <1>1, <1>2, Goes

LEMMA CallsFor ==
  ASSUME ChainInv, StackType, FramesInv, stack # <<>>, KeepsChain,
         NEW at \in Places(Top.fn), NEW fn \in {"send", "execute"}, NEW k \in DOMAIN ctxs',
         Call(at, fn, k),
         FrameInv([fn |-> Top.fn, ctx |-> this, at |-> at, n |-> Top.n], ctxs'[this]),
         Awaits([fn |-> Top.fn, ctx |-> this, at |-> at, n |-> Top.n], Frame(fn, k))
  PROVE  CallsInv'
<1> DEFINE f == [fn |-> Top.fn, ctx |-> this, at |-> at, n |-> Top.n]
           g == Frame(fn, k)
<1>1. Top.n \in Nat
  BY TopFrame
<1>2. f \in Frames /\ f.fn = Top.fn /\ f.ctx = this
  BY <1>1, NewFrame
<1>3. k \in Nat
  BY KeptChain
<1>4. g \in Frames /\ g.at = "start" /\ g.ctx = k
  BY <1>3 DEF Frame, Frames, SendPlaces, ExecutePlaces
<1>5. stack' = Append([stack EXCEPT ![Len(stack)] = f], g)
  BY FrameAt DEF Call
<1>6. Awaits(f, g) /\ FrameInv(f, ctxs'[this])
  OBVIOUS
<1> HIDE DEF f, g
<1> QED BY <1>2, <1>4, <1>5, <1>6, Calls

LEMMA ReturnsWith ==
  ASSUME ChainInv, StackType, FramesInv, stack # <<>>, KeepsChain,
         NEW code, Return(code), code = "OK" => Succeeds(ctxs'[this])
  PROVE  CallsInv'
BY Returns DEF Return

\* Nothing changes but the calls and the chain.
LEMMA ListKept ==
  ASSUME ListType, UpdateInv, KeepList, now' = now, ret' \in Codes
  PROVE  ListType' /\ UpdateInv'
<1>1. UNCHANGED <<now, version, lastBlock, boot, until, upd8, wl, flagged, cache>>
  BY DEF KeepList, listVars
<1>2. UpdateInv'
  BY <1>1 DEF UpdateInv
<1>3. ListType'
  BY <1>1 DEF ListType, Listed, nodelist
<1> QED BY <1>2, <1>3

LEMMA Parts ==
  ASSUME ClientInv
  PROVE  ListType /\ UpdateInv /\ ChainInv /\ CallsInv /\ StackType /\ FramesInv /\ ReturnInv
         /\ ret \in Codes
BY DEF ClientInv, CallsInv, ListType

LEMMA Together ==
  ASSUME ListType', UpdateInv', KeepsChain, CallsInv'
  PROVE  ClientInv'
BY DEF ClientInv, KeepsChain, ChainInv

LEMMA SameClock == ASSUME KeepClock PROVE now' = now /\ requests' = requests /\ crashes' = crashes
BY DEF KeepClock

\* A call in3_send_ctx has found out nothing.
LEMMA SendFrame == ASSUME NEW c, NEW f, f.fn = "send" PROVE FrameInv(f, c)
BY DEF FrameInv

LEMMA FailedChain ==
  ASSUME ChainInv, StackType, stack # <<>>, NEW code \in Codes \ {"OK"},
         ctxs' = SetError(ctxs, this, code)
  PROVE  KeepsChain
<1>1. ctxs \in Seq(GoodContexts) /\ this \in 1 .. Len(ctxs) /\ Ctx = ctxs[this] /\ Ctx \in GoodContexts
  BY TheCall DEF ChainInv
<1>2. CASE ctxs' = ctxs
  BY <1>2, SameChain
<1>3. CASE ctxs' = ErredAt(ctxs, this, code)
  <2>1. Erred(Ctx, code) \in GoodContexts
    BY <1>1, ErredIsGood DEF Erred
  <2>2. ctxs' = [ctxs EXCEPT ![this] = Erred(Ctx, code)]
    BY <1>1, <1>3 DEF ErredAt
  <2> QED BY <2>1, <2>2, OwnContext
<1>4. ctxs \in Seq(GoodContexts) /\ this \in 1 .. Len(ctxs) /\ code \in Codes
  BY <1>1
<1>5. SetError(ctxs, this, code) = ctxs \/ SetError(ctxs, this, code) = ErredAt(ctxs, this, code)
  BY <1>4, SetErrorIs
<1> QED BY <1>2, <1>3, <1>5

-----------------------------------------------------------------------------
(* in3_send_ctx                                                            *)

LEMMA SendStartKeeps == ASSUME ClientInv, SendStart PROVE ClientInv'
<1>1. /\ stack # <<>> /\ Top.fn = "send" /\ Call("executed", "execute", this) /\ UNCHANGED ctxs
      /\ KeepList /\ KeepClock /\ ret' = ret
  BY DEF SendStart, In, Call
<1>2. KeepsChain
  BY <1>1, Parts, SameChain
<1>3. ListType' /\ UpdateInv'
  BY <1>1, Parts, ListKept, SameClock
<1>4. CallsInv'
  <2>1. "executed" \in Places(Top.fn) /\ this \in DOMAIN ctxs'
    BY <1>1, <1>2, Parts, KeptChain DEF Places, SendPlaces
  <2>2. Awaits([fn |-> Top.fn, ctx |-> this, at |-> "executed", n |-> Top.n], Frame("execute", this))
    BY <1>1 DEF Awaits, Frame
  <2> QED BY <1>1, <1>2, <2>1, <2>2, Parts, SendFrame, CallsFor
<1> QED BY <1>2, <1>3, <1>4, Together

LEMMA SendExecutedKeeps == ASSUME ClientInv, SendExecuted PROVE ClientInv'
<1>1. stack # <<>> /\ Top.fn = "send" /\ In("send", "executed") /\ KeepList /\ KeepClock
  BY DEF SendExecuted, In
<1>2. CASE ret # "WAITING" /\ Return(ret) /\ UNCHANGED ctxs
  <2>1. KeepsChain /\ ctxs'[this] = Ctx
    BY <1>1, <1>2, Parts, SameChain
  <2>2. ListType' /\ UpdateInv'
    BY <1>1, <1>2, Parts, ListKept, SameClock DEF Return
  <2>3. ret = "OK" => Succeeds(ctxs'[this])
    BY <1>1, <2>1, Parts DEF ReturnInv
  <2>4. CallsInv'
    BY <1>1, <1>2, <2>1, <2>3, Parts, ReturnsWith
  <2> QED BY <2>1, <2>2, <2>4, Together
<1>3. CASE Fail("ERROR")
  <2>1. "ERROR" \in Codes \ {"OK"}
    BY DEF Codes
  <2>2. KeepsChain
    BY <1>1, <1>3, <2>1, Parts, FailedChain DEF Fail
  <2>3. ListType' /\ UpdateInv'
    BY <1>1, <1>3, <2>1, Parts, ListKept, SameClock DEF Fail, Return
  <2>4. CallsInv'
    BY <1>1, <1>3, <2>2, Parts, ReturnsWith DEF Fail
  <2> QED BY <2>2, <2>3, <2>4, Together
<1>4. CASE /\ stack' = [stack EXCEPT ![Len(stack)].n = @ + 1, ![Len(stack)].at = "required"]
           /\ UNCHANGED <<ret, ctxs>>
  <2>1. KeepsChain
    BY <1>1, <1>4, Parts, SameChain
  <2>2. ListType' /\ UpdateInv'
    BY <1>1, <1>4, Parts, ListKept, SameClock
  <2>3. CallsInv'
    <3>1. stack' = [stack EXCEPT ![Len(stack)] = [fn |-> Top.fn, ctx |-> this, at |-> "required", n |-> Top.n + 1]]
      BY <1>1, <1>4, Parts, FrameNAt
    <3>2. "required" \in Places(Top.fn) \ {"executed", "rechecked"} /\ Top.n + 1 \in Nat
      BY <1>1, Parts, TopFrame DEF Places, SendPlaces
    <3>3. FrameInv([fn |-> Top.fn, ctx |-> this, at |-> "required", n |-> Top.n + 1], ctxs'[this])
      BY <1>1, SendFrame
    <3> QED BY <1>1, <2>1, <3>1, <3>2, <3>3, Parts, Goes
  <2> QED BY <2>1, <2>2, <2>3, Together
<1> QED BY <1>2, <1>3, <1>4 DEF SendExecuted

LEMMA SendRequiredKeeps == ASSUME ClientInv, SendRequired PROVE ClientInv'
<1>1. /\ stack # <<>> /\ Top.fn = "send" /\ this < Len(ctxs) /\ Call("sub", "send", this + 1)
      /\ UNCHANGED ctxs /\ KeepList /\ KeepClock /\ ret' = ret
  BY DEF SendRequired, In, Call, RequiredPending
<1>2. KeepsChain
  BY <1>1, Parts, SameChain
<1>3. ListType' /\ UpdateInv'
  BY <1>1, Parts, ListKept, SameClock
<1>4. CallsInv'
  <2>1. "sub" \in Places(Top.fn) /\ this + 1 \in DOMAIN ctxs'
    BY <1>1, <1>2, Parts, TheCall, KeptChain DEF Places, SendPlaces
  <2>2. Awaits([fn |-> Top.fn, ctx |-> this, at |-> "sub", n |-> Top.n], Frame("send", this + 1))
    BY <1>1 DEF Awaits, Frame
  <2> QED BY <1>1, <1>2, <2>1, <2>2, Parts, SendFrame, CallsFor
<1> QED BY <1>2, <1>3, <1>4, Together

LEMMA Blacklisting ==
  ASSUME ListType, NEW u \in [Nodes -> 0 .. Later], NEW n
  PROVE  BlacklistAddr(u, n) \in [Nodes -> 0 .. Later]
<1>1. now + 1 \in 0 .. Later
  BY ConstantFacts DEF ListType
<1> QED BY <1>1 DEF BlacklistAddr

LEMMA Dropping == ASSUME ListType PROVE Dropped(until) \in [Nodes -> 0 .. Later]
<1>1. until \in [Nodes -> 0 .. Later]
  BY DEF ListType
<1>2. BlacklistAddr(until, upd8.node) \in [Nodes -> 0 .. Later]
  BY <1>1, Blacklisting
<1> QED BY <1>1, <1>2 DEF Dropped

\* An update that brought nothing: the announcing node is blacklisted.
LEMMA DropKeeps ==
  ASSUME ListType, until' = Dropped(until), upd8' = None, ret' \in Codes,
         UNCHANGED <<now, version, lastBlock, boot, wl, flagged, cache>>
  PROVE  ListType' /\ UpdateInv'
<1>1. until' \in [Nodes -> 0 .. Later]
  BY Dropping
<1>2. UpdateInv'
  BY DEF UpdateInv
<1>3. ListType'
  BY <1>1 DEF ListType, Listed, nodelist
<1> QED BY <1>2, <1>3

LEMMA SendSubKeeps == ASSUME ClientInv, SendSub PROVE ClientInv'
<1>1. stack # <<>> /\ Top.fn = "send" /\ In("send", "sub") /\ KeepClock
  BY DEF SendSub, In
<1> DEFINE f == [fn |-> Top.fn, ctx |-> this, at |-> "rechecked", n |-> Top.n]
<1>2. Awaits(f, Frame("execute", this)) /\ "rechecked" \in Places(Top.fn)
  BY <1>1 DEF Awaits, Frame, Places, SendPlaces
<1>3. CASE /\ ctxs' = RemoveRequired(this + 1)
           /\ until' = Dropped(until) /\ upd8' = None
           /\ Call("rechecked", "execute", this)
           /\ UNCHANGED <<version, lastBlock, boot, wl, flagged, cache>>
  <2>1. this + 1 \in this + 1 .. Len(ctxs) + 1
    BY <1>1, Parts, TheCall
  <2>2. KeepsChain
    BY <1>1, <1>3, <2>1, Parts, CutChain
  <2>3. ListType' /\ UpdateInv'
    BY <1>1, <1>3, Parts, SameClock, DropKeeps DEF Call
  <2>4. this \in DOMAIN ctxs'
    BY <1>1, <2>2, Parts, KeptChain
  <2>5. CallsInv'
    BY <1>1, <1>2, <1>3, <2>2, <2>4, Parts, SendFrame, CallsFor
  <2> QED BY <2>2, <2>3, <2>5, Together
<1>4. CASE Call("rechecked", "execute", this) /\ UNCHANGED ctxs /\ KeepList
  <2>1. KeepsChain
    BY <1>1, <1>4, Parts, SameChain
  <2>2. ListType' /\ UpdateInv'
    BY <1>1, <1>4, Parts, ListKept, SameClock DEF Call
  <2>3. this \in DOMAIN ctxs'
    BY <1>1, <2>1, Parts, KeptChain
  <2>4. CallsInv'
    BY <1>1, <1>2, <1>4, <2>1, <2>3, Parts, SendFrame, CallsFor
  <2> QED BY <2>1, <2>2, <2>4, Together
<1>5. CASE ret = "ERROR" /\ Fail(ret) /\ KeepList
  <2>1. ret \in Codes \ {"OK"}
    BY <1>5 DEF Codes
  <2>2. KeepsChain
    BY <1>1, <1>5, <2>1, Parts, FailedChain DEF Fail
  <2>3. ListType' /\ UpdateInv'
    BY <1>1, <1>5, <2>1, Parts, ListKept, SameClock DEF Fail, Return
  <2>4. CallsInv'
    BY <1>1, <1>5, <2>1, <2>2, Parts, ReturnsWith DEF Fail
  <2> QED BY <2>2, <2>3, <2>4, Together
<1> QED BY <1>3, <1>4, <1>5 DEF SendSub

LEMMA SendRecheckedKeeps == ASSUME ClientInv, SendRechecked PROVE ClientInv'
<1>1. /\ stack # <<>> /\ Top.fn = "send" /\ In("send", "rechecked") /\ KeepList /\ KeepClock
      /\ UNCHANGED ctxs
  BY DEF SendRechecked, In
<1>2. KeepsChain /\ ctxs'[this] = Ctx
  BY <1>1, Parts, SameChain
<1>3. CASE Goto("required")
  <2>1. ListType' /\ UpdateInv'
    BY <1>1, <1>3, Parts, ListKept, SameClock DEF Goto
  <2>2. "required" \in Places(Top.fn) \ {"executed", "rechecked"}
    BY <1>1 DEF Places, SendPlaces
  <2>3. CallsInv'
    BY <1>1, <1>2, <1>3, <2>2, Parts, SendFrame, GoesTo
  <2> QED BY <1>2, <2>1, <2>3, Together
<1>4. CASE Return(ret)
  <2>1. ListType' /\ UpdateInv'
    BY <1>1, <1>4, Parts, ListKept, SameClock DEF Return
  <2>2. ret = "OK" => Succeeds(ctxs'[this])
    BY <1>1, <1>2, Parts DEF ReturnInv
  <2>3. CallsInv'
    BY <1>1, <1>2, <1>4, <2>2, Parts, ReturnsWith
  <2> QED BY <1>2, <2>1, <2>3, Together
<1> QED BY <1>3, <1>4 DEF SendRechecked

LEMMA TransportKeeps == ASSUME ClientInv, Transport PROVE ClientInv'
<1>1. /\ stack # <<>> /\ Top.fn = "send" /\ KeepList /\ Goto("start") /\ Ctx.raw = <<>>
  BY DEF Transport, In
<1>2. PICK raw \in [1 .. Len(Ctx.nodes) -> Answers(Ctx.kind)] : ctxs' = [ctxs EXCEPT ![this].raw = raw]
  BY DEF Transport
<1>3. Ctx \in GoodContexts /\ Ctx = ctxs[this] /\ this \in DOMAIN ctxs
  BY <1>1, Parts, TheCall
<1>4. ctxs' = [ctxs EXCEPT ![this] = [Ctx EXCEPT !.raw = raw]]
  BY <1>2, <1>3
<1>5. KeepsChain
  BY <1>1, <1>3, <1>4, Parts, AnsweredIsGood, OwnContext
<1>6. now' \in 0 .. MaxTime
  <2>1. now \in 0 .. MaxTime /\ now' \in now .. (IF now < MaxTime THEN now + 1 ELSE now)
    BY Parts DEF Transport, ListType
  <2> QED BY <2>1, ConstantFacts
<1>7. ListType' /\ UpdateInv'
  <2>1. UNCHANGED <<version, lastBlock, boot, until, upd8, wl, flagged, cache, ret>>
    BY <1>1 DEF KeepList, listVars, Goto
  <2>2. UpdateInv'
    BY <2>1, Parts DEF UpdateInv
  <2>3. ListType'
    BY <1>6, <2>1, Parts DEF ListType, Listed, nodelist
  <2> QED BY <2>2, <2>3
<1>8. "start" \in Places(Top.fn) \ {"executed", "rechecked"}
  BY <1>1 DEF Places, SendPlaces
<1>9. CallsInv'
  BY <1>1, <1>5, <1>8, Parts, SendFrame, GoesTo
<1> QED BY <1>5, <1>7, <1>9, Together

-----------------------------------------------------------------------------
(* in3_ctx_execute                                                         *)

LEMMA ExecuteStartKeeps == ASSUME ClientInv, ExecuteStart PROVE ClientInv'
<1>1. /\ stack # <<>> /\ Top.fn = "execute" /\ KeepList /\ KeepClock /\ UNCHANGED ctxs
  BY DEF ExecuteStart, In
<1>2. KeepsChain /\ ctxs'[this] = Ctx /\ Ctx \in GoodContexts
  BY <1>1, Parts, SameChain, TheCall
<1>3. ASSUME Ctx.error, Return(IF Ctx.state \in {"OK", "WAITING"} THEN "ERROR" ELSE Ctx.state)
      PROVE  ClientInv'
  <2> DEFINE code == IF Ctx.state \in {"OK", "WAITING"} THEN "ERROR" ELSE Ctx.state
  <2>1. code \in Codes \ {"OK"}
    BY <1>2, GoodFacts DEF Codes
  <2>2. Return(code)
    BY <1>3
  <2> HIDE DEF code
  <2>3. ListType' /\ UpdateInv'
    BY <1>1, <2>1, <2>2, Parts, ListKept, SameClock DEF Return
  <2>4. CallsInv'
    BY <1>1, <1>2, <2>1, <2>2, Parts, ReturnsWith
  <2> QED BY <1>2, <2>3, <2>4, Together
<1>4. ASSUME ~Ctx.error, Ctx.response # None, Ctx.state = "OK", Return("OK")
      PROVE  ClientInv'
  <2>1. ListType' /\ UpdateInv'
    BY <1>1, <1>4, Parts, ListKept, SameClock DEF Return, Codes
  <2>2. Succeeds(ctxs'[this])
    BY <1>2, <1>4 DEF Succeeds
  <2>3. CallsInv'
    BY <1>1, <1>2, <1>4, <2>2, Parts, ReturnsWith
  <2> QED BY <1>2, <2>1, <2>3, Together
<1>5. ASSUME ~Ctx.error, ~(Ctx.response # None /\ Ctx.state = "OK"),
             IF this < Len(ctxs) THEN Call("required", "execute", this + 1) ELSE Goto("work")
      PROVE  ClientInv'
  <2>1. ListType' /\ UpdateInv'
    BY <1>1, <1>5, Parts, ListKept, SameClock DEF Call, Goto
  <2>2. Ctx.attempt < MaxAttempts /\ (Ctx.state = "OK" => Ctx.needs = 0)
    BY <1>2, <1>5, GoodFacts DEF ContextInv
  <2>3. \A at \in {"required", "work"} :
          FrameInv([fn |-> Top.fn, ctx |-> this, at |-> at, n |-> Top.n], ctxs'[this])
    BY <1>2, <2>2 DEF FrameInv
  <2>4. "required" \in Places(Top.fn) /\ "work" \in Places(Top.fn) \ {"executed", "rechecked"}
    BY <1>1 DEF Places, ExecutePlaces
  <2>5. CASE this < Len(ctxs) /\ Call("required", "execute", this + 1)
    <3>1. this + 1 \in DOMAIN ctxs'
      BY <1>1, <2>5, Parts, TheCall
    <3>2. Awaits([fn |-> Top.fn, ctx |-> this, at |-> "required", n |-> Top.n], Frame("execute", this + 1))
      BY <1>1 DEF Awaits, Frame
    <3>3. CallsInv'
      BY <1>1, <1>2, <2>3, <2>4, <2>5, <3>1, <3>2, Parts, CallsFor
    <3> QED BY <1>2, <2>1, <3>3, Together
  <2>6. CASE Goto("work")
    <3>1. CallsInv'
      BY <1>1, <1>2, <2>3, <2>4, <2>6, Parts, GoesTo
    <3> QED BY <1>2, <2>1, <3>1, Together
  <2> QED BY <1>5, <2>5, <2>6
<1> QED BY <1>3, <1>4, <1>5 DEF ExecuteStart

\* A place of in3_ctx_execute before it has looked for nodes, for the same context.
LEMMA WorkFrame ==
  ASSUME ClientInv, stack # <<>>, Top.fn = "execute", Top.at # "start"
  PROVE  /\ Ctx \in GoodContexts /\ Ctx.attempt < MaxAttempts /\ (Ctx.state = "OK" => Ctx.needs = 0)
         /\ Top.at \in {"listed", "whitelist", "whitelisted", "pick"} => Ctx.nodes = <<>> /\ Ctx.raw = <<>>
         /\ Top.at \in {"verify", "verifying"} => Ctx.raw # <<>> /\ Top.n > 0
         /\ Top.at = "verifying" => Top.n <= Len(Ctx.nodes) /\ Ctx.raw[Top.n].quality = "good"
<1>1. FrameInv(Top, ctxs[Top.ctx]) /\ Ctx \in GoodContexts /\ Ctx = ctxs[Top.ctx]
  BY Parts, TheCall DEF FramesInv
<1> QED BY <1>1 DEF FrameInv

LEMMA ExecuteRequiredKeeps == ASSUME ClientInv, ExecuteRequired PROVE ClientInv'
<1>1. /\ stack # <<>> /\ Top.fn = "execute" /\ Top.at = "required" /\ KeepList /\ KeepClock
      /\ UNCHANGED ctxs
  BY DEF ExecuteRequired, In
<1>2. KeepsChain /\ ctxs'[this] = Ctx
  BY <1>1, Parts, SameChain
<1>3. ASSUME Goto("work") PROVE ClientInv'
  <2>1. ListType' /\ UpdateInv'
    BY <1>1, <1>3, Parts, ListKept, SameClock DEF Goto
  <2>2. FrameInv([fn |-> Top.fn, ctx |-> this, at |-> "work", n |-> Top.n], ctxs'[this])
    BY <1>1, <1>2, WorkFrame DEF FrameInv
  <2>3. "work" \in Places(Top.fn) \ {"executed", "rechecked"}
    BY <1>1 DEF Places, ExecutePlaces
  <2>4. CallsInv'
    BY <1>1, <1>2, <1>3, <2>2, <2>3, Parts, GoesTo
  <2> QED BY <1>2, <2>1, <2>4, Together
<1>4. ASSUME ret # "OK", Return(ret) PROVE ClientInv'
  <2>1. ListType' /\ UpdateInv'
    BY <1>1, <1>4, Parts, ListKept, SameClock DEF Return
  <2>2. CallsInv'
    BY <1>1, <1>2, <1>4, Parts, ReturnsWith
  <2> QED BY <1>2, <2>1, <2>2, Together
<1> QED BY <1>3, <1>4 DEF ExecuteRequired

LEMMA ExecuteResponseKeeps == ASSUME ClientInv, ExecuteResponse PROVE ClientInv'
<1>1. /\ stack # <<>> /\ Top.fn = "execute" /\ Top.at = "work" /\ KeepList /\ KeepClock
      /\ UNCHANGED ctxs
  BY DEF ExecuteResponse, In
<1>2. KeepsChain /\ ctxs'[this] = Ctx
  BY <1>1, Parts, SameChain
<1>3. ASSUME Return("WAITING") PROVE ClientInv'
  <2>1. ListType' /\ UpdateInv'
    BY <1>1, <1>3, Parts, ListKept, SameClock DEF Return, Codes
  <2>2. CallsInv'
    BY <1>1, <1>2, <1>3, Parts, ReturnsWith
  <2> QED BY <1>2, <2>1, <2>2, Together
<1>4. ASSUME Ctx.raw # <<>>, UNCHANGED ret,
             stack' = [stack EXCEPT ![Len(stack)].at = "verify", ![Len(stack)].n = 1]
      PROVE  ClientInv'
  <2>1. ListType' /\ UpdateInv'
    BY <1>1, <1>4, Parts, ListKept, SameClock
  <2>2. stack' = [stack EXCEPT ![Len(stack)] = [fn |-> Top.fn, ctx |-> this, at |-> "verify", n |-> 1]]
    BY <1>1, <1>4, Parts, FrameAtN
  <2>3. FrameInv([fn |-> Top.fn, ctx |-> this, at |-> "verify", n |-> 1], ctxs'[this])
    BY <1>1, <1>2, <1>4, WorkFrame DEF FrameInv
  <2>4. "verify" \in Places(Top.fn) \ {"executed", "rechecked"}
    BY <1>1 DEF Places, ExecutePlaces
  <2>5. CallsInv'
    BY <1>1, <1>2, <2>2, <2>3, <2>4, Parts, Goes
  <2> QED BY <1>2, <2>1, <2>5, Together
<1> QED BY <1>3, <1>4 DEF ExecuteResponse

-----------------------------------------------------------------------------
(* in3_node_list_get: the list.                                            *)

LEMMA NoUpdateKeeps == ASSUME ClientInv, NoUpdate PROVE ClientInv'
<1>1. /\ stack # <<>> /\ Top.fn = "execute" /\ Top.at = "work" /\ Ctx.nodes = <<>> /\ Ctx.raw = <<>>
      /\ Goto("whitelist") /\ KeepList /\ KeepClock /\ UNCHANGED ctxs
  BY DEF NoUpdate, Listing, In
<1>2. KeepsChain /\ ctxs'[this] = Ctx
  BY <1>1, Parts, SameChain
<1>3. ListType' /\ UpdateInv'
  BY <1>1, Parts, ListKept, SameClock DEF Goto
<1>4. FrameInv([fn |-> Top.fn, ctx |-> this, at |-> "whitelist", n |-> Top.n], ctxs'[this])
  BY <1>1, <1>2, WorkFrame DEF FrameInv
<1>5. "whitelist" \in Places(Top.fn) \ {"executed", "rechecked"}
  BY <1>1 DEF Places, ExecutePlaces
<1>6. CallsInv'
  BY <1>1, <1>2, <1>4, <1>5, Parts, GoesTo
<1> QED BY <1>2, <1>3, <1>6, Together

LEMMA RequestListKeeps == ASSUME ClientInv, RequestList PROVE ClientInv'
<1> DEFINE dataNode == IF upd8 # None /\ upd8.exp # 0 THEN upd8.node ELSE None
           d == NewCtx("in3_nodeList", dataNode, 0, 0)
<1>1. /\ stack # <<>> /\ Top.fn = "execute" /\ Top.at = "work" /\ Ctx.nodes = <<>> /\ Ctx.raw = <<>>
      /\ Call("listed", "execute", this + 1) /\ KeepList /\ KeepClock
      /\ ctxs' = AddRequired(this, d)
  BY DEF RequestList, Listing, In
<1>2. d \in GoodContexts
  <2>1. upd8 # None => upd8.node \in Nodes \cup {None}
    BY Parts DEF ListType, Updates
  <2>2. dataNode \in Nodes \cup {None} /\ "in3_nodeList" \in Kinds /\ 0 \in Nat
    BY <2>1 DEF Kinds
  <2> HIDE DEF dataNode
  <2> QED BY <2>2, NewIsGood
<1> HIDE DEF d
<1>3. KeepsChain /\ ctxs'[this] = Ctx /\ this + 1 \in DOMAIN ctxs'
  BY <1>1, <1>2, Parts, AddedContext
<1>4. ListType' /\ UpdateInv'
  BY <1>1, Parts, ListKept, SameClock DEF Call
<1>5. FrameInv([fn |-> Top.fn, ctx |-> this, at |-> "listed", n |-> Top.n], ctxs'[this])
  BY <1>1, <1>3, WorkFrame DEF FrameInv
<1>6. "listed" \in Places(Top.fn)
  BY <1>1 DEF Places, ExecutePlaces
<1>7. Awaits([fn |-> Top.fn, ctx |-> this, at |-> "listed", n |-> Top.n], Frame("execute", this + 1))
  BY <1>1 DEF Awaits, Frame
<1>8. CallsInv'
  BY <1>1, <1>3, <1>5, <1>6, <1>7, Parts, CallsFor
<1> QED BY <1>3, <1>4, <1>8, Together

LEMMA ListRequestedKeeps == ASSUME ClientInv, ListRequested PROVE ClientInv'
<1>1. /\ stack # <<>> /\ Top.fn = "execute" /\ Top.at = "listed" /\ KeepList /\ KeepClock
  BY DEF ListRequested, In
<1>2. ASSUME Goto("whitelist"), UNCHANGED ctxs PROVE ClientInv'
  <2>1. KeepsChain /\ ctxs'[this] = Ctx
    BY <1>1, <1>2, Parts, SameChain
  <2>2. ListType' /\ UpdateInv'
    BY <1>1, <1>2, Parts, ListKept, SameClock DEF Goto
  <2>3. FrameInv([fn |-> Top.fn, ctx |-> this, at |-> "whitelist", n |-> Top.n], ctxs'[this])
    BY <1>1, <2>1, WorkFrame DEF FrameInv
  <2>4. "whitelist" \in Places(Top.fn) \ {"executed", "rechecked"}
    BY <1>1 DEF Places, ExecutePlaces
  <2>5. CallsInv'
    BY <1>1, <1>2, <2>1, <2>3, <2>4, Parts, GoesTo
  <2> QED BY <2>1, <2>2, <2>5, Together
<1>3. ASSUME ret # "OK", Fail(ret) PROVE ClientInv'
  <2>1. ret \in Codes \ {"OK"}
    BY <1>3, Parts
  <2>2. KeepsChain
    BY <1>1, <1>3, <2>1, Parts, FailedChain DEF Fail
  <2>3. ListType' /\ UpdateInv'
    BY <1>1, <1>3, <2>1, Parts, ListKept, SameClock DEF Fail, Return
  <2>4. CallsInv'
    BY <1>1, <1>3, <2>2, Parts, ReturnsWith DEF Fail
  <2> QED BY <2>2, <2>3, <2>4, Together
<1> QED BY <1>2, <1>3 DEF ListRequested

LEMMA ListFailedKeeps == ASSUME ClientInv, ListFailed PROVE ClientInv'
<1>1. /\ stack # <<>> /\ Top.fn = "execute" /\ Top.at = "work" /\ Ctx.nodes = <<>> /\ Ctx.raw = <<>>
      /\ Goto("whitelist") /\ KeepClock
      /\ until' = Dropped(until) /\ upd8' = None
      /\ UNCHANGED <<version, lastBlock, boot, wl, flagged, cache, ctxs>>
  BY DEF ListFailed, Listing, In
<1>2. KeepsChain /\ ctxs'[this] = Ctx
  BY <1>1, Parts, SameChain
<1>3. ListType' /\ UpdateInv'
  BY <1>1, Parts, SameClock, DropKeeps DEF Goto
<1>4. FrameInv([fn |-> Top.fn, ctx |-> this, at |-> "whitelist", n |-> Top.n], ctxs'[this])
  BY <1>1, <1>2, WorkFrame DEF FrameInv
<1>5. "whitelist" \in Places(Top.fn) \ {"executed", "rechecked"}
  BY <1>1 DEF Places, ExecutePlaces
<1>6. CallsInv'
  BY <1>1, <1>2, <1>4, <1>5, Parts, GoesTo
<1> QED BY <1>2, <1>3, <1>6, Together

\* What a request of a kind that succeeded has got.
LEMMA GotResult ==
  ASSUME ChainInv, StackType, stack # <<>>, NEW k \in 1 .. Len(ctxs),
         Succeeded(k), HasResult(ctxs[k].response)
  PROVE  /\ ctxs[k].kind \in Kinds /\ ctxs[k].response \in Answers(ctxs[k].kind)
         /\ ctxs[k].response.list \in Lists(ctxs[k].kind)
<1>1. k \in k .. Len(ctxs) /\ ctxs[k] \in GoodContexts
  BY TheCall, ElementOfSeq DEF ChainInv
<1>2. ctxs[k].response # None
  BY <1>1 DEF Succeeded
<1>3. ctxs[k].kind \in Kinds /\ ctxs[k].response \in Answers(ctxs[k].kind)
  BY <1>1, <1>2, GoodFacts
<1>4. ctxs[k].response.list \in Lists(ctxs[k].kind)
  BY <1>3, AnswerFacts DEF HasResult
<1> QED BY <1>3, <1>4

LEMMA Listings ==
  /\ Lists("in3_nodeList") = [block : Blocks \ {0}, ok : BOOLEAN]
  /\ Lists("in3_whiteList") = [block : DOMAIN WhiteLists, ok : {TRUE}]
BY DEF Lists

LEMMA ToSetOfSeq == ASSUME NEW T, NEW s \in Seq(T) PROVE ToSet(s) \subseteq T
<1>1. DOMAIN s = 1 .. Len(s)
  BY LenProperties
<1> QED BY <1>1, ElementOfSeq DEF ToSet

LEMMA Whitelists ==
  ASSUME NEW v \in Blocks, NEW addresses PROVE Whitelisting(Registry[v], addresses) \subseteq Nodes
<1>1. ToSet(Registry[v]) \subseteq Nodes
  BY ConstantFacts, ToSetOfSeq
<1> QED BY <1>1 DEF Whitelisting

\* A list that arrived, whatever it says.
LEMMA ArrivedList ==
  ASSUME ListType, NEW list \in [block : Blocks \ {0}, ok : BOOLEAN],
         now' = now, upd8' = None, wl' = wl, ret' \in Codes,
         lastBlock' = IF list.block > lastBlock THEN list.block ELSE lastBlock,
         IF list.block > lastBlock /\ list.ok
         THEN /\ version' = list.block /\ boot' = {}
              /\ until' = FilledWeights(Checked(until, list.block), list.block)
         ELSE until' = Checked(until, list.block) /\ UNCHANGED <<version, boot>>,
         \/ UNCHANGED <<flagged, cache>>
         \/ /\ flagged' = IF wl = None THEN flagged
                          ELSE Whitelisting(Registry[version'], wl.addresses)
            /\ cache' = Stored(version', lastBlock', until')
  PROVE  ListType' /\ UpdateInv'
<1>1. list.block \in Blocks
  OBVIOUS
<1>2. Checked(until, list.block) \in [Nodes -> 0 .. Later]
  <2>1. until \in [Nodes -> 0 .. Later]
    BY DEF ListType
  <2> QED BY <2>1, Blacklisting DEF Checked
<1>3. FilledWeights(Checked(until, list.block), list.block) \in [Nodes -> 0 .. Later]
  <2>1. 0 \in 0 .. Later /\ Later \in 0 .. Later
    BY ConstantFacts
  <2> QED BY <1>2, <2>1 DEF FilledWeights
<1>4. version' \in Blocks /\ lastBlock' \in Blocks /\ until' \in [Nodes -> 0 .. Later]
  BY <1>1, <1>2, <1>3 DEF ListType
<1>5. boot' \subseteq Listed'
  BY DEF ListType, Listed, nodelist
<1>6. flagged' \subseteq Nodes
  BY <1>4, Whitelists DEF ListType
<1>7. cache' \in [list : {None} \cup Stores, white : {None} \cup DOMAIN WhiteLists]
  <2>1. cache \in [list : {None} \cup Stores, white : {None} \cup DOMAIN WhiteLists]
    BY DEF ListType
  <2>2. [version |-> version', last |-> lastBlock', until |-> until'] \in Stores
    BY <1>4 DEF Stores
  <2>3. CASE cache' = Stored(version', lastBlock', until')
    BY <2>1, <2>2, <2>3 DEF Stored
  <2> QED BY <2>1, <2>3
<1>8. ListType'
  BY <1>4, <1>5, <1>6, <1>7 DEF ListType
<1> QED BY <1>8 DEF UpdateInv

LEMMA ErredChain ==
  ASSUME NEW cs \in Seq(GoodContexts), NEW i \in 1 .. Len(cs)
  PROVE  LET ds == SetError(cs, i, "ERROR")
         IN  /\ ds \in Seq(GoodContexts) /\ Len(ds) = Len(cs)
             /\ ds[i] = Erred(cs[i], "ERROR")
             /\ \A j \in 1 .. Len(cs) : j # i => ds[j] = cs[j]
<1>1. "ERROR" \in Codes /\ "ERROR" \in Codes \ {"OK"} /\ "ERROR" # "WAITING"
  BY DEF Codes
<1>2. SetError(cs, i, "ERROR") = ErredAt(cs, i, "ERROR")
  BY <1>1, SetErrorIs
<1>3. Erred(cs[i], "ERROR") \in GoodContexts
  BY <1>1, ElementOfSeq, ErredIsGood DEF Erred
<1>4. ErredAt(cs, i, "ERROR") = [cs EXCEPT ![i] = Erred(cs[i], "ERROR")]
  BY DEF ErredAt
<1> QED BY <1>2, <1>3, <1>4, ExceptSeq

LEMMA BothErred ==
  ASSUME ChainInv, StackType, stack # <<>>, NEW k \in this + 1 .. Len(ctxs),
         ctxs' = SetError(SetError(ctxs, k, "ERROR"), this, "ERROR")
  PROVE  KeepsChain /\ Len(ctxs') = Len(ctxs)
<1> DEFINE cs == SetError(ctxs, k, "ERROR")
<1>1. /\ this \in 1 .. Len(ctxs) /\ k \in 1 .. Len(ctxs) /\ this \in Nat /\ k \in Nat /\ Len(ctxs) \in Nat
      /\ ctxs \in Seq(GoodContexts)
  BY TheCall DEF ChainInv
<1>2. /\ cs \in Seq(GoodContexts) /\ Len(cs) = Len(ctxs)
      /\ \A j \in 1 .. Len(ctxs) : j # k => cs[j] = ctxs[j]
  BY <1>1, ErredChain
<1>3. ctxs' = SetError(cs, this, "ERROR")
  OBVIOUS
<1> HIDE DEF cs
<1>4. this \in 1 .. Len(cs)
  BY <1>1, <1>2
<1>5. /\ ctxs' \in Seq(GoodContexts) /\ Len(ctxs') = Len(cs)
      /\ \A j \in 1 .. Len(cs) : j # this => ctxs'[j] = cs[j]
  BY <1>2, <1>3, <1>4, ErredChain
<1>6. ASSUME NEW j \in 1 .. this - 1 PROVE ctxs'[j] = ctxs[j]
  <2>1. j \in 1 .. Len(ctxs) /\ j # this /\ j # k
    BY <1>1
  <2> QED BY <2>1, <1>2, <1>5
<1> QED BY <1>1, <1>2, <1>5, <1>6 DEF KeepsChain

LEMMA ListArrivedKeeps == ASSUME ClientInv, ListArrived PROVE ClientInv'
<1> DEFINE k == ListRequest
           list == ctxs[k].response.list
           newer == list.block > lastBlock
<1>1. /\ stack # <<>> /\ Top.fn = "execute" /\ Top.at = "work" /\ Ctx.nodes = <<>> /\ Ctx.raw = <<>>
      /\ k # 0 /\ Succeeded(k) /\ HasResult(ctxs[k].response) /\ KeepClock
  BY DEF ListArrived, Listing, In
<1>2. k \in this + 1 .. Len(ctxs) /\ ctxs[k].kind = "in3_nodeList"
  BY <1>1, Parts, FoundRequired DEF ListRequest
<1>3. list \in [block : Blocks \ {0}, ok : BOOLEAN]
  <2>1. k \in 1 .. Len(ctxs)
    BY <1>1, <1>2, Parts, TheCall
  <2>2. list \in Lists(ctxs[k].kind)
    BY <2>1, <1>1, Parts, GotResult
  <2> QED BY <2>2, <1>2, Listings
<1>4. /\ upd8' = None /\ wl' = wl /\ now' = now
      /\ lastBlock' = IF newer THEN list.block ELSE lastBlock
      /\ IF newer /\ list.ok
         THEN /\ version' = list.block /\ boot' = {}
              /\ until' = FilledWeights(Checked(until, list.block), list.block)
         ELSE until' = Checked(until, list.block) /\ UNCHANGED <<version, boot>>
      /\ IF newer /\ ~list.ok
         THEN /\ Return("ERROR")
              /\ ctxs' = SetError(SetError(ctxs, k, "ERROR"), this, "ERROR")
              /\ UNCHANGED <<flagged, cache>>
         ELSE /\ Goto("whitelist")
              /\ ctxs' = RemoveRequired(k)
              /\ flagged' = IF wl = None THEN flagged
                            ELSE Whitelisting(Registry[version'], wl.addresses)
              /\ cache' = Stored(version', lastBlock', until')
  BY <1>1, SameClock DEF ListArrived
<1> HIDE DEF list, newer, k
<1>5. ret' \in Codes
  BY <1>4, Parts DEF Return, Goto, Codes
<1>6. ListType' /\ UpdateInv'
  <2>1. \/ UNCHANGED <<flagged, cache>>
        \/ /\ flagged' = IF wl = None THEN flagged
                         ELSE Whitelisting(Registry[version'], wl.addresses)
           /\ cache' = Stored(version', lastBlock', until')
    BY <1>4
  <2>2. /\ lastBlock' = IF list.block > lastBlock THEN list.block ELSE lastBlock
        /\ IF list.block > lastBlock /\ list.ok
           THEN /\ version' = list.block /\ boot' = {}
                /\ until' = FilledWeights(Checked(until, list.block), list.block)
           ELSE until' = Checked(until, list.block) /\ UNCHANGED <<version, boot>>
    BY <1>4 DEF newer
  <2> QED BY <1>3, <1>4, <1>5, <2>1, <2>2, Parts, ArrivedList
<1>7. CASE newer /\ ~list.ok
  <2>1. Return("ERROR") /\ ctxs' = SetError(SetError(ctxs, k, "ERROR"), this, "ERROR")
    BY <1>4, <1>7
  <2>2. KeepsChain
    BY <1>1, <1>2, <2>1, Parts, BothErred
  <2>3. CallsInv'
    BY <1>1, <2>1, <2>2, Parts, ReturnsWith
  <2> QED BY <1>6, <2>2, <2>3, Together
<1>8. CASE ~(newer /\ ~list.ok)
  <2>1. Goto("whitelist") /\ ctxs' = RemoveRequired(k)
    BY <1>4, <1>8
  <2>2. k \in this + 1 .. Len(ctxs) + 1
    BY <1>1, <1>2, Parts, TheCall
  <2>3. KeepsChain /\ ctxs'[this] = Ctx
    BY <1>1, <2>1, <2>2, Parts, CutChain
  <2>4. FrameInv([fn |-> Top.fn, ctx |-> this, at |-> "whitelist", n |-> Top.n], ctxs'[this])
    BY <1>1, <2>3, WorkFrame DEF FrameInv
  <2>5. "whitelist" \in Places(Top.fn) \ {"executed", "rechecked"}
    BY <1>1 DEF Places, ExecutePlaces
  <2>6. CallsInv'
    BY <1>1, <2>1, <2>3, <2>4, <2>5, Parts, GoesTo
  <2> QED BY <1>6, <2>3, <2>6, Together
<1> QED BY <1>7, <1>8

-----------------------------------------------------------------------------
(* in3_node_list_get: the white list, and the choice of the nodes.         *)

LEMMA NoWhitelistingKeeps == ASSUME ClientInv, NoWhitelisting PROVE ClientInv'
<1>1. /\ stack # <<>> /\ Top.fn = "execute" /\ Top.at = "whitelist"
      /\ Goto("pick") /\ KeepList /\ KeepClock /\ UNCHANGED ctxs
  BY DEF NoWhitelisting, AtWhitelist, In
<1>2. KeepsChain /\ ctxs'[this] = Ctx
  BY <1>1, Parts, SameChain
<1>3. ListType' /\ UpdateInv'
  BY <1>1, Parts, ListKept, SameClock DEF Goto
<1>4. FrameInv([fn |-> Top.fn, ctx |-> this, at |-> "pick", n |-> Top.n], ctxs'[this])
  BY <1>1, <1>2, WorkFrame DEF FrameInv
<1>5. "pick" \in Places(Top.fn) \ {"executed", "rechecked"}
  BY <1>1 DEF Places, ExecutePlaces
<1>6. CallsInv'
  BY <1>1, <1>2, <1>4, <1>5, Parts, GoesTo
<1> QED BY <1>2, <1>3, <1>6, Together

\* Only the white list's state, the marks and the stored white list change.
LEMMA WhitelistKept ==
  ASSUME ListType, UpdateInv, UNCHANGED <<now, version, lastBlock, boot, until, upd8>>,
         ret' \in Codes, wl' \in {None} \cup WhiteListings, flagged' \subseteq Nodes,
         cache' \in [list : {None} \cup Stores, white : {None} \cup DOMAIN WhiteLists]
  PROVE  ListType' /\ UpdateInv'
<1>1. UpdateInv'
  BY DEF UpdateInv
<1>2. ListType'
  BY DEF ListType, Listed, nodelist
<1> QED BY <1>1, <1>2

LEMMA NeedsNoMore ==
  ASSUME ListType, wl # None PROVE [wl EXCEPT !.needs = FALSE] \in WhiteListings
<1>1. FALSE \in BOOLEAN /\ wl \in WhiteListings
  BY DEF ListType
<1> QED BY <1>1 DEF WhiteListings

LEMMA RequestWhitelistKeeps == ASSUME ClientInv, RequestWhitelist PROVE ClientInv'
<1> DEFINE d == NewCtx("in3_whiteList", None, 0, 0)
<1>1. /\ stack # <<>> /\ Top.fn = "execute" /\ Top.at = "whitelist" /\ wl # None
      /\ Call("whitelisted", "execute", this + 1) /\ KeepClock
      /\ wl' = [wl EXCEPT !.needs = FALSE]
      /\ ctxs' = AddRequired(this, d)
      /\ UNCHANGED <<version, lastBlock, boot, until, upd8, flagged, cache>>
  BY DEF RequestWhitelist, AtWhitelist, WhiteDue, In
<1>2. d \in GoodContexts
  <2>1. None \in Nodes \cup {None} /\ "in3_whiteList" \in Kinds /\ 0 \in Nat
    BY DEF Kinds
  <2> QED BY <2>1, NewIsGood
<1> HIDE DEF d
<1>3. KeepsChain /\ ctxs'[this] = Ctx /\ this + 1 \in DOMAIN ctxs'
  BY <1>1, <1>2, Parts, AddedContext
<1>4. ListType' /\ UpdateInv'
  <2>1. wl' \in {None} \cup WhiteListings /\ flagged' \subseteq Nodes /\ ret' \in Codes
        /\ cache' \in [list : {None} \cup Stores, white : {None} \cup DOMAIN WhiteLists]
    BY <1>1, Parts, NeedsNoMore DEF ListType, Call
  <2> QED BY <1>1, <2>1, Parts, SameClock, WhitelistKept
<1>5. FrameInv([fn |-> Top.fn, ctx |-> this, at |-> "whitelisted", n |-> Top.n], ctxs'[this])
  BY <1>1, <1>3, WorkFrame DEF FrameInv
<1>6. "whitelisted" \in Places(Top.fn)
  BY <1>1 DEF Places, ExecutePlaces
<1>7. Awaits([fn |-> Top.fn, ctx |-> this, at |-> "whitelisted", n |-> Top.n], Frame("execute", this + 1))
  BY <1>1 DEF Awaits, Frame
<1>8. CallsInv'
  BY <1>1, <1>3, <1>5, <1>6, <1>7, Parts, CallsFor
<1> QED BY <1>3, <1>4, <1>8, Together

LEMMA WhitelistRequestedKeeps == ASSUME ClientInv, WhitelistRequested PROVE ClientInv'
<1>1. /\ stack # <<>> /\ Top.fn = "execute" /\ Top.at = "whitelisted" /\ KeepList /\ KeepClock
  BY DEF WhitelistRequested, In
<1>2. ASSUME Goto("pick"), UNCHANGED ctxs PROVE ClientInv'
  <2>1. KeepsChain /\ ctxs'[this] = Ctx
    BY <1>1, <1>2, Parts, SameChain
  <2>2. ListType' /\ UpdateInv'
    BY <1>1, <1>2, Parts, ListKept, SameClock DEF Goto
  <2>3. FrameInv([fn |-> Top.fn, ctx |-> this, at |-> "pick", n |-> Top.n], ctxs'[this])
    BY <1>1, <2>1, WorkFrame DEF FrameInv
  <2>4. "pick" \in Places(Top.fn) \ {"executed", "rechecked"}
    BY <1>1 DEF Places, ExecutePlaces
  <2>5. CallsInv'
    BY <1>1, <1>2, <2>1, <2>3, <2>4, Parts, GoesTo
  <2> QED BY <2>1, <2>2, <2>5, Together
<1>3. ASSUME ret # "OK", Fail(ret) PROVE ClientInv'
  <2>1. ret \in Codes \ {"OK"}
    BY <1>3, Parts
  <2>2. KeepsChain
    BY <1>1, <1>3, <2>1, Parts, FailedChain DEF Fail
  <2>3. ListType' /\ UpdateInv'
    BY <1>1, <1>3, <2>1, Parts, ListKept, SameClock DEF Fail, Return
  <2>4. CallsInv'
    BY <1>1, <1>3, <2>2, Parts, ReturnsWith DEF Fail
  <2> QED BY <2>2, <2>3, <2>4, Together
<1> QED BY <1>2, <1>3 DEF WhitelistRequested

\* A white list that arrived, whatever it says.
LEMMA ArrivedWhitelist ==
  ASSUME ListType, UpdateInv, wl # None, NEW block \in DOMAIN WhiteLists,
         UNCHANGED <<now, version, lastBlock, boot, until, upd8>>, ret' \in Codes,
         wl' = [needs |-> FALSE,
                last |-> IF block > wl.last THEN block ELSE wl.last,
                addresses |-> IF block > wl.last THEN WhiteLists[block] ELSE wl.addresses],
         cache' = StoredWhite(wl'),
         flagged' = Whitelisting(nodelist, wl'.addresses)
  PROVE  ListType' /\ UpdateInv'
<1>1. wl.last \in {0} \cup DOMAIN WhiteLists /\ wl.addresses \in Seq(Nodes) /\ wl.last \in Nat
  <2>1. wl.last \in {0} \cup DOMAIN WhiteLists /\ wl.addresses \in Seq(Nodes)
    BY DEF ListType, WhiteListings
  <2> QED BY <2>1, ConstantFacts
<1>2. block \in Nat /\ block > 0 /\ WhiteLists[block] \in Seq(Nodes) /\ FALSE \in BOOLEAN
  BY ConstantFacts
<1>3. wl'.last \in DOMAIN WhiteLists
  <2>1. wl'.last = IF block > wl.last THEN block ELSE wl.last
    OBVIOUS
  <2>2. CASE block > wl.last
    BY <2>1, <2>2
  <2>3. CASE ~(block > wl.last)
    BY <2>1, <2>3, <1>1, <1>2
  <2> QED BY <2>2, <2>3
<1>4. wl' \in WhiteListings
  <2>1. wl'.addresses \in Seq(Nodes)
    BY <1>1, <1>2
  <2>2. wl' = [needs |-> FALSE, last |-> wl'.last, addresses |-> wl'.addresses]
    OBVIOUS
  <2> QED BY <2>1, <2>2, <1>2, <1>3 DEF WhiteListings
<1>5. cache' \in [list : {None} \cup Stores, white : {None} \cup DOMAIN WhiteLists]
  <2>1. cache \in [list : {None} \cup Stores, white : {None} \cup DOMAIN WhiteLists]
    BY DEF ListType
  <2> QED BY <2>1, <1>3 DEF StoredWhite
<1>6. flagged' \subseteq Nodes
  BY Whitelists DEF ListType, nodelist
<1> QED BY <1>4, <1>5, <1>6, WhitelistKept

LEMMA WhitelistArrivedKeeps == ASSUME ClientInv, WhitelistArrived PROVE ClientInv'
<1>1. /\ stack # <<>> /\ Top.fn = "execute" /\ Top.at = "whitelist" /\ wl # None /\ KeepClock
      /\ WhiteRequest # 0 /\ UNCHANGED <<version, lastBlock, boot, until, upd8>>
  BY DEF WhitelistArrived, AtWhitelist, WhiteDue, In
<1>2. ASSUME Fail("ERROR"), wl' = [wl EXCEPT !.needs = FALSE], UNCHANGED <<flagged, cache>>
      PROVE  ClientInv'
  <2>1. "ERROR" \in Codes \ {"OK"}
    BY DEF Codes
  <2>2. KeepsChain
    BY <1>1, <1>2, <2>1, Parts, FailedChain DEF Fail
  <2>3. ListType' /\ UpdateInv'
    <3>1. wl' \in {None} \cup WhiteListings /\ flagged' \subseteq Nodes /\ ret' \in Codes
          /\ cache' \in [list : {None} \cup Stores, white : {None} \cup DOMAIN WhiteLists]
      BY <1>1, <1>2, <2>1, Parts, NeedsNoMore DEF ListType, Fail, Return
    <3> QED BY <1>1, <3>1, Parts, SameClock, WhitelistKept
  <2>4. CallsInv'
    BY <1>1, <1>2, <2>2, Parts, ReturnsWith DEF Fail
  <2> QED BY <2>2, <2>3, <2>4, Together
<1>3. ASSUME Succeeded(WhiteRequest), HasResult(ctxs[WhiteRequest].response),
             LET list == ctxs[WhiteRequest].response.list
                 newer == list.block > wl.last
             IN /\ wl' = [needs |-> FALSE,
                          last |-> IF newer THEN list.block ELSE wl.last,
                          addresses |-> IF newer THEN WhiteLists[list.block] ELSE wl.addresses]
                /\ cache' = StoredWhite(wl'),
             flagged' = Whitelisting(nodelist, wl'.addresses),
             ctxs' = RemoveRequired(WhiteRequest), Goto("pick")
      PROVE  ClientInv'
  <2> DEFINE k == WhiteRequest
             block == ctxs[k].response.list.block
  <2>1. k \in this + 1 .. Len(ctxs) /\ ctxs[k].kind = "in3_whiteList"
    BY <1>1, Parts, FoundRequired DEF WhiteRequest
  <2>2. k \in 1 .. Len(ctxs) /\ k \in this + 1 .. Len(ctxs) + 1
    BY <1>1, <2>1, Parts, TheCall
  <2>3. block \in DOMAIN WhiteLists
    <3>1. ctxs[k].response.list \in Lists(ctxs[k].kind)
      BY <1>1, <1>3, <2>2, Parts, GotResult
    <3>2. Lists(ctxs[k].kind) = Lists("in3_whiteList")
      BY <2>1
    <3>3. ctxs[k].response.list \in [block : DOMAIN WhiteLists, ok : {TRUE}]
      BY <3>1, <3>2, Listings, Zenon
    <3> QED BY <3>3
  <2>4. /\ wl' = [needs |-> FALSE,
                  last |-> IF block > wl.last THEN block ELSE wl.last,
                  addresses |-> IF block > wl.last THEN WhiteLists[block] ELSE wl.addresses]
        /\ cache' = StoredWhite(wl')
    BY <1>3
  <2> HIDE DEF k, block
  <2>5. ret' \in Codes
    BY <1>3, Parts, Zenon DEF Goto
  <2>6. ListType' /\ UpdateInv'
    BY <1>1, <1>3, <2>3, <2>4, <2>5, Parts, SameClock, ArrivedWhitelist
  <2>7. KeepsChain /\ ctxs'[this] = Ctx
    BY <1>1, <1>3, <2>2, Parts, CutChain DEF k
  <2>8. FrameInv([fn |-> Top.fn, ctx |-> this, at |-> "pick", n |-> Top.n], ctxs'[this])
    BY <1>1, <2>7, WorkFrame DEF FrameInv
  <2>9. "pick" \in Places(Top.fn) \ {"executed", "rechecked"}
    BY <1>1 DEF Places, ExecutePlaces
  <2>10. CallsInv'
    BY <1>1, <1>3, <2>7, <2>8, <2>9, Parts, GoesTo
  <2> QED BY <2>6, <2>7, <2>10, Together
<1> QED BY <1>2, <1>3 DEF WhitelistArrived

\* Only the blacklist changes.
LEMMA BlacklistKept ==
  ASSUME ListType, UpdateInv, UNCHANGED <<now, version, lastBlock, boot, upd8, wl, flagged>>,
         ret' \in Codes, until' \in [Nodes -> 0 .. Later],
         cache' \in [list : {None} \cup Stores, white : {None} \cup DOMAIN WhiteLists]
  PROVE  ListType' /\ UpdateInv'
<1>1. UpdateInv'
  BY DEF UpdateInv
<1>2. ListType'
  BY DEF ListType, Listed, nodelist
<1> QED BY <1>1, <1>2

Picked(s) == [k \in DOMAIN s |-> [addr |-> s[k], of |-> version, ok |-> TRUE]]

LEMMA SomePicked ==
  ASSUME NEW usable, usable \subseteq Listed, ListType, NEW s \in Picks(usable)
  PROVE  /\ Picked(s) \in Seq(Matches) /\ Picked(s) # <<>>
         /\ \A k \in DOMAIN Picked(s) : /\ Picked(s)[k].ok = TRUE /\ Picked(s)[k].of = version
                                     /\ Picked(s)[k].addr \in usable
<1>1. version \in Blocks /\ Listed \subseteq Nodes
  <2>1. version \in Blocks
    BY DEF ListType
  <2> QED BY <2>1, ConstantFacts, ToSetOfSeq DEF Listed, nodelist
<1>2. PICK m \in 1 .. RequestCount : s \in [1 .. m -> usable]
  BY DEF Picks
<1>3. m \in Nat /\ m > 0 /\ DOMAIN s = 1 .. m /\ \A k \in 1 .. m : s[k] \in usable
  BY <1>2, ConstantFacts
<1> DEFINE picked == [k \in DOMAIN s |-> [addr |-> s[k], of |-> version, ok |-> TRUE]]
<1>4. TRUE \in BOOLEAN
  OBVIOUS
<1>5. \A k \in 1 .. m : picked[k] \in Matches
  BY <1>1, <1>3, <1>4 DEF Matches
<1>6. picked \in [1 .. m -> Matches]
  BY <1>3, <1>5
<1>7. picked \in Seq(Matches)
  BY <1>3, <1>6, SeqDef
<1>8. picked # <<>>
  <2>1. 1 \in DOMAIN picked
    BY <1>3
  <2>2. DOMAIN <<>> = {}
    OBVIOUS
  <2> HIDE DEF picked
  <2> QED BY <2>1, <2>2
<1>9. DOMAIN picked = 1 .. m
  BY <1>3
<1>10. \A k \in 1 .. m : picked[k].ok = TRUE /\ picked[k].of = version /\ picked[k].addr \in usable
  BY <1>3
<1>11. Picked(s) = picked
  BY DEF Picked
<1> HIDE DEF picked
<1> QED BY <1>7, <1>8, <1>9, <1>10, <1>11

LEMMA PickNodesKeeps == ASSUME ClientInv, PickNodes PROVE ClientInv'
<1>1. /\ stack # <<>> /\ Top.fn = "execute" /\ Top.at = "pick" /\ KeepClock
      /\ until' = Forgiven(Ctx.dataNode)
      /\ UNCHANGED <<version, lastBlock, boot, upd8, wl, flagged, cache>>
  BY DEF PickNodes, In
<1> DEFINE usable == Usable(until', Ctx.dataNode)
<1>2. usable \subseteq Listed
  BY DEF Usable
<1>3. until' \in [Nodes -> 0 .. Later]
  <2>1. until \in [Nodes -> 0 .. Later] /\ 0 \in 0 .. Later
    BY Parts, ConstantFacts DEF ListType
  <2> QED BY <1>1, <2>1 DEF Forgiven
<1>4. cache' \in [list : {None} \cup Stores, white : {None} \cup DOMAIN WhiteLists]
  BY <1>1, Parts DEF ListType
<1>5. Fail("ERROR") \/ \E s \in Picks(usable) :
                /\ ctxs' = [ctxs EXCEPT ![this].nodes =
                     [k \in DOMAIN s |-> [addr |-> s[k], of |-> version, ok |-> TRUE]]]
                /\ Return("WAITING")
  BY DEF PickNodes
<1> HIDE DEF usable
<1>6. CASE Fail("ERROR")
  <2>1. "ERROR" \in Codes \ {"OK"}
    BY DEF Codes
  <2>2. KeepsChain
    BY <1>1, <1>6, <2>1, Parts, FailedChain DEF Fail
  <2>3. ret' \in Codes
    BY <1>6, <2>1 DEF Fail, Return
  <2>4. ListType' /\ UpdateInv'
    BY <1>1, <1>3, <1>4, <2>3, Parts, SameClock, BlacklistKept
  <2>5. CallsInv'
    BY <1>1, <1>6, <2>2, Parts, ReturnsWith DEF Fail
  <2> QED BY <2>2, <2>4, <2>5, Together
<1>7. ASSUME NEW s \in Picks(usable), Return("WAITING"),
             ctxs' = [ctxs EXCEPT ![this].nodes =
                        [k \in DOMAIN s |-> [addr |-> s[k], of |-> version, ok |-> TRUE]]]
      PROVE  ClientInv'
  <2> DEFINE picked == Picked(s)
  <2>1. picked \in Seq(Matches) /\ \A k \in DOMAIN picked : picked[k].ok = TRUE
    BY <1>2, Parts, SomePicked
  <2>2. this \in DOMAIN ctxs /\ Ctx = ctxs[this] /\ Ctx \in GoodContexts
    BY <1>1, Parts, TheCall
  <2>3. ctxs' = [ctxs EXCEPT ![this].nodes = picked]
    BY <1>7 DEF Picked
  <2> HIDE DEF picked
  <2>4. ctxs' = [ctxs EXCEPT ![this] = [Ctx EXCEPT !.nodes = picked]]
    BY <2>2, <2>3
  <2>5. Ctx.raw = <<>>
    BY <1>1, WorkFrame
  <2>6. [Ctx EXCEPT !.nodes = picked] \in GoodContexts
    BY <2>1, <2>2, <2>5, PickedIsGood
  <2>7. KeepsChain
    BY <1>1, <2>4, <2>6, Parts, OwnContext
  <2>8. ret' \in Codes
    BY <1>7 DEF Return, Codes
  <2>9. ListType' /\ UpdateInv'
    BY <1>1, <1>3, <1>4, <2>8, Parts, SameClock, BlacklistKept
  <2>10. CallsInv'
    BY <1>1, <1>7, <2>7, Parts, ReturnsWith
  <2> QED BY <2>7, <2>9, <2>10, Together
<1> QED BY <1>5, <1>6, <1>7

-----------------------------------------------------------------------------
(* find_valid_result                                                       *)

\* A response is looked at, be it after the code it needed.
Looking == /\ stack # <<>> /\ Top.fn = "execute" /\ Top.at \in {"verify", "verifying"}
           /\ Top.n <= Len(Ctx.nodes)

LEMMA VerifyingLooks == ASSUME Verifying PROVE Looking /\ Top.at = "verify"
BY DEF Verifying, Looking, In

LEMMA VerifyFacts ==
  ASSUME ClientInv, Looking
  PROVE  /\ stack # <<>> /\ Top.fn = "execute"
         /\ Top.n \in DOMAIN Ctx.nodes /\ Top.n \in DOMAIN Ctx.raw /\ Ctx.raw # <<>>
         /\ Node = Ctx.nodes[Top.n] /\ Node \in Matches
         /\ Response = Ctx.raw[Top.n] /\ Response \in Answers(Ctx.kind)
         /\ Response # None /\ Response \in Replies
         /\ Ctx \in GoodContexts /\ Ctx.attempt < MaxAttempts /\ (Ctx.state = "OK" => Ctx.needs = 0)
         /\ Ctx = ctxs[this] /\ this \in DOMAIN ctxs
<1>1. stack # <<>> /\ Top.fn = "execute" /\ Top.at \in {"verify", "verifying"} /\ Top.n <= Len(Ctx.nodes)
  BY DEF Looking
<1>2. /\ Ctx \in GoodContexts /\ Ctx.attempt < MaxAttempts /\ (Ctx.state = "OK" => Ctx.needs = 0)
      /\ Ctx.raw # <<>> /\ Top.n > 0
  BY <1>1, WorkFrame
<1>3. Ctx = ctxs[this] /\ this \in DOMAIN ctxs /\ Top.n \in Nat
  BY <1>1, Parts, TheCall, TopFrame
<1>4. Ctx.nodes \in Seq(Matches) /\ Ctx.raw \in Seq(Answers(Ctx.kind)) /\ Ctx.kind \in Kinds
      /\ Len(Ctx.raw) = Len(Ctx.nodes)
  BY <1>2, GoodFacts DEF ContextInv
<1>5. Len(Ctx.nodes) \in Nat /\ DOMAIN Ctx.nodes = 1 .. Len(Ctx.nodes) /\ DOMAIN Ctx.raw = 1 .. Len(Ctx.raw)
  BY <1>4, LenProperties
<1>6. Top.n \in 1 .. Len(Ctx.nodes)
  BY <1>1, <1>2, <1>3, <1>5
<1>7. Node = Ctx.nodes[Top.n] /\ Response = Ctx.raw[Top.n]
  BY DEF Node, Response
<1>8. Node \in Matches /\ Response \in Answers(Ctx.kind)
  BY <1>4, <1>6, <1>7, ElementOfSeq
<1>9. Response # None /\ Response \in Replies
  BY <1>4, <1>8, AnswerFacts
<1> QED BY <1>1, <1>2, <1>3, <1>4, <1>5, <1>6, <1>7, <1>8, <1>9

\* The mark of the node that is looked at.
LEMMA RejectFields ==
  ASSUME NEW c \in Contexts, Top.n \in DOMAIN c.nodes
  PROVE  /\ Reject(c) \in Contexts
         /\ Reject(c).nodes = [c.nodes EXCEPT ![Top.n].ok = FALSE]
         /\ Reject(c).kind = c.kind /\ Reject(c).needs = c.needs /\ Reject(c).attempt = c.attempt
         /\ Reject(c).raw = c.raw /\ Reject(c).response = c.response
         /\ Reject(c).error = c.error /\ Reject(c).state = c.state
<1> DEFINE ns == [c.nodes EXCEPT ![Top.n].ok = FALSE]
<1>1. c.nodes \in Seq(Matches)
  BY DEF Contexts
<1>2. ns \in Seq(Matches)
  <2>1. Top.n \in 1 .. Len(c.nodes)
    BY <1>1, LenProperties
  <2>2. FALSE \in BOOLEAN /\ c.nodes[Top.n] \in Matches
    BY <1>1, <2>1, ElementOfSeq
  <2>3. [c.nodes[Top.n] EXCEPT !.ok = FALSE] \in Matches
    BY <2>2 DEF Matches
  <2>4. ns = [c.nodes EXCEPT ![Top.n] = [c.nodes[Top.n] EXCEPT !.ok = FALSE]]
    OBVIOUS
  <2> QED BY <1>1, <2>1, <2>3, <2>4, ExceptSeq
<1>3. Reject(c) = [c EXCEPT !.nodes = ns]
  BY DEF Reject, Contexts
<1> HIDE DEF ns
<1>4. /\ [c EXCEPT !.nodes = ns] \in Contexts
      /\ [c EXCEPT !.nodes = ns].nodes = ns
      /\ [c EXCEPT !.nodes = ns].kind = c.kind /\ [c EXCEPT !.nodes = ns].needs = c.needs
      /\ [c EXCEPT !.nodes = ns].attempt = c.attempt
      /\ [c EXCEPT !.nodes = ns].raw = c.raw /\ [c EXCEPT !.nodes = ns].response = c.response
      /\ [c EXCEPT !.nodes = ns].error = c.error /\ [c EXCEPT !.nodes = ns].state = c.state
  BY <1>2 DEF Contexts
<1> QED BY <1>3, <1>4 DEF ns

LEMMA ParsedFields ==
  ASSUME NEW c \in Contexts, Response \in Replies
  PROVE  /\ Parsed(c) \in Contexts /\ Parsed(c).response = Response
         /\ Parsed(c).kind = c.kind /\ Parsed(c).needs = c.needs /\ Parsed(c).attempt = c.attempt
         /\ Parsed(c).raw = c.raw /\ Parsed(c).nodes = c.nodes
         /\ Parsed(c).error = c.error /\ Parsed(c).state = c.state
BY DEF Parsed, Contexts

LEMMA BlacklistType == ASSUME ClientInv, Looking PROVE Blacklist \in [Nodes -> 0 .. Later]
<1>1. now + 1 \in 0 .. Later /\ until \in [Nodes -> 0 .. Later]
  BY Parts, ConstantFacts DEF ListType
<1> QED BY <1>1 DEF Blacklist

\* The next node is looked at.
LEMMA NextKeeps ==
  ASSUME ClientInv, stack # <<>>, Top.fn = "execute", Ctx.raw # <<>>, Ctx.attempt < MaxAttempts,
         NEW d \in GoodContexts, ctxs' = [ctxs EXCEPT ![this] = d],
         d.raw = Ctx.raw, d.attempt = Ctx.attempt, d.state = "OK" => d.needs = 0, NextNode
  PROVE  KeepsChain /\ CallsInv'
<1>1. KeepsChain /\ ctxs'[this] = d
  BY Parts, OwnContext
<1>2. stack' = [stack EXCEPT ![Len(stack)] = [fn |-> Top.fn, ctx |-> this, at |-> "verify", n |-> Top.n + 1]]
  BY Parts, FrameNAt DEF NextNode
<1>3. Top.n \in Nat /\ Top.n + 1 \in Nat /\ Top.n + 1 > 0
  <2>1. Top.n \in Nat
    BY Parts, TopFrame
  <2> QED BY <2>1
<1>4. FrameInv([fn |-> Top.fn, ctx |-> this, at |-> "verify", n |-> Top.n + 1], ctxs'[this])
  BY <1>1, <1>3 DEF FrameInv
<1>5. "verify" \in Places(Top.fn) \ {"executed", "rechecked"}
  BY DEF Places, ExecutePlaces
<1> QED BY <1>1, <1>2, <1>3, <1>4, <1>5, Parts, Goes

LEMMA CacheKept == ASSUME ListType, cache' = cache
  PROVE cache' \in [list : {None} \cup Stores, white : {None} \cup DOMAIN WhiteLists]
BY DEF ListType

LEMMA RejectUnparsedKeeps == ASSUME ClientInv, RejectUnparsed PROVE ClientInv'
<1>1. /\ Looking /\ Response.quality \in {"failed", "garbage"} /\ KeepClock /\ NextNode
      /\ until' = Blacklist /\ UNCHANGED <<version, lastBlock, boot, upd8, wl, flagged, cache>>
  BY VerifyingLooks DEF RejectUnparsed, KeepAllButUntil
<1>2. Ctx \in Contexts /\ Top.n \in DOMAIN Ctx.nodes /\ Ctx \in GoodContexts
  BY <1>1, VerifyFacts, GoodFacts
<1> DEFINE c == Reject(Ctx)
<1>3. /\ c \in Contexts /\ c.nodes = [Ctx.nodes EXCEPT ![Top.n].ok = FALSE]
      /\ c.kind = Ctx.kind /\ c.needs = Ctx.needs /\ c.attempt = Ctx.attempt
      /\ c.raw = Ctx.raw /\ c.response = Ctx.response /\ c.error = Ctx.error /\ c.state = Ctx.state
  BY <1>2, RejectFields
<1>4. ~(Ctx.raw[Top.n].quality \in {"refused", "errored"})
  BY <1>1, VerifyFacts
<1> DEFINE d == IF Response.quality = "failed" THEN c
                ELSE [c EXCEPT !.response = None, !.error = TRUE, !.state = "ERROR"]
<1>5. ctxs' = [ctxs EXCEPT ![this] = d]
  BY DEF RejectUnparsed
<1> HIDE DEF c
<1>6. /\ d \in Contexts /\ d.nodes = c.nodes /\ d.kind = c.kind /\ d.needs = c.needs
      /\ d.attempt = c.attempt /\ d.raw = c.raw
      /\ d.response = c.response \/ d.response = None
      /\ d.state = "OK" => c.state = "OK" /\ d.response = c.response
  <2>1. TRUE \in BOOLEAN /\ "ERROR" \in Codes /\ None \in {None} \cup Replies
    BY DEF Codes
  <2> QED BY <1>3, <2>1 DEF Contexts
<1> HIDE DEF d
<1>7. d \in GoodContexts
  <2>1. d.response \in {None} \cup Answers(Ctx.kind)
    BY <1>2, <1>3, <1>6, GoodFacts
  <2> QED BY <1>1, <1>2, <1>3, <1>4, <1>6, <2>1, VerifyFacts, RejectedIsGood
<1>8. KeepsChain /\ CallsInv'
  <2>1. d.raw = Ctx.raw /\ d.attempt = Ctx.attempt /\ (d.state = "OK" => d.needs = 0)
    BY <1>1, <1>3, <1>6, VerifyFacts
  <2> QED BY <1>1, <1>5, <1>7, <2>1, VerifyFacts, NextKeeps
<1>9. ListType' /\ UpdateInv'
  BY <1>1, Parts, SameClock, BlacklistType, CacheKept, BlacklistKept DEF NextNode
<1> QED BY <1>8, <1>9, Together

\* A response that is refused, or an error response while another attempt is left.
LEMMA RejectParsed ==
  ASSUME ClientInv, Looking,
         Response.quality \in {"refused", "errored"} => ~LastAttempt
  PROVE  \A error \in BOOLEAN, code \in {"ERROR"}, d \in Contexts :
           /\ d.nodes = Reject(Parsed(Ctx)).nodes /\ d.kind = Ctx.kind /\ d.needs = Ctx.needs
           /\ d.attempt = Ctx.attempt /\ d.raw = Ctx.raw /\ d.response = Response
           /\ d.error = error /\ d.state = code
           => d \in GoodContexts
<1>1. Ctx \in Contexts /\ Top.n \in DOMAIN Ctx.nodes /\ Ctx \in GoodContexts /\ Response \in Replies
      /\ Response \in Answers(Ctx.kind)
  BY VerifyFacts, GoodFacts
<1>2. Parsed(Ctx) \in Contexts /\ Parsed(Ctx).nodes = Ctx.nodes
  BY <1>1, ParsedFields
<1>3. Reject(Parsed(Ctx)).nodes = [Ctx.nodes EXCEPT ![Top.n].ok = FALSE]
  BY <1>1, <1>2, RejectFields
<1>4. Ctx.raw[Top.n].quality \in {"refused", "errored"} => Ctx.attempt < MaxAttempts - 1
  BY <1>1, VerifyFacts, GoodFacts, ConstantFacts DEF LastAttempt
<1> QED BY <1>1, <1>3, <1>4, VerifyFacts, RejectedIsGood

LEMMA RejectedFields ==
  ASSUME ClientInv, Looking
  PROVE  LET c == Reject(Parsed(Ctx))
         IN  /\ c \in Contexts /\ c.kind = Ctx.kind /\ c.needs = Ctx.needs /\ c.attempt = Ctx.attempt
             /\ c.raw = Ctx.raw /\ c.response = Response /\ c.error = Ctx.error /\ c.state = Ctx.state
<1>1. Ctx \in Contexts /\ Top.n \in DOMAIN Ctx.nodes /\ Response \in Replies
  BY VerifyFacts, GoodFacts
<1>2. /\ Parsed(Ctx) \in Contexts /\ Parsed(Ctx).nodes = Ctx.nodes /\ Parsed(Ctx).kind = Ctx.kind
      /\ Parsed(Ctx).needs = Ctx.needs /\ Parsed(Ctx).attempt = Ctx.attempt /\ Parsed(Ctx).raw = Ctx.raw
      /\ Parsed(Ctx).response = Response /\ Parsed(Ctx).error = Ctx.error /\ Parsed(Ctx).state = Ctx.state
  BY <1>1, ParsedFields
<1> DEFINE p == Parsed(Ctx)
<1> HIDE DEF p
<1>3. Top.n \in DOMAIN p.nodes /\ p \in Contexts
  BY <1>1, <1>2 DEF p
<1>4. /\ Reject(p) \in Contexts /\ Reject(p).kind = p.kind /\ Reject(p).needs = p.needs
      /\ Reject(p).attempt = p.attempt /\ Reject(p).raw = p.raw /\ Reject(p).response = p.response
      /\ Reject(p).error = p.error /\ Reject(p).state = p.state
  BY <1>3, RejectFields
<1> QED BY <1>2, <1>4 DEF p

LEMMA RejectErrorKeeps == ASSUME ClientInv, RejectError PROVE ClientInv'
<1> DEFINE c == Reject(Parsed(Ctx))
           d == [c EXCEPT !.state = "ERROR"]
<1>1. /\ Looking /\ ~LastAttempt /\ KeepClock /\ NextNode /\ ctxs' = [ctxs EXCEPT ![this] = d]
      /\ until' = Blacklist \/ until' = until
      /\ UNCHANGED <<version, lastBlock, boot, upd8, wl, flagged, cache>>
  BY VerifyingLooks DEF RejectError, KeepAllButUntil
<1>2. /\ c \in Contexts /\ c.kind = Ctx.kind /\ c.needs = Ctx.needs /\ c.attempt = Ctx.attempt
      /\ c.raw = Ctx.raw /\ c.response = Response /\ c.error = Ctx.error
  BY <1>1, RejectedFields
<1>3. c.nodes = Reject(Parsed(Ctx)).nodes
  OBVIOUS
<1> HIDE DEF c
<1>4. /\ d \in Contexts /\ d.nodes = c.nodes /\ d.kind = Ctx.kind /\ d.needs = Ctx.needs
      /\ d.attempt = Ctx.attempt /\ d.raw = Ctx.raw /\ d.response = Response
      /\ d.error = Ctx.error /\ d.state = "ERROR"
  <2>1. "ERROR" \in Codes
    BY DEF Codes
  <2> QED BY <1>2, <2>1 DEF Contexts
<1> HIDE DEF d
<1>5. Ctx.error \in BOOLEAN
  BY <1>1, VerifyFacts, GoodFacts
<1>6. d \in GoodContexts
  BY <1>1, <1>3, <1>4, <1>5, RejectParsed
<1>7. KeepsChain /\ CallsInv'
  BY <1>1, <1>4, <1>6, VerifyFacts, NextKeeps
<1>8. until' \in [Nodes -> 0 .. Later]
  BY <1>1, Parts, BlacklistType DEF ListType
<1>9. ListType' /\ UpdateInv'
  BY <1>1, <1>8, Parts, SameClock, CacheKept, BlacklistKept DEF NextNode
<1> QED BY <1>7, <1>9, Together

\* The verifier refuses the response, or could not get a code it needs.
LEMMA WrongKeeps ==
  ASSUME ClientInv, Looking, Response.quality \notin {"refused", "errored"}, KeepClock, NextNode,
         ctxs' = [ctxs EXCEPT ![this] = [Reject(Parsed(Ctx)) EXCEPT !.error = TRUE, !.state = "ERROR"]],
         until' = Blacklist, UNCHANGED <<version, lastBlock, boot, upd8, wl, flagged, cache>>
  PROVE  ClientInv'
<1> DEFINE c == Reject(Parsed(Ctx))
           d == [c EXCEPT !.error = TRUE, !.state = "ERROR"]
<1>1. ctxs' = [ctxs EXCEPT ![this] = d]
  OBVIOUS
<1>2. /\ c \in Contexts /\ c.kind = Ctx.kind /\ c.needs = Ctx.needs /\ c.attempt = Ctx.attempt
      /\ c.raw = Ctx.raw /\ c.response = Response
  BY RejectedFields
<1>3. c.nodes = Reject(Parsed(Ctx)).nodes
  OBVIOUS
<1> HIDE DEF c
<1>4. /\ d \in Contexts /\ d.nodes = c.nodes /\ d.kind = Ctx.kind /\ d.needs = Ctx.needs
      /\ d.attempt = Ctx.attempt /\ d.raw = Ctx.raw /\ d.response = Response
      /\ d.error = TRUE /\ d.state = "ERROR"
  <2>1. "ERROR" \in Codes /\ TRUE \in BOOLEAN
    BY DEF Codes
  <2> QED BY <1>2, <2>1 DEF Contexts
<1> HIDE DEF d
<1>5. TRUE \in BOOLEAN
  OBVIOUS
<1>6. d \in GoodContexts
  BY <1>3, <1>4, <1>5, RejectParsed
<1>7. KeepsChain /\ CallsInv'
  BY <1>1, <1>4, <1>6, VerifyFacts, NextKeeps
<1>8. ListType' /\ UpdateInv'
  BY Parts, SameClock, BlacklistType, CacheKept, BlacklistKept DEF NextNode
<1> QED BY <1>7, <1>8, Together

LEMMA RejectWrongKeeps == ASSUME ClientInv, RejectWrong PROVE ClientInv'
<1>1. Looking /\ Response.quality = "wrong"
  BY VerifyingLooks DEF RejectWrong
<1> QED BY <1>1, WrongKeeps DEF RejectWrong, KeepAllButUntil

LEMMA RequestCodeKeeps == ASSUME ClientInv, RequestCode PROVE ClientInv'
<1> DEFINE d == NewCtx("getCode", None, Ctx.needs, 0)
           c == Parsed(Ctx)
<1>1. /\ Looking /\ Top.at = "verify" /\ Response.quality = "good" /\ Ctx.needs > 0
      /\ ctxs' = [AddRequired(this, d) EXCEPT ![this] = c]
      /\ Call("verifying", "execute", this + 1) /\ KeepList /\ KeepClock
  BY VerifyingLooks DEF RequestCode, NeedsCode
<1>2. /\ stack # <<>> /\ Top.fn = "execute" /\ Ctx \in GoodContexts /\ Ctx.needs \in Nat
      /\ Response \in Answers(Ctx.kind) /\ Response \in Replies /\ Ctx.state # "OK"
      /\ Ctx.raw # <<>> /\ Ctx.attempt < MaxAttempts /\ Ctx.raw[Top.n] = Response
  BY <1>1, VerifyFacts, GoodFacts
<1>3. /\ c \in Contexts /\ c.response = Response
      /\ c.kind = Ctx.kind /\ c.needs = Ctx.needs /\ c.attempt = Ctx.attempt
      /\ c.raw = Ctx.raw /\ c.nodes = Ctx.nodes /\ c.error = Ctx.error /\ c.state = Ctx.state
  BY <1>2, GoodFacts, ParsedFields
<1>4. d \in GoodContexts
  <2>1. None \in Nodes \cup {None} /\ "getCode" \in Kinds /\ 0 \in Nat
    BY DEF Kinds
  <2> QED BY <2>1, <1>2, NewIsGood
<1> HIDE DEF c, d
<1>5. c \in GoodContexts
  BY <1>2, <1>3, UnsettledIsGood
<1>6. KeepsChain /\ ctxs'[this] = c /\ this + 1 \in DOMAIN ctxs'
  BY <1>1, <1>2, <1>4, <1>5, Parts, AddedAndOwnContext
<1>7. ListType' /\ UpdateInv'
  BY <1>1, Parts, ListKept, SameClock DEF Call
<1>8. Top.n > 0 /\ Top.n <= Len(Ctx.nodes)
  BY <1>1, <1>2, WorkFrame DEF Looking
<1>9. FrameInv([fn |-> Top.fn, ctx |-> this, at |-> "verifying", n |-> Top.n], ctxs'[this])
  BY <1>1, <1>2, <1>3, <1>6, <1>8 DEF FrameInv
<1>10. "verifying" \in Places(Top.fn)
  BY <1>2 DEF Places, ExecutePlaces
<1>11. Awaits([fn |-> Top.fn, ctx |-> this, at |-> "verifying", n |-> Top.n], Frame("execute", this + 1))
  BY <1>2 DEF Awaits, Frame
<1>12. CallsInv'
  BY <1>1, <1>2, <1>6, <1>9, <1>10, <1>11, Parts, CallsFor
<1> QED BY <1>6, <1>7, <1>12, Together

LEMMA StoredType ==
  ASSUME ListType, cache' = Stored(version, lastBlock, until)
  PROVE  cache' \in [list : {None} \cup Stores, white : {None} \cup DOMAIN WhiteLists]
<1>1. cache \in [list : {None} \cup Stores, white : {None} \cup DOMAIN WhiteLists]
  BY DEF ListType
<1>2. [version |-> version, last |-> lastBlock, until |-> until] \in Stores
  BY DEF ListType, Stores
<1> QED BY <1>1, <1>2 DEF Stored

LEMMA CodeRequestedKeeps == ASSUME ClientInv, CodeRequested PROVE ClientInv'
<1>1. /\ stack # <<>> /\ Top.fn = "execute" /\ Top.at = "verifying" /\ KeepClock
      /\ UNCHANGED <<version, lastBlock, boot, upd8, wl, flagged>>
  BY DEF CodeRequested, KeepAllButUntil, In
<1>2. Looking /\ Ctx.raw[Top.n].quality = "good"
  BY <1>1, WorkFrame DEF Looking
<1>3. Response.quality = "good" /\ Ctx \in GoodContexts /\ Ctx = ctxs[this] /\ this \in DOMAIN ctxs
  BY <1>2, VerifyFacts
<1>4. ASSUME Return("WAITING"), until' = until, ctxs' = [ctxs EXCEPT ![this].state = "WAITING"],
             cache' = Stored(version, lastBlock, until)
      PROVE  ClientInv'
  <2> DEFINE d == [Ctx EXCEPT !.state = "WAITING"]
  <2>1. ctxs' = [ctxs EXCEPT ![this] = d]
    BY <1>3, <1>4
  <2>2. /\ d \in Contexts /\ d.kind = Ctx.kind /\ d.attempt = Ctx.attempt /\ d.raw = Ctx.raw
        /\ d.nodes = Ctx.nodes /\ d.response = Ctx.response /\ d.error = Ctx.error /\ d.state = "WAITING"
    <3>1. "WAITING" \in Codes /\ Ctx \in Contexts
      BY <1>3, GoodFacts DEF Codes
    <3> QED BY <3>1 DEF Contexts
  <2> HIDE DEF d
  <2>3. d \in GoodContexts
    BY <1>3, <2>2, GoodFacts, UnsettledIsGood
  <2>4. KeepsChain
    BY <1>1, <2>1, <2>3, Parts, OwnContext
  <2>5. ret' \in Codes
    BY <1>4 DEF Return, Codes
  <2>6. until' \in [Nodes -> 0 .. Later]
    BY <1>4, Parts DEF ListType
  <2>7. ListType' /\ UpdateInv'
    BY <1>1, <1>4, <2>5, <2>6, Parts, SameClock, StoredType, BlacklistKept
  <2>8. CallsInv'
    BY <1>1, <1>4, <2>4, Parts, ReturnsWith
  <2> QED BY <2>4, <2>7, <2>8, Together
<1>5. ASSUME NextNode, ctxs' = [ctxs EXCEPT ![this] = CodeRejected], until' = Blacklist, cache' = cache
      PROVE  ClientInv'
  BY <1>1, <1>2, <1>3, <1>5, WrongKeeps DEF CodeRejected
<1> QED BY <1>4, <1>5 DEF CodeRequested

LEMMA TakeCodeKeeps == ASSUME ClientInv, TakeCode PROVE ClientInv'
<1>1. /\ Looking /\ Top.at = "verify" /\ Response.quality = "good" /\ Ctx.needs > 0 /\ KeepClock
      /\ UNCHANGED <<version, lastBlock, boot, upd8, wl, flagged, cache>>
  BY VerifyingLooks DEF TakeCode, NeedsCode, KeepAllButUntil
<1>2. /\ stack # <<>> /\ Top.fn = "execute" /\ Ctx \in GoodContexts /\ Ctx = ctxs[this] /\ this \in DOMAIN ctxs
      /\ Ctx.state # "OK" /\ Ctx.raw # <<>> /\ Ctx.attempt < MaxAttempts
  BY <1>1, VerifyFacts
<1>3. ASSUME ctxs' = [ctxs EXCEPT ![this].needs = @ - 1], UNCHANGED <<stack, ret, until>> PROVE ClientInv'
  <2> DEFINE d == [Ctx EXCEPT !.needs = Ctx.needs - 1]
  <2>1. ctxs' = [ctxs EXCEPT ![this] = d]
    BY <1>2, <1>3
  <2>2. /\ d \in Contexts /\ d.kind = Ctx.kind /\ d.attempt = Ctx.attempt /\ d.raw = Ctx.raw
        /\ d.nodes = Ctx.nodes /\ d.response = Ctx.response /\ d.error = Ctx.error /\ d.state = Ctx.state
    <3>1. Ctx.needs - 1 \in Nat /\ Ctx \in Contexts
      BY <1>1, <1>2, GoodFacts
    <3> QED BY <3>1 DEF Contexts
  <2> HIDE DEF d
  <2>3. d \in GoodContexts
    BY <1>2, <2>2, GoodFacts, UnsettledIsGood
  <2>4. KeepsChain /\ ctxs'[this] = d
    BY <1>2, <2>1, <2>3, Parts, OwnContext
  <2>5. ListType' /\ UpdateInv'
    <3>1. ret' \in Codes /\ until' \in [Nodes -> 0 .. Later]
      BY <1>3, Parts DEF ListType
    <3> QED BY <1>1, <3>1, Parts, SameClock, CacheKept, BlacklistKept
  <2>6. stack' = [stack EXCEPT ![Len(stack)] = Top]
    <3>1. Len(stack) \in DOMAIN stack /\ Top = stack[Len(stack)] /\ stack \in Seq(Frames)
      BY <1>2, Parts, TheCall DEF StackType
    <3>2. stack = [stack EXCEPT ![Len(stack)] = stack[Len(stack)]]
      BY <3>1
    <3> QED BY <1>3, <3>1, <3>2
  <2>7. Top.n > 0
    BY <1>1, <1>2, WorkFrame
  <2>8. FrameInv(Top, ctxs'[this])
    BY <1>1, <1>2, <2>2, <2>4, <2>7 DEF FrameInv
  <2>9. Top \in Frames /\ Top.ctx = this /\ Top.at \notin {"executed", "rechecked"}
    BY <1>1, <1>2, Parts, TheCall
  <2>10. CallsInv'
    BY <1>2, <2>4, <2>6, <2>8, <2>9, Parts, Moves
  <2> QED BY <2>4, <2>5, <2>10, Together
<1>4. ASSUME ctxs' = [ctxs EXCEPT ![this] = CodeRejected], until' = Blacklist, NextNode PROVE ClientInv'
  BY <1>1, <1>4, WrongKeeps DEF CodeRejected
<1> QED BY <1>3, <1>4 DEF TakeCode

\* The update that a response announces, if it is newer than the list.
LEMMA AnnouncedType ==
  ASSUME ListType, UpdateInv, NEW n \in Nodes, NEW h \in [last : Nat, cur : Nat, white : Nat]
  PROVE  /\ Announced(n, h) \in {None} \cup Updates
         /\ Announced(n, h) # None /\ Announced(n, h).exp # 0 => Announced(n, h).exp > lastBlock
<1>1. CASE h.last <= h.cur /\ h.last > lastBlock
  <2> DEFINE u == [node |-> n, exp |-> h.last, at |-> now + Wait(h)]
  <2>1. Announced(n, h) = u
    BY <1>1 DEF Announced
  <2>2. now + Wait(h) \in 0 .. Later
    <3>1. now \in 0 .. MaxTime /\ Wait(h) \in {0, 1}
      BY DEF ListType, Wait
    <3> QED BY <3>1, ConstantFacts
  <2>3. u \in Updates /\ u.exp = h.last
    BY <2>2 DEF Updates
  <2> QED BY <1>1, <2>1, <2>3
<1>2. CASE ~(h.last <= h.cur /\ h.last > lastBlock)
  <2>1. Announced(n, h) = upd8
    BY <1>2 DEF Announced
  <2> QED BY <2>1 DEF ListType, UpdateInv
<1> QED BY <1>1, <1>2

LEMMA AcceptKeeps == ASSUME ClientInv, Accept PROVE ClientInv'
<1> DEFINE c == [Parsed(Ctx) EXCEPT !.state = "OK"]
<1>1. /\ Looking /\ KeepClock /\ ctxs' = [ctxs EXCEPT ![this] = c]
      /\ UNCHANGED <<version, lastBlock, boot, until, flagged>>
      /\ \/ Response.quality = "good" /\ Ctx.needs = 0
         \/ Response.quality \in {"refused", "errored"} /\ LastAttempt
  BY VerifyingLooks DEF Accept
<1>2. /\ stack # <<>> /\ Top.fn = "execute" /\ Ctx \in GoodContexts /\ Ctx.raw # <<>>
      /\ Response \in Answers(Ctx.kind) /\ Ctx.attempt < MaxAttempts
      /\ Top.n \in DOMAIN Ctx.nodes /\ Node = Ctx.nodes[Top.n] /\ Node \in Matches
      /\ Response = Ctx.raw[Top.n] /\ Ctx.kind \in Kinds /\ Ctx.attempt \in Nat
  BY <1>1, VerifyFacts, GoodFacts
<1>3. \/ Response.quality = "good" /\ Ctx.needs = 0
      \/ Response.quality \in {"refused", "errored"} /\ Ctx.attempt = MaxAttempts - 1
  BY <1>1, <1>2, ConstantFacts DEF LastAttempt
<1>4. c = [[Ctx EXCEPT !.response = Response] EXCEPT !.state = "OK"]
  BY DEF Parsed
<1> HIDE DEF c
<1>5. /\ c \in GoodContexts /\ Succeeds(c) /\ c.raw = Ctx.raw /\ c.nodes = Ctx.nodes
      /\ c.attempt = Ctx.attempt /\ c.needs = Ctx.needs
  <2>1. PICK b, r : b = Ctx /\ r = Response
    OBVIOUS
  <2>2. /\ b \in GoodContexts /\ b.raw # <<>> /\ r \in Answers(b.kind)
        /\ c = [[b EXCEPT !.response = r] EXCEPT !.state = "OK"]
        /\ \/ r.quality = "good" /\ b.needs = 0
           \/ r.quality \in {"refused", "errored"} /\ b.attempt = MaxAttempts - 1
    BY <1>2, <1>3, <1>4, <2>1
  <2>3. /\ c \in GoodContexts /\ Succeeds(c) /\ c.raw = b.raw /\ c.nodes = b.nodes
        /\ c.attempt = b.attempt /\ c.needs = b.needs
    BY <2>2, AcceptedIsGood
  <2> QED BY <2>1, <2>3
<1>6. KeepsChain /\ ctxs'[this] = c
  BY <1>1, <1>2, <1>5, Parts, OwnContext
<1>7. Response.header \in [last : Nat, cur : Nat, white : Nat]
  BY <1>2, AnswerFacts
<1>8. ASSUME Node.ok,
             \E n \in IF Node.of = version THEN {Node.addr} ELSE Nodes : upd8' = Announced(n, Response.header),
             wl' = IF wl # None /\ Response.header.white > wl.last THEN [wl EXCEPT !.needs = TRUE] ELSE wl,
             cache' = Stored(version, lastBlock, until), Return("OK")
      PROVE  ClientInv'
  <2>1. Node.addr \in Nodes
    BY <1>2 DEF Matches
  <2>2. PICK n \in Nodes : upd8' = Announced(n, Response.header)
    BY <1>8, <2>1
  <2>3. upd8' \in {None} \cup Updates /\ UpdateInv'
    <3>1. /\ Announced(n, Response.header) \in {None} \cup Updates
          /\ Announced(n, Response.header) # None /\ Announced(n, Response.header).exp # 0
               => Announced(n, Response.header).exp > lastBlock
      BY <1>7, Parts, AnnouncedType
    <3> QED BY <1>1, <2>2, <3>1 DEF UpdateInv
  <2>4. wl' \in {None} \cup WhiteListings
    <3>1. wl \in {None} \cup WhiteListings /\ TRUE \in BOOLEAN
      BY Parts DEF ListType
    <3> QED BY <1>8, <3>1 DEF WhiteListings
  <2>5. cache' \in [list : {None} \cup Stores, white : {None} \cup DOMAIN WhiteLists]
    BY <1>8, Parts, StoredType
  <2>6. ret' \in Codes
    BY <1>8 DEF Return, Codes
  <2>7. now' = now
    BY <1>1, SameClock
  <2>8. ListType'
    BY <1>1, <2>3, <2>4, <2>5, <2>6, <2>7, Parts DEF ListType, Listed, nodelist
  <2>9. CallsInv'
    BY <1>2, <1>5, <1>6, <1>8, Parts, ReturnsWith
  <2> QED BY <1>6, <2>3, <2>8, <2>9, Together
<1>9. ASSUME ~Node.ok, NextNode, UNCHANGED <<upd8, wl, cache>> PROVE ClientInv'
  <2>1. Response.quality \in {"refused", "errored"} => Ctx.attempt < MaxAttempts - 1
    BY <1>2, <1>9, GoodFacts DEF ContextInv
  <2>2. Ctx.needs = 0
    BY <1>2, <1>3, <2>1, ConstantFacts
  <2>3. KeepsChain /\ CallsInv'
    BY <1>1, <1>2, <1>5, <1>9, <2>2, NextKeeps
  <2>4. ret' \in Codes /\ until' \in [Nodes -> 0 .. Later]
    BY <1>1, <1>9, Parts DEF NextNode, ListType
  <2>5. ListType' /\ UpdateInv'
    BY <1>1, <1>9, <2>4, Parts, SameClock, CacheKept, BlacklistKept
  <2> QED BY <2>3, <2>5, Together
<1> QED BY <1>8, <1>9 DEF Accept

LEMMA NoValidResultKeeps == ASSUME ClientInv, NoValidResult PROVE ClientInv'
<1> DEFINE next == [Clear(Ctx) EXCEPT !.attempt = @ + 1]
           ignored == Ctx.kind = "in3_nodeList"
<1>1. /\ stack # <<>> /\ Top.fn = "execute" /\ Top.at = "verify" /\ KeepClock /\ UNCHANGED listVars
      /\ cache' = Stored(version, lastBlock, until)
  BY DEF NoValidResult, In
<1>2. /\ Ctx \in GoodContexts /\ Ctx.attempt < MaxAttempts /\ (Ctx.state = "OK" => Ctx.needs = 0)
      /\ Ctx \in Contexts /\ Ctx.attempt \in Nat
  BY <1>1, WorkFrame, GoodFacts
<1>3. /\ next \in Contexts /\ next.kind = Ctx.kind /\ next.needs = Ctx.needs /\ next.attempt = Ctx.attempt + 1
      /\ next.nodes = <<>> /\ next.raw = <<>> /\ next.response = None
      /\ next.error = Ctx.error /\ next.state = Ctx.state
  <2> DEFINE e == Clear(Ctx)
  <2>1. /\ e \in Contexts /\ e.kind = Ctx.kind /\ e.needs = Ctx.needs /\ e.attempt = Ctx.attempt
        /\ e.nodes = <<>> /\ e.raw = <<>> /\ e.response = None /\ e.error = Ctx.error /\ e.state = Ctx.state
    <3>1. <<>> \in Seq(Matches) /\ <<>> \in Seq(Replies) /\ None \in {None} \cup Replies
      BY EmptySeq
    <3> QED BY <1>2, <3>1 DEF Clear, Contexts
  <2>2. Ctx.attempt + 1 \in 0 .. MaxAttempts
    BY <1>2, ConstantFacts
  <2>3. next = [e EXCEPT !.attempt = Ctx.attempt + 1]
    BY <2>1
  <2> HIDE DEF e, next
  <2> QED BY <2>1, <2>2, <2>3 DEF Contexts
<1>4. IF next.attempt < MaxAttempts
      THEN ctxs' = [ctxs EXCEPT ![this] = [next EXCEPT !.error = FALSE]] /\ Goto("start")
      ELSE /\ ctxs' = [ctxs EXCEPT ![this] = [next EXCEPT !.error = TRUE,
             !.state = IF ~Ctx.error THEN "ERROR" ELSE IF ignored THEN "EIGNORE" ELSE next.state]]
           /\ Return(IF ignored /\ Ctx.error THEN "EIGNORE" ELSE "ERROR")
  BY DEF NoValidResult
<1> HIDE DEF next, ignored
<1>5. ASSUME ret' \in Codes PROVE ListType' /\ UpdateInv'
  <2>1. until' \in [Nodes -> 0 .. Later] /\ UNCHANGED <<version, lastBlock, boot, upd8, wl, flagged>>
    BY <1>1, Parts DEF ListType, listVars
  <2> QED BY <1>1, <1>5, <2>1, Parts, SameClock, StoredType, BlacklistKept
<1>6. CASE next.attempt < MaxAttempts
  <2> DEFINE d == [next EXCEPT !.error = FALSE]
  <2>1. ctxs' = [ctxs EXCEPT ![this] = d] /\ Goto("start")
    BY <1>4, <1>6
  <2>2. /\ d \in Contexts /\ d.kind = Ctx.kind /\ d.needs = Ctx.needs /\ d.attempt = Ctx.attempt + 1
        /\ d.nodes = <<>> /\ d.raw = <<>> /\ d.response = None /\ d.error = FALSE /\ d.state = Ctx.state
    <3>1. FALSE \in BOOLEAN
      OBVIOUS
    <3> QED BY <1>3, <3>1 DEF Contexts
  <2> HIDE DEF d
  <2>3. d \in GoodContexts
    <3>1. FALSE \in BOOLEAN /\ Ctx.state \in Codes /\ Ctx.attempt + 1 < MaxAttempts
      BY <1>2, <1>3, <1>6, GoodFacts
    <3> QED BY <1>2, <2>2, <3>1, ClearedIsGood
  <2>4. KeepsChain /\ ctxs'[this] = d
    BY <1>1, <2>1, <2>3, Parts, OwnContext
  <2>5. ret' \in Codes
    BY <2>1, Parts DEF Goto
  <2>6. FrameInv([fn |-> Top.fn, ctx |-> this, at |-> "start", n |-> Top.n], ctxs'[this])
    BY DEF FrameInv
  <2>7. "start" \in Places(Top.fn) \ {"executed", "rechecked"}
    BY <1>1 DEF Places, ExecutePlaces
  <2>8. CallsInv'
    BY <1>1, <2>1, <2>4, <2>6, <2>7, Parts, GoesTo
  <2> QED BY <1>5, <2>4, <2>5, <2>8, Together
<1>7. CASE ~(next.attempt < MaxAttempts)
  <2> DEFINE state == IF ~Ctx.error THEN "ERROR" ELSE IF ignored THEN "EIGNORE" ELSE next.state
             code == IF ignored /\ Ctx.error THEN "EIGNORE" ELSE "ERROR"
             d == [next EXCEPT !.error = TRUE, !.state = state]
  <2>1. ctxs' = [ctxs EXCEPT ![this] = d] /\ Return(code)
    BY <1>4, <1>7
  <2>2. state \in Codes /\ (state = "OK" => Ctx.state = "OK") /\ code \in Codes \ {"OK"}
    BY <1>2, <1>3, GoodFacts DEF Codes
  <2> HIDE DEF state, code
  <2>3. /\ d \in Contexts /\ d.kind = Ctx.kind /\ d.needs = Ctx.needs /\ d.attempt = Ctx.attempt + 1
        /\ d.nodes = <<>> /\ d.raw = <<>> /\ d.response = None /\ d.error = TRUE /\ d.state = state
    <3>1. TRUE \in BOOLEAN
      OBVIOUS
    <3> QED BY <1>3, <2>2, <3>1 DEF Contexts
  <2> HIDE DEF d
  <2>4. d \in GoodContexts
    <3>1. TRUE \in BOOLEAN
      OBVIOUS
    <3> QED BY <1>2, <2>2, <2>3, <3>1, ClearedIsGood
  <2>5. KeepsChain
    BY <1>1, <2>1, <2>4, Parts, OwnContext
  <2>6. ret' \in Codes
    BY <2>1, <2>2 DEF Return
  <2>7. CallsInv'
    BY <1>1, <2>1, <2>2, <2>5, Parts, ReturnsWith
  <2> QED BY <1>5, <2>5, <2>6, <2>7, Together
<1> QED BY <1>6, <1>7

-----------------------------------------------------------------------------
(* in3_client_rpc_ctx_raw, and the process.                                *)

LEMMA IdleKept ==
  ASSUME ctxs' = <<>>, stack' = <<>> PROVE ChainInv' /\ CallsInv'
<1>1. <<>> \in Seq(GoodContexts) /\ <<>> \in Seq(Frames) /\ DOMAIN <<>> = {}
  BY EmptySeq
<1>2. StackType'
  BY <1>1 DEF StackType
<1>3. FramesInv'
  BY <1>1 DEF FramesInv
<1>4. ReturnInv'
  BY DEF ReturnInv, In
<1> QED BY <1>1, <1>2, <1>3, <1>4 DEF ChainInv, CallsInv

LEMMA SubmitKeeps == ASSUME ClientInv, Submit PROVE ClientInv'
<1>1. /\ stack' = <<Frame("send", 1)>> /\ ret' = "OK" /\ KeepList /\ now' = now
  BY DEF Submit
<1>2. PICK needs \in 0 .. (IF wl = None THEN MaxAux ELSE 0) : ctxs' = <<NewCtx("rpc", None, 0, needs)>>
  BY DEF Submit
<1>3. ListType' /\ UpdateInv'
  BY <1>1, Parts, ListKept DEF Codes
<1> DEFINE c == NewCtx("rpc", None, 0, needs)
           f == Frame("send", 1)
<1>4. c \in GoodContexts
  <2>1. needs \in Nat
    BY <1>2, ConstantsAssumption
  <2>2. None \in Nodes \cup {None} /\ "rpc" \in Kinds /\ 0 \in Nat
    BY DEF Kinds
  <2> QED BY <2>1, <2>2, NewIsGood
<1>5. f \in Frames /\ f.fn = "send" /\ f.ctx = 1 /\ f.at = "start"
  BY DEF Frame, Frames, SendPlaces
<1> HIDE DEF c, f
<1>6. /\ ctxs' = <<c>> /\ <<c>> \in Seq(GoodContexts) /\ Len(<<c>>) = 1 /\ DOMAIN <<c>> = {1}
      /\ stack' = <<f>> /\ <<f>> \in Seq(Frames) /\ Len(<<f>>) = 1 /\ DOMAIN <<f>> = {1} /\ <<f>>[1] = f
      /\ <<f>> # <<>>
  BY <1>1, <1>2, <1>4, <1>5 DEF c, f
<1>7. StackType'
  BY <1>5, <1>6 DEF StackType
<1>8. FramesInv'
  BY <1>5, <1>6, SendFrame DEF FramesInv
<1>9. ReturnInv'
  BY <1>5, <1>6 DEF ReturnInv, In, Top
<1> QED BY <1>3, <1>6, <1>7, <1>8, <1>9 DEF ClientInv, CallsInv, ChainInv

LEMMA FinishKeeps == ASSUME ClientInv, Finish PROVE ClientInv'
<1>1. ctxs' = <<>> /\ stack' = <<>> /\ ret' = "OK" /\ KeepList /\ KeepClock
  BY DEF Finish
<1>2. ListType' /\ UpdateInv'
  BY <1>1, Parts, ListKept, SameClock DEF Codes
<1> QED BY <1>1, <1>2, IdleKept DEF ClientInv

LEMMA TimePassesKeeps == ASSUME ClientInv, TimePasses PROVE ClientInv'
<1>1. /\ now < MaxTime /\ now' = now + 1 /\ UNCHANGED <<ctxs, stack, ret>> /\ KeepList
  BY DEF TimePasses
<1>2. UNCHANGED <<version, lastBlock, boot, until, upd8, wl, flagged, cache, ret>>
  BY <1>1 DEF KeepList, listVars
<1>3. now' \in 0 .. MaxTime
  BY <1>1, Parts, ConstantFacts DEF ListType
<1>4. ListType'
  BY <1>2, <1>3, Parts DEF ListType, Listed, nodelist
<1>5. UpdateInv' /\ ChainInv' /\ CallsInv'
  BY <1>1, <1>2, Parts DEF UpdateInv, ChainInv, CallsInv, StackType, FramesInv, ReturnInv, In, Top, Ctx, this
<1> QED BY <1>4, <1>5 DEF ClientInv

LEMMA RestartKeeps == ASSUME ClientInv, Restart PROVE ClientInv'
<1>1. /\ ctxs' = <<>> /\ stack' = <<>> /\ ret' = "OK" /\ now' = now /\ cache' = cache
      /\ wl' = (IF wl = None THEN None ELSE CachedWhite)
      /\ flagged' = IF wl = None THEN {} ELSE Whitelisting(Registry[version'], wl'.addresses)
  BY DEF Restart
<1>2. cache \in [list : {None} \cup Stores, white : {None} \cup DOMAIN WhiteLists]
  BY Parts DEF ListType
<1>3. /\ version' \in Blocks /\ lastBlock' \in Blocks /\ boot' \subseteq Listed'
      /\ until' \in [Nodes -> 0 .. Later] /\ upd8' \in {None} \cup Updates /\ UpdateInv'
  <2>1. CASE cache.list = None
    <3>1. /\ version' = 0 /\ lastBlock' = 0 /\ boot' = ToSet(Registry[0])
          /\ until' = [n \in Nodes |-> 0] /\ upd8' = FirstUpdate
      BY <2>1 DEF Restart
    <3>2. 0 \in Blocks /\ 0 \in 0 .. Later
      BY ConstantFacts
    <3>3. FirstUpdate \in Updates /\ FirstUpdate.exp = 0
      BY <3>2 DEF FirstUpdate, Updates
    <3>4. boot' \subseteq Listed'
      BY <3>1 DEF Listed, nodelist
    <3> QED BY <3>1, <3>2, <3>3, <3>4 DEF UpdateInv
  <2>2. CASE cache.list # None
    <3>1. /\ version' = cache.list.version /\ lastBlock' = cache.list.last /\ boot' = {}
          /\ until' = cache.list.until /\ upd8' = None
      BY <2>2 DEF Restart
    <3>2. cache.list \in Stores
      BY <1>2, <2>2
    <3> QED BY <3>1, <3>2 DEF Stores, UpdateInv
  <2> QED BY <2>1, <2>2
<1>4. wl' \in {None} \cup WhiteListings
  <2>1. NoAddresses \in WhiteListings
    BY EmptySeq DEF NoAddresses, WhiteListings
  <2>2. CASE cache.white = None
    BY <1>1, <2>1, <2>2 DEF CachedWhite
  <2>3. CASE cache.white # None
    <3>1. cache.white \in DOMAIN WhiteLists /\ WhiteLists[cache.white] \in Seq(Nodes)
      BY <1>2, <2>3, ConstantFacts
    <3>2. [NoAddresses EXCEPT !.last = cache.white, !.addresses = WhiteLists[cache.white]] \in WhiteListings
      BY <2>1, <3>1 DEF NoAddresses, WhiteListings
    <3> QED BY <1>1, <2>3, <3>2 DEF CachedWhite
  <2> QED BY <2>2, <2>3
<1>5. flagged' \subseteq Nodes
  BY <1>1, <1>3, Whitelists
<1>6. ListType'
  BY <1>1, <1>2, <1>3, <1>4, <1>5, Parts DEF ListType, Codes
<1> QED BY <1>1, <1>3, <1>6, IdleKept DEF ClientInv

LEMMA InitHolds == ASSUME Init PROVE ClientInv
<1>1. ctxs = <<>> /\ stack = <<>> /\ ret = "OK"
  BY DEF Init
<1>2. ChainInv /\ CallsInv
  <2>1. <<>> \in Seq(GoodContexts) /\ <<>> \in Seq(Frames) /\ DOMAIN <<>> = {}
    BY EmptySeq
  <2> QED BY <1>1, <2>1 DEF ChainInv, CallsInv, StackType, FramesInv, ReturnInv, In
<1>3. 0 \in Blocks /\ 0 \in 0 .. Later /\ 0 \in 0 .. MaxTime
  BY ConstantFacts
<1>4. FirstUpdate \in Updates /\ FirstUpdate.exp = 0
  BY <1>3 DEF FirstUpdate, Updates
<1>5. wl \in {None} \cup WhiteListings
  <2>1. NoAddresses \in WhiteListings
    BY EmptySeq DEF NoAddresses, WhiteListings
  <2> QED BY <2>1 DEF Init
<1>6. boot \subseteq Listed /\ flagged \subseteq Nodes
  BY DEF Init, Listed, nodelist
<1>7. ListType /\ UpdateInv
  BY <1>3, <1>4, <1>5, <1>6 DEF Init, ListType, UpdateInv, Codes
<1> QED BY <1>2, <1>7 DEF ClientInv

LEMMA StepKeeps == ASSUME ClientInv, [Next]_vars PROVE ClientInv'
<1>1. CASE UNCHANGED vars
  BY <1>1 DEF vars, ClientInv, ListType, Listed, nodelist, UpdateInv, ChainInv, CallsInv, StackType,
              FramesInv, ReturnInv, In, Top, Ctx, this
<1>2. CASE Send
  BY <1>2, SendStartKeeps, SendExecutedKeeps, SendRequiredKeeps, SendSubKeeps, SendRecheckedKeeps,
     TransportKeeps DEF Send
<1>3. CASE Execute
  BY <1>3, ExecuteStartKeeps, ExecuteRequiredKeeps, ExecuteResponseKeeps DEF Execute
<1>4. CASE UpdateList
  BY <1>4, NoUpdateKeeps, RequestListKeeps, ListRequestedKeeps, ListFailedKeeps, ListArrivedKeeps
  DEF UpdateList
<1>5. CASE UpdateWhitelist
  BY <1>5, NoWhitelistingKeeps, RequestWhitelistKeeps, WhitelistRequestedKeeps, WhitelistArrivedKeeps
  DEF UpdateWhitelist
<1>6. CASE FindValidResult
  BY <1>6, RejectUnparsedKeeps, RejectErrorKeeps, RejectWrongKeeps, RequestCodeKeeps,
     CodeRequestedKeeps, TakeCodeKeeps, AcceptKeeps, NoValidResultKeeps DEF FindValidResult
<1>7. CASE PickNodes \/ Finish
  BY <1>7, PickNodesKeeps, FinishKeeps
<1>8. CASE Submit \/ TimePasses \/ Restart
  BY <1>8, SubmitKeeps, TimePassesKeeps, RestartKeeps
<1> QED BY <1>1, <1>2, <1>3, <1>4, <1>5, <1>6, <1>7, <1>8 DEF Next, Run

\* The inductive invariant of the client.
THEOREM Invariance == Spec => []ClientInv
<1>1. Init => ClientInv
  BY InitHolds
<1>2. ClientInv /\ [Next]_vars => ClientInv'
  BY StepKeeps
<1> QED BY <1>1, <1>2, PTL DEF Spec

\* The variables have their types, and a call never works on a context that was freed with the
\* one that required it.
THEOREM TypeCorrect == Spec => []TypeOK
<1>1. ClientInv => TypeOK
  <2> SUFFICES ASSUME ClientInv PROVE TypeOK
    OBVIOUS
  <2>1. \A k \in DOMAIN stack : stack[k].ctx \in DOMAIN ctxs
    BY Parts DEF StackType
  <2>2. ASSUME NEW k \in DOMAIN ctxs
        PROVE  ctxs[k].kind \in Kinds /\ ctxs[k].state \in Codes /\ ctxs[k].attempt \in 0 .. MaxAttempts
    <3>1. ctxs[k] \in GoodContexts
      BY Parts, ElementOfSeq, LenProperties DEF ChainInv
    <3> QED BY <3>1 DEF GoodContexts, Contexts
  <2> QED BY <2>1, <2>2, Parts DEF ListType, TypeOK
<1> QED BY <1>1, Invariance, PTL

\* A request that ends with success has a response its verifier accepted, with every code the
\* verification needed, or a node's error on the last attempt.
THEOREM SuccessesAreVerified == Spec => []SuccessIsVerified
<1>1. ClientInv => SuccessIsVerified
  <2> SUFFICES ASSUME ClientInv, ctxs # <<>>, stack = <<>>, ret = "OK"
               PROVE  /\ ctxs[1].state = "OK"
                      /\ \/ ctxs[1].response.quality = "good" /\ ctxs[1].needs = 0
                         \/ /\ ctxs[1].response.quality \in {"refused", "errored"}
                            /\ ctxs[1].attempt = MaxAttempts - 1
    BY DEF SuccessIsVerified
  <2>1. Succeeds(ctxs[1])
    BY Parts DEF ReturnInv
  <2>2. ctxs[1] \in GoodContexts
    <3>1. ctxs \in Seq(GoodContexts)
      BY Parts DEF ChainInv
    <3>2. 1 \in 1 .. Len(ctxs)
      BY <3>1, EmptySeq
    <3> QED BY <3>1, <3>2, ElementOfSeq
  <2>3. Verified(ctxs[1])
    BY <2>1, <2>2, GoodFacts DEF ContextInv
  <2> QED BY <2>1, <2>3 DEF Succeeds, Verified
<1> QED BY <1>1, Invariance, PTL

-----------------------------------------------------------------------------
(* What becomes of an announced update.                                    *)

\* A step that is no restart settles the update it drops, and a new list clears no node.
Settles ==
  /\ (upd8 # None /\ upd8' = None /\ upd8.exp # 0) =>
       \/ lastBlock' = upd8.exp
       \/ upd8.node \notin Listed \cap ToSet(nodelist')
       \/ until'[upd8.node] > now
  /\ version' # version =>
       \A n \in Listed \cap ToSet(nodelist') : until[n] > now => until'[n] > now

\* The starts of the process are counted.
LEMMA RestartsAreCounted == Spec => [](crashes \in Nat)
<1>1. Init => crashes \in Nat
  BY DEF Init
<1>2. crashes \in Nat /\ [Next]_vars => (crashes \in Nat)'
  <2> SUFFICES ASSUME crashes \in Nat, [Next]_vars PROVE crashes' \in Nat
    OBVIOUS
  <2>1. CASE UNCHANGED vars
    BY <2>1 DEF vars
  <2>2. CASE Send
    BY <2>2 DEF Send, SendStart, SendExecuted, SendRequired, SendSub, SendRechecked, Transport, KeepClock
  <2>3. CASE Execute
    BY <2>3 DEF Execute, ExecuteStart, ExecuteRequired, ExecuteResponse, KeepClock
  <2>4. CASE UpdateList
    BY <2>4 DEF UpdateList, NoUpdate, RequestList, ListRequested, ListFailed, ListArrived, KeepClock
  <2>5. CASE UpdateWhitelist
    BY <2>5 DEF UpdateWhitelist, NoWhitelisting, RequestWhitelist, WhitelistRequested,
                     WhitelistArrived, KeepClock
  <2>6. CASE FindValidResult
    BY <2>6 DEF FindValidResult, RejectUnparsed, RejectError, RejectWrong, RequestCode,
                     CodeRequested, TakeCode, Accept, NoValidResult, KeepClock
  <2>7. CASE PickNodes \/ Finish \/ Submit \/ TimePasses \/ Restart
    BY <2>7 DEF PickNodes, Finish, Submit, TimePasses, Restart, KeepClock
  <2> QED BY <2>1, <2>2, <2>3, <2>4, <2>5, <2>6, <2>7 DEF Next, Run
<1> QED BY <1>1, <1>2, PTL DEF Spec

\* Most steps neither drop an update nor change the list.
LEMMA NothingSettled ==
  ASSUME upd8' = upd8 \/ upd8' # None, version' = version PROVE Settles
BY DEF Settles

\* The lists' times.
LEMMA Times ==
  ASSUME ListType
  PROVE  /\ now \in Nat /\ now <= MaxTime /\ now + 1 > now /\ Later > now
         /\ until \in [Nodes -> 0 .. Later] /\ version \in Blocks /\ lastBlock \in Nat
         /\ Listed \subseteq Nodes
<1>1. now \in 0 .. MaxTime /\ MaxTime \in Nat /\ Later = MaxTime + 1
  BY ConstantFacts DEF ListType
<1>2. now \in Nat /\ now <= MaxTime /\ now + 1 > now /\ Later > now
  BY <1>1
<1>3. version \in Blocks /\ lastBlock \in Blocks /\ Blocks \subseteq Nat
  BY ConstantFacts DEF ListType
<1>4. Listed \subseteq Nodes
  BY <1>3, ConstantFacts, ToSetOfSeq DEF Listed, nodelist
<1> QED BY <1>2, <1>3, <1>4 DEF ListType

\* An update that brought nothing blacklists who announced it.
LEMMA DropSettles ==
  ASSUME ListType, until' = Dropped(until), version' = version PROVE Settles
<1>1. ASSUME upd8 # None, upd8.exp # 0, upd8.node \in Listed PROVE until'[upd8.node] > now
  <2>1. until' = [until EXCEPT ![upd8.node] = now + 1]
    BY <1>1 DEF Dropped, BlacklistAddr
  <2>2. upd8.node \in Nodes
    BY <1>1, Times
  <2>3. until'[upd8.node] = now + 1
    BY <2>1, <2>2, Times
  <2> QED BY <2>3, Times
<1> QED BY <1>1 DEF Settles

\* A new list has the weights of the nodes it shares with the old one.
LEMMA Checking ==
  ASSUME ListType, NEW v, NEW n \in Listed
  PROVE  /\ until[n] > now => Checked(until, v)[n] > now
         /\ upd8 # None /\ upd8.exp # v /\ n = upd8.node => Checked(until, v)[n] > now
<1>1. n \in Nodes
  BY Times
<1>2. CASE upd8 # None /\ upd8.exp # v /\ upd8.node \in Listed
  <2>1. Checked(until, v) = [until EXCEPT ![upd8.node] = now + 1]
    BY <1>2 DEF Checked, BlacklistAddr
  <2>2. Checked(until, v)[n] = IF n = upd8.node THEN now + 1 ELSE until[n]
    BY <1>1, <2>1, Times
  <2> QED BY <2>2, Times
<1>3. CASE ~(upd8 # None /\ upd8.exp # v /\ upd8.node \in Listed)
  <2>1. Checked(until, v) = until
    BY <1>3 DEF Checked, BlacklistAddr
  <2> QED BY <1>3, <2>1
<1> QED BY <1>2, <1>3

LEMMA Filling ==
  ASSUME ListType, NEW v, NEW u, NEW n \in Listed \cap ToSet(Registry[v]), u[n] > now
  PROVE  FilledWeights(u, v)[n] > now
<1>1. n \in Nodes
  BY Times
<1>2. FilledWeights(u, v)[n] = IF n \in Fresh THEN Later ELSE u[n]
  BY <1>1 DEF FilledWeights
<1> QED BY <1>2, Times

LEMMA ListArrivedSettles == ASSUME ClientInv, ListArrived PROVE Settles
<1> DEFINE k == ListRequest
           list == ctxs[k].response.list
           newer == list.block > lastBlock
<1>1. /\ stack # <<>> /\ k # 0 /\ Succeeded(k) /\ HasResult(ctxs[k].response)
      /\ upd8' = None
      /\ lastBlock' = IF newer THEN list.block ELSE lastBlock
      /\ IF newer /\ list.ok
         THEN version' = list.block /\ until' = FilledWeights(Checked(until, list.block), list.block)
         ELSE until' = Checked(until, list.block) /\ version' = version
  BY DEF ListArrived, Listing, In
<1>2. list.block \in Blocks
  <2>1. k \in this + 1 .. Len(ctxs) /\ ctxs[k].kind = "in3_nodeList"
    BY <1>1, Parts, FoundRequired DEF ListRequest
  <2>2. k \in 1 .. Len(ctxs)
    BY <1>1, <2>1, Parts, TheCall
  <2>3. list \in Lists(ctxs[k].kind)
    BY <2>2, <1>1, Parts, GotResult
  <2>4. list \in [block : Blocks \ {0}, ok : BOOLEAN]
    BY <2>1, <2>3, Listings
  <2> HIDE DEF list
  <2> QED BY <2>4
<1> HIDE DEF list, k
<1> DEFINE b == list.block
<1>3. b \in Nat /\ b \in Blocks /\ newer = (b > lastBlock)
  BY <1>2, ConstantFacts
<1>4. \/ until' = Checked(until, b) /\ version' = version
      \/ until' = FilledWeights(Checked(until, b), b) /\ version' = b
  BY <1>1
<1>5. newer => lastBlock' = b
  BY <1>1
<1> HIDE DEF b, newer
<1>6. ASSUME NEW n \in Listed \cap ToSet(nodelist'), Checked(until, b)[n] > now
      PROVE  until'[n] > now
  <2>1. CASE until' = Checked(until, b)
    BY <1>6, <2>1
  <2>2. CASE until' = FilledWeights(Checked(until, b), b) /\ version' = b
    <3>1. n \in Listed \cap ToSet(Registry[b])
      BY <1>6, <2>2 DEF nodelist
    <3> QED BY <1>6, <2>2, <3>1, Parts, Filling
  <2> QED BY <1>4, <2>1, <2>2
<1>7. ASSUME upd8 # None, upd8.exp # 0, upd8.node \in Listed \cap ToSet(nodelist')
      PROVE  lastBlock' = upd8.exp \/ until'[upd8.node] > now
  <2>1. CASE upd8.exp = b
    <3>1. upd8.exp > lastBlock
      BY <1>7, Parts DEF UpdateInv
    <3> QED BY <1>3, <1>5, <2>1, <3>1
  <2>2. CASE upd8.exp # b
    <3>1. Checked(until, b)[upd8.node] > now
      BY <1>7, <2>2, Parts, Checking
    <3> QED BY <1>6, <1>7, <3>1
  <2> QED BY <2>1, <2>2
<1>8. ASSUME NEW n \in Listed \cap ToSet(nodelist'), until[n] > now PROVE until'[n] > now
  <2>1. Checked(until, b)[n] > now
    BY <1>8, Parts, Checking
  <2> QED BY <1>6, <1>8, <2>1
<1> QED BY <1>7, <1>8 DEF Settles

LEMMA AcceptSettles == ASSUME ClientInv, Accept PROVE Settles
<1>1. version' = version /\ Looking
  BY VerifyingLooks DEF Accept
<1>2. CASE upd8' = upd8
  BY <1>1, <1>2, NothingSettled
<1>3. CASE Node.ok
  <2>1. /\ stack # <<>> /\ Response \in Answers(Ctx.kind) /\ Node \in Matches /\ Ctx \in GoodContexts
    BY <1>1, VerifyFacts, GoodFacts
  <2>2. Response.header \in [last : Nat, cur : Nat, white : Nat]
    BY <1>1, VerifyFacts, GoodFacts, AnswerFacts
  <2>3. Node.addr \in Nodes
    BY <2>1 DEF Matches
  <2>4. PICK n \in Nodes : upd8' = Announced(n, Response.header)
    BY <1>3, <2>3 DEF Accept
  <2>5. CASE upd8 # None
    <3>1. upd8 \in Updates
      BY <2>5, Parts DEF ListType
    <3>2. CASE Response.header.last <= Response.header.cur /\ Response.header.last > lastBlock
      <4> DEFINE u == [node |-> n, exp |-> Response.header.last, at |-> now + Wait(Response.header)]
      <4>1. upd8' = u
        BY <2>4, <3>2 DEF Announced
      <4>2. now + Wait(Response.header) \in 0 .. Later
        <5>1. Wait(Response.header) \in {0, 1} /\ now \in Nat /\ now <= MaxTime /\ Later = MaxTime + 1
              /\ MaxTime \in Nat
          BY Parts, Times, ConstantFacts DEF Wait
        <5> QED BY <5>1
      <4>3. u \in Updates
        BY <2>2, <4>2 DEF Updates
      <4>4. upd8' # None
        BY <4>1, <4>3, NullAssumption
      <4> QED BY <1>1, <4>4, NothingSettled
    <3>3. CASE ~(Response.header.last <= Response.header.cur /\ Response.header.last > lastBlock)
      <4>1. upd8' = upd8
        BY <2>4, <3>3 DEF Announced
      <4> QED BY <1>1, <4>1, NothingSettled
    <3> QED BY <3>2, <3>3
  <2>6. CASE upd8 = None
    BY <1>1, <2>6 DEF Settles
  <2> QED BY <2>5, <2>6
<1> QED BY <1>2, <1>3 DEF Accept

\* The steps that touch neither the announced update nor the list.
LEMMA OtherSteps ==
  ASSUME \/ SendStart \/ SendExecuted \/ SendRequired \/ SendRechecked \/ Transport
         \/ Execute \/ NoUpdate \/ RequestList \/ ListRequested \/ UpdateWhitelist \/ PickNodes
         \/ RejectUnparsed \/ RejectError \/ RejectWrong \/ RequestCode \/ CodeRequested \/ TakeCode
         \/ NoValidResult \/ Finish \/ Submit \/ TimePasses
  PROVE  upd8' = upd8 /\ version' = version
<1>1. ASSUME SendStart \/ SendExecuted \/ SendRequired \/ SendRechecked \/ Transport \/ Execute
      PROVE  upd8' = upd8 /\ version' = version
  BY <1>1 DEF SendStart, SendExecuted, SendRequired, SendRechecked, Transport, Execute, ExecuteStart,
              ExecuteRequired, ExecuteResponse, KeepList, listVars
<1>2. ASSUME NoUpdate \/ RequestList \/ ListRequested \/ UpdateWhitelist \/ PickNodes
      PROVE  upd8' = upd8 /\ version' = version
  BY <1>2 DEF NoUpdate, RequestList, ListRequested, UpdateWhitelist, NoWhitelisting, RequestWhitelist,
              WhitelistRequested, WhitelistArrived, PickNodes, KeepList, listVars
<1>3. ASSUME RejectUnparsed \/ RejectError \/ RejectWrong \/ RequestCode \/ CodeRequested \/ TakeCode
      PROVE  upd8' = upd8 /\ version' = version
  BY <1>3 DEF RejectUnparsed, RejectError, RejectWrong, RequestCode, CodeRequested, TakeCode,
              KeepAllButUntil, KeepList, listVars
<1>4. ASSUME NoValidResult \/ Finish \/ Submit \/ TimePasses
      PROVE  upd8' = upd8 /\ version' = version
  BY <1>4 DEF NoValidResult, Finish, Submit, TimePasses, KeepList, listVars
<1> QED BY <1>1, <1>2, <1>3, <1>4

LEMMA StepSettles == ASSUME ClientInv, Next, ~Restart PROVE Settles
<1>1. CASE SendSub
  <2>1. CASE until' = Dropped(until) /\ version' = version
    BY <2>1, Parts, DropSettles
  <2>2. CASE KeepList
    BY <2>2, NothingSettled DEF KeepList, listVars
  <2> QED BY <1>1, <2>1, <2>2 DEF SendSub
<1>2. CASE ListFailed
  <2>1. until' = Dropped(until) /\ version' = version
    BY <1>2 DEF ListFailed
  <2> QED BY <2>1, Parts, DropSettles
<1>3. CASE ListArrived
  BY <1>3, ListArrivedSettles
<1>4. CASE Accept
  BY <1>4, AcceptSettles
<1>5. CASE ~(SendSub \/ ListFailed \/ ListArrived \/ Accept)
  <2>1. upd8' = upd8 /\ version' = version
    BY <1>5, OtherSteps DEF Next, Run, Send, UpdateList, FindValidResult
  <2> QED BY <2>1, NothingSettled
<1> QED BY <1>1, <1>2, <1>3, <1>4, <1>5

\* An announced update is not dropped: the list reaches the block, or the node that announced
\* it ends blacklisted if it was listed and still is; and a new list clears no node that stays.
THEOREM UpdatesSettle == Spec => UpdatesAreSettled
<1>1. ASSUME ClientInv, crashes \in Nat, [Next]_vars
      PROVE  [Running => Settles]_vars
  <2>1. CASE Restart
    <3>1. crashes' # crashes
      BY <1>1, <2>1 DEF Restart
    <3> QED BY <3>1 DEF Running
  <2>2. CASE Next /\ ~Restart
    BY <1>1, <2>2, StepSettles
  <2> QED BY <1>1, <2>1, <2>2
<1>2. [Running => Settles]_vars
        <=> [Running =>
              /\ (upd8 # None /\ upd8' = None /\ upd8.exp # 0) =>
                   \/ lastBlock' = upd8.exp
                   \/ upd8.node \notin Listed \cap ToSet(nodelist')
                   \/ until'[upd8.node] > now
              /\ version' # version =>
                   \A n \in Listed \cap ToSet(nodelist') : until[n] > now => until'[n] > now]_vars
  BY DEF Settles
<1> QED BY <1>1, <1>2, Invariance, RestartsAreCounted, PTL DEF Spec, UpdatesAreSettled

-----------------------------------------------------------------------------
(* Which requests were served, and what the calls know of it.              *)

Asking(c) == c.nodes # <<>> /\ c.raw = <<>>
Done(c) == c.state = "OK" /\ c.response # None /\ ~c.error
\* A response was accepted; an error of an earlier node may have been left behind.
Served(c) == c.state = "OK" /\ (c.response # None \/ c.error)
RawFirst(c) == c.response # None => c.raw # <<>>
RawInv == \A k \in DOMAIN ctxs : RawFirst(ctxs[k])

\* in3_ctx_execute does not work on a context that was served.
UnservedPlaces == {"required", "work", "listed", "whitelist", "whitelisted", "pick"}
Unserved(f, c) == f.fn = "execute" /\ f.at \in UnservedPlaces => ~Served(c)

\* What a call knows of its context and of the one it requires, given what was returned to it.
Knows(f, cs, r) ==
  /\ f.fn = "send" /\ f.at \in {"executed", "rechecked"} => (Served(cs[f.ctx]) => r \in {"OK", "ERROR"})
  /\ f.fn = "send" /\ f.at = "sub"
       => f.ctx + 1 \in DOMAIN cs /\ (Served(cs[f.ctx + 1]) => r \in {"OK", "ERROR"})
  /\ f.fn = "send" /\ f.at = "required" => ~Served(cs[f.ctx])
  /\ f.fn = "execute" /\ f.at \in {"required", "listed", "whitelisted"} /\ r = "OK" => Served(cs[f.ctx + 1])
  /\ f.fn = "execute" /\ f.at \in {"work", "whitelist", "pick"} /\ f.ctx + 1 \in DOMAIN cs
       => Served(cs[f.ctx + 1])

OnlyExecutes == \A i, j \in DOMAIN stack : i <= j /\ stack[i].fn = "execute" => stack[j].fn = "execute"
UnservedInv == \A i \in DOMAIN stack : Unserved(stack[i], ctxs[stack[i].ctx])
\* Who requires the context worked on is not done.
NoneDone(cs, n) == \A k \in DOMAIN cs : k < n => ~Done(cs[k])

ServedInv ==
  /\ RawInv /\ OnlyExecutes /\ UnservedInv
  /\ stack # <<>> => NoneDone(ctxs, this) /\ Knows(Top, ctxs, ret)

\* The calls that wait, and their contexts.
LEMMA LowerCalls ==
  ASSUME ClientInv, stack # <<>>, KeepsChain, NEW i \in 1 .. Len(stack) - 1
  PROVE  /\ i \in DOMAIN stack /\ stack[i] \in Frames /\ stack[i].ctx \in Nat /\ stack[i].ctx <= this
         /\ stack[i].fn = "execute" =>
              /\ stack[i].ctx < this
              /\ stack[i].ctx \in DOMAIN ctxs /\ ctxs'[stack[i].ctx] = ctxs[stack[i].ctx]
<1>1. i \in DOMAIN stack /\ i + 1 \in DOMAIN stack /\ i + 1 <= Len(stack) /\ Len(stack) \in DOMAIN stack
  BY Parts, TheCall
<1>2. stack[i] \in Frames /\ stack[i].ctx \in Nat /\ stack[i].ctx <= this
  BY <1>1, Parts, WaitingCalls
<1>3. ASSUME stack[i].fn = "execute" PROVE stack[i].ctx \in 1 .. this - 1
  <2>1. Awaits(stack[i], stack[i + 1])
    BY <1>1, Parts DEF StackType
  <2>2. stack[i].ctx + 1 = stack[i + 1].ctx
    BY <2>1, <1>3 DEF Awaits
  <2>3. stack[i + 1].ctx <= this
    BY <1>1, Parts, TheCall DEF StackType
  <2>4. stack[i].ctx \in DOMAIN ctxs
    BY <1>1, Parts DEF StackType
  <2> QED BY <1>2, <2>2, <2>3, <2>4, Parts, TheCall
<1>4. ASSUME stack[i].fn = "execute"
      PROVE  /\ stack[i].ctx < this /\ stack[i].ctx \in DOMAIN ctxs
             /\ ctxs'[stack[i].ctx] = ctxs[stack[i].ctx]
  BY <1>2, <1>3, <1>4, Parts, TheCall DEF KeepsChain
<1> QED BY <1>1, <1>2, <1>4

\* What requires the context worked on stays as it is.
LEMMA StillNoneDone ==
  ASSUME ClientInv, ServedInv, stack # <<>>, KeepsChain, NEW n \in Nat, n <= this
  PROVE  NoneDone(ctxs', n)
<1>1. NoneDone(ctxs, this)
  BY DEF ServedInv
<1>2. /\ Len(ctxs') \in Nat /\ DOMAIN ctxs' = 1 .. Len(ctxs')
      /\ Len(ctxs) \in Nat /\ DOMAIN ctxs = 1 .. Len(ctxs) /\ this \in 1 .. Len(ctxs)
  BY Parts, KeptChain, TheCall
<1>3. ASSUME NEW k \in DOMAIN ctxs', k < n PROVE ~Done(ctxs'[k])
  <2>1. k \in 1 .. this - 1 /\ k \in DOMAIN ctxs /\ k < this
    BY <1>2, <1>3
  <2>2. ctxs'[k] = ctxs[k]
    BY <2>1 DEF KeepsChain
  <2> QED BY <1>1, <2>1, <2>2 DEF NoneDone
<1> QED BY <1>3 DEF NoneDone

LEMMA LowerUnserved ==
  ASSUME ClientInv, ServedInv, stack # <<>>, KeepsChain, NEW i \in 1 .. Len(stack) - 1
  PROVE  Unserved(stack[i], ctxs'[stack[i].ctx])
<1>1. i \in DOMAIN stack
  BY LowerCalls
<1>2. Unserved(stack[i], ctxs[stack[i].ctx])
  BY <1>1 DEF ServedInv, UnservedInv
<1>3. CASE stack[i].fn = "execute"
  BY <1>2, <1>3, LowerCalls
<1> QED BY <1>3 DEF Unserved

\* The call goes on at another place.
LEMMA MoveServes ==
  ASSUME ClientInv, ServedInv, stack # <<>>, KeepsChain, RawInv',
         NEW f \in Frames, f.fn = Top.fn, f.ctx = this,
         stack' = [stack EXCEPT ![Len(stack)] = f],
         Unserved(f, ctxs'[this]), Knows(f, ctxs', ret')
  PROVE  ServedInv'
<1>1. /\ stack' \in Seq(Frames) /\ Len(stack') = Len(stack) /\ DOMAIN stack' = DOMAIN stack
      /\ stack'[Len(stack)] = f
      /\ \A i \in 1 .. Len(stack) - 1 : stack'[i] = stack[i]
  BY Parts, MovedStack
<1>2. /\ Len(stack) \in Nat \ {0} /\ DOMAIN stack = 1 .. Len(stack) /\ Top = stack[Len(stack)]
      /\ this \in Nat
  BY Parts, TheCall
<1>3. \A i \in DOMAIN stack : i = Len(stack) \/ i \in 1 .. Len(stack) - 1
  BY <1>2
<1>4. \A i \in DOMAIN stack : stack'[i].fn = stack[i].fn
  BY <1>1, <1>2, <1>3
<1>5. OnlyExecutes'
  <2>1. ASSUME NEW i \in DOMAIN stack', NEW j \in DOMAIN stack', i <= j, stack'[i].fn = "execute"
        PROVE  stack'[j].fn = "execute"
    <3>1. i \in DOMAIN stack /\ j \in DOMAIN stack /\ stack[i].fn = "execute"
      BY <2>1, <1>1, <1>4
    <3>2. stack[j].fn = "execute"
      BY <3>1, <2>1 DEF ServedInv, OnlyExecutes
    <3> QED BY <3>1, <3>2, <1>4
  <2> QED BY <2>1 DEF OnlyExecutes
<1>6. UnservedInv'
  <2>1. ASSUME NEW i \in DOMAIN stack PROVE Unserved(stack'[i], ctxs'[stack'[i].ctx])
    <3>1. CASE i = Len(stack)
      BY <3>1, <1>1
    <3>2. CASE i \in 1 .. Len(stack) - 1
      BY <3>2, <1>1, LowerUnserved
    <3> QED BY <1>3, <3>1, <3>2
  <2> QED BY <1>1, <2>1 DEF UnservedInv
<1>7. Top' = f /\ this' = this
  BY <1>1 DEF Top, this
<1>8. NoneDone(ctxs', this)
  BY <1>2, StillNoneDone
<1> QED BY <1>5, <1>6, <1>7, <1>8 DEF ServedInv, NoneDone, Knows, Done, Served

\* The call waits for a new one.
LEMMA CallServes ==
  ASSUME ClientInv, ServedInv, stack # <<>>, KeepsChain, RawInv',
         NEW f \in Frames, f.fn = Top.fn, f.ctx = this, Unserved(f, ctxs'[this]),
         NEW g \in Frames, g.at = "start", Awaits(f, g),
         g.ctx = this \/ (g.ctx = this + 1 /\ ~Done(ctxs'[this])),
         stack' = Append([stack EXCEPT ![Len(stack)] = f], g)
  PROVE  ServedInv'
<1>1. /\ stack' \in Seq(Frames) /\ Len(stack') = Len(stack) + 1 /\ DOMAIN stack' = 1 .. Len(stack) + 1
      /\ stack'[Len(stack) + 1] = g /\ stack'[Len(stack)] = f
      /\ \A i \in 1 .. Len(stack) - 1 : stack'[i] = stack[i]
  BY Parts, CalledStack
<1>2. /\ Len(stack) \in Nat \ {0} /\ DOMAIN stack = 1 .. Len(stack) /\ Top = stack[Len(stack)]
      /\ this \in Nat /\ Len(stack) \in DOMAIN stack
  BY Parts, TheCall
<1>3. ASSUME NEW i \in DOMAIN stack'
      PROVE  \/ i = Len(stack) + 1
             \/ i = Len(stack)
             \/ i \in 1 .. Len(stack) - 1
  <2>1. Len(stack) \in Nat /\ i \in 1 .. Len(stack) + 1
    BY <1>1, <1>2
  <2> QED BY <2>1
<1>4. ASSUME NEW i \in DOMAIN stack', i # Len(stack) + 1
      PROVE  i \in DOMAIN stack /\ stack'[i].fn = stack[i].fn /\ i <= Len(stack)
  <2>1. CASE i = Len(stack)
    BY <2>1, <1>1, <1>2
  <2>2. CASE i \in 1 .. Len(stack) - 1
    <3>1. i \in DOMAIN stack /\ i <= Len(stack)
      BY <2>2, <1>2
    <3> QED BY <2>2, <3>1, <1>1
  <2> QED BY <1>3, <1>4, <2>1, <2>2
<1>5. f.fn = "execute" => g.fn = "execute"
  BY DEF Awaits
<1>6. OnlyExecutes'
  <2>1. ASSUME NEW i \in DOMAIN stack', NEW j \in DOMAIN stack', i <= j, stack'[i].fn = "execute"
        PROVE  stack'[j].fn = "execute"
    <3>1. CASE i = Len(stack) + 1
      <4>1. Len(stack) \in Nat /\ i \in 1 .. Len(stack) + 1 /\ j \in 1 .. Len(stack) + 1
        BY <1>1, <1>2
      <4>2. j = i
        BY <2>1, <3>1, <4>1
      <4> QED BY <2>1, <4>2
    <3>2. CASE i # Len(stack) + 1 /\ j # Len(stack) + 1
      BY <2>1, <3>2, <1>4, Zenon DEF ServedInv, OnlyExecutes
    <3>3. CASE i # Len(stack) + 1 /\ j = Len(stack) + 1
      <4>1. stack[Len(stack)].fn = "execute"
        BY <2>1, <3>3, <1>2, <1>4 DEF ServedInv, OnlyExecutes
      <4> QED BY <4>1, <3>3, <1>1, <1>2, <1>5, Zenon
    <3> QED BY <3>1, <3>2, <3>3
  <2> QED BY <2>1 DEF OnlyExecutes
<1>7. UnservedInv'
  <2>1. ASSUME NEW i \in DOMAIN stack' PROVE Unserved(stack'[i], ctxs'[stack'[i].ctx])
    <3>1. CASE i = Len(stack) + 1
      BY <3>1, <1>1 DEF Unserved, UnservedPlaces
    <3>2. CASE i = Len(stack)
      BY <3>2, <1>1
    <3>3. CASE i \in 1 .. Len(stack) - 1
      BY <3>3, <1>1, LowerUnserved
    <3> QED BY <1>3, <3>1, <3>2, <3>3
  <2> QED BY <2>1 DEF UnservedInv
<1>8. Top' = g /\ this' = g.ctx
  BY <1>1 DEF Top, this
<1>9. NoneDone(ctxs', g.ctx)
  <2>1. NoneDone(ctxs', this)
    BY <1>2, StillNoneDone
  <2>2. CASE g.ctx = this + 1 /\ ~Done(ctxs'[this])
    <3>1. ASSUME NEW k \in DOMAIN ctxs', k < g.ctx PROVE k < this \/ k = this
      <4>1. k \in Nat
        BY Parts, KeptChain
      <4> QED BY <4>1, <3>1, <2>2, <1>2
    <3> QED BY <2>1, <2>2, <3>1 DEF NoneDone
  <2> QED BY <2>1, <2>2
<1>10. Knows(g, ctxs', ret')
  BY DEF Knows
<1> QED BY <1>6, <1>7, <1>8, <1>9, <1>10 DEF ServedInv, NoneDone, Knows, Done, Served

\* The call returns: a success is of a context that was served, and one that was served is not
\* reported as waiting or to be ignored.
LEMMA ReturnServes ==
  ASSUME ClientInv, ServedInv, stack # <<>>, KeepsChain, RawInv', NEW code, Return(code),
         Served(ctxs'[this]) => code \in {"OK", "ERROR"},
         Top.fn = "execute" /\ code = "OK" => Served(ctxs'[this])
  PROVE  ServedInv'
<1>1. /\ stack' \in Seq(Frames) /\ Len(stack') = Len(stack) - 1
      /\ DOMAIN stack' = 1 .. Len(stack) - 1
      /\ \A i \in DOMAIN stack' : stack'[i] = stack[i]
      /\ ret' = code
  BY Parts, TheFrontOfCalls DEF Return
<1>2. ASSUME NEW i \in DOMAIN stack' PROVE i \in DOMAIN stack /\ i \in 1 .. Len(stack) - 1
  BY <1>1, Parts, TheCall
<1>3. OnlyExecutes'
  BY <1>1, <1>2 DEF ServedInv, OnlyExecutes
<1>4. UnservedInv'
  BY <1>1, <1>2, LowerUnserved DEF UnservedInv
<1>5. ASSUME stack' # <<>> PROVE NoneDone(ctxs', this') /\ Knows(Top', ctxs', ret')
  <2> DEFINE n == Len(stack) - 1
             g == stack[n]
  <2>1. n \in 1 .. Len(stack) - 1 /\ n + 1 = Len(stack) /\ n = Len(stack') /\ n \in DOMAIN stack'
    <3>1. Len(stack') > 0
      BY <1>5, <1>1, EmptySeq
    <3> QED BY <3>1, <1>1, Parts, TheCall
  <2>2. Top' = g /\ this' = g.ctx
    BY <1>1, <2>1 DEF Top, this
  <2>3. g \in Frames /\ g.ctx \in Nat /\ g.ctx <= this
    BY <2>1, LowerCalls
  <2>4. Awaits(g, Top)
    <3>1. n \in DOMAIN stack /\ Len(stack) \in DOMAIN stack /\ Top = stack[Len(stack)]
      BY <1>2, <2>1, Parts, TheCall
    <3> QED BY <3>1, <2>1, Parts DEF StackType
  <2> HIDE DEF g, n
  <2>5. NoneDone(ctxs', g.ctx)
    BY <2>3, StillNoneDone
  <2>6. Knows(g, ctxs', code)
    <3>1. Top.ctx = this /\ this \in DOMAIN ctxs'
      BY Parts, KeptChain DEF this
    <3>2. CASE g.fn = "send"
      BY <2>4, <3>1, <3>2 DEF Knows, Awaits
    <3>3. CASE g.fn = "execute"
      BY <2>4, <3>1, <3>3 DEF Knows, Awaits
    <3> QED BY <2>3, <3>2, <3>3 DEF Frames
  <2> QED BY <2>2, <2>5, <2>6, <1>1
<1> QED BY <1>3, <1>4, <1>5 DEF ServedInv, NoneDone, Knows, Done, Served

LEMMA GotoServes ==
  ASSUME ClientInv, ServedInv, stack # <<>>, KeepsChain, RawInv',
         NEW at \in Places(Top.fn), Goto(at),
         Unserved([fn |-> Top.fn, ctx |-> this, at |-> at, n |-> Top.n], ctxs'[this]),
         Knows([fn |-> Top.fn, ctx |-> this, at |-> at, n |-> Top.n], ctxs', ret)
  PROVE  ServedInv'
<1> DEFINE f == [fn |-> Top.fn, ctx |-> this, at |-> at, n |-> Top.n]
<1>1. f \in Frames /\ f.fn = Top.fn /\ f.ctx = this
  BY Parts, TopFrame, NewFrame
<1>2. stack' = [stack EXCEPT ![Len(stack)] = f] /\ ret' = ret
  BY Parts, FrameAt DEF Goto
<1>3. Unserved(f, ctxs'[this]) /\ Knows(f, ctxs', ret')
  BY <1>2
<1> HIDE DEF f
<1> QED BY <1>1, <1>2, <1>3, MoveServes

LEMMA GotoNServes ==
  ASSUME ClientInv, ServedInv, stack # <<>>, KeepsChain, RawInv',
         NEW at \in Places(Top.fn), NEW n \in Nat,
         stack' = [stack EXCEPT ![Len(stack)] = [fn |-> Top.fn, ctx |-> this, at |-> at, n |-> n]],
         Unserved([fn |-> Top.fn, ctx |-> this, at |-> at, n |-> n], ctxs'[this]),
         Knows([fn |-> Top.fn, ctx |-> this, at |-> at, n |-> n], ctxs', ret')
  PROVE  ServedInv'
<1> DEFINE f == [fn |-> Top.fn, ctx |-> this, at |-> at, n |-> n]
<1>1. f \in Frames /\ f.fn = Top.fn /\ f.ctx = this
  BY Parts, NewFrame
<1>2. stack' = [stack EXCEPT ![Len(stack)] = f]
  OBVIOUS
<1>3. Unserved(f, ctxs'[this]) /\ Knows(f, ctxs', ret')
  OBVIOUS
<1> HIDE DEF f
<1> QED BY <1>1, <1>2, <1>3, MoveServes

LEMMA CallForServes ==
  ASSUME ClientInv, ServedInv, stack # <<>>, KeepsChain, RawInv',
         NEW at \in Places(Top.fn), NEW fn \in {"send", "execute"}, NEW k \in DOMAIN ctxs',
         Call(at, fn, k),
         Unserved([fn |-> Top.fn, ctx |-> this, at |-> at, n |-> Top.n], ctxs'[this]),
         Awaits([fn |-> Top.fn, ctx |-> this, at |-> at, n |-> Top.n], Frame(fn, k)),
         k = this \/ (k = this + 1 /\ ~Done(ctxs'[this]))
  PROVE  ServedInv'
<1> DEFINE f == [fn |-> Top.fn, ctx |-> this, at |-> at, n |-> Top.n]
           g == Frame(fn, k)
<1>1. f \in Frames /\ f.fn = Top.fn /\ f.ctx = this
  BY Parts, TopFrame, NewFrame
<1>2. k \in Nat
  BY Parts, KeptChain
<1>3. g \in Frames /\ g.at = "start" /\ g.ctx = k
  BY <1>2 DEF Frame, Frames, SendPlaces, ExecutePlaces
<1>4. stack' = Append([stack EXCEPT ![Len(stack)] = f], g)
  BY Parts, FrameAt DEF Call
<1>5. Awaits(f, g) /\ Unserved(f, ctxs'[this])
  OBVIOUS
<1> HIDE DEF f, g
<1> QED BY <1>1, <1>3, <1>4, <1>5, CallServes

-----------------------------------------------------------------------------
(* The contexts after a step.                                              *)

LEMMA SameRaw == ASSUME ServedInv, UNCHANGED ctxs PROVE RawInv'
BY DEF ServedInv, RawInv

LEMMA OwnMembers ==
  ASSUME ClientInv, stack # <<>>, NEW c \in GoodContexts, ctxs' = [ctxs EXCEPT ![this] = c]
  PROVE  /\ KeepsChain /\ ctxs'[this] = c /\ this \in DOMAIN ctxs /\ DOMAIN ctxs' = DOMAIN ctxs
         /\ \A k \in DOMAIN ctxs' : k # this => ctxs'[k] = ctxs[k]
<1>1. KeepsChain /\ ctxs'[this] = c
  BY Parts, OwnContext
<1>2. this \in DOMAIN ctxs
  BY Parts, TheCall
<1> QED BY <1>1, <1>2

LEMMA OwnRaw ==
  ASSUME ClientInv, ServedInv, stack # <<>>, NEW c \in GoodContexts, ctxs' = [ctxs EXCEPT ![this] = c],
         RawFirst(c)
  PROVE  RawInv'
<1>1. ASSUME NEW k \in DOMAIN ctxs' PROVE RawFirst(ctxs'[k])
  <2>1. k \in DOMAIN ctxs /\ (ctxs'[k] = c \/ ctxs'[k] = ctxs[k])
    BY <1>1, OwnMembers
  <2> QED BY <2>1 DEF ServedInv, RawInv
<1> QED BY <1>1 DEF RawInv

LEMMA AddedMembers ==
  ASSUME ClientInv, stack # <<>>, NEW d \in GoodContexts, ctxs' = AddRequired(this, d)
  PROVE  /\ KeepsChain /\ ctxs'[this] = Ctx /\ this + 1 \in DOMAIN ctxs'
         /\ \A k \in DOMAIN ctxs' : ctxs'[k] = d \/ \E j \in DOMAIN ctxs : ctxs'[k] = ctxs[j]
<1>1. /\ KeepsChain /\ ctxs'[this] = Ctx /\ Len(ctxs') = Len(ctxs) + 1
      /\ this + 1 \in DOMAIN ctxs' /\ ctxs'[this + 1] = d
      /\ \A k \in this + 1 .. Len(ctxs) : ctxs'[k + 1] = ctxs[k]
  BY Parts, AddedContext
<1>2. /\ DOMAIN ctxs' = 1 .. Len(ctxs') /\ DOMAIN ctxs = 1 .. Len(ctxs) /\ this \in 1 .. Len(ctxs)
      /\ Len(ctxs) \in Nat /\ Ctx = ctxs[this]
  BY <1>1, Parts, KeptChain, TheCall
<1>3. ASSUME NEW k \in DOMAIN ctxs' PROVE ctxs'[k] = d \/ \E j \in DOMAIN ctxs : ctxs'[k] = ctxs[j]
  <2>1. k \in 1 .. this - 1 \/ k = this \/ k = this + 1 \/ k - 1 \in this + 1 .. Len(ctxs)
    BY <1>1, <1>2
  <2>2. CASE k \in 1 .. this - 1
    <3>1. k \in DOMAIN ctxs /\ ctxs'[k] = ctxs[k]
      BY <2>2, <1>1, <1>2 DEF KeepsChain
    <3> QED BY <3>1
  <2>3. CASE k - 1 \in this + 1 .. Len(ctxs)
    <3>1. k - 1 \in DOMAIN ctxs /\ k - 1 + 1 = k
      BY <2>3, <1>1, <1>2
    <3>2. ctxs'[k] = ctxs[k - 1]
      BY <3>1, <2>3, <1>1
    <3> QED BY <3>1, <3>2
  <2> QED BY <2>1, <2>2, <2>3, <1>1, <1>2
<1> QED BY <1>1, <1>3

LEMMA AddedAndOwnMembers ==
  ASSUME ClientInv, stack # <<>>, NEW c \in GoodContexts, NEW d \in GoodContexts,
         ctxs' = [AddRequired(this, d) EXCEPT ![this] = c]
  PROVE  /\ KeepsChain /\ ctxs'[this] = c /\ this + 1 \in DOMAIN ctxs'
         /\ \A k \in DOMAIN ctxs' : ctxs'[k] \in {c, d} \/ \E j \in DOMAIN ctxs : ctxs'[k] = ctxs[j]
<1>1. /\ KeepsChain /\ ctxs'[this] = c /\ Len(ctxs') = Len(ctxs) + 1
      /\ this + 1 \in DOMAIN ctxs' /\ ctxs'[this + 1] = d
      /\ \A k \in this + 1 .. Len(ctxs) : ctxs'[k + 1] = ctxs[k]
  BY Parts, AddedAndOwnContext
<1>2. /\ DOMAIN ctxs' = 1 .. Len(ctxs') /\ DOMAIN ctxs = 1 .. Len(ctxs) /\ this \in 1 .. Len(ctxs)
      /\ Len(ctxs) \in Nat
  BY <1>1, Parts, KeptChain, TheCall
<1>3. ASSUME NEW k \in DOMAIN ctxs'
      PROVE  ctxs'[k] \in {c, d} \/ \E j \in DOMAIN ctxs : ctxs'[k] = ctxs[j]
  <2>1. k \in 1 .. this - 1 \/ k = this \/ k = this + 1 \/ k - 1 \in this + 1 .. Len(ctxs)
    BY <1>1, <1>2
  <2>2. CASE k \in 1 .. this - 1
    <3>1. k \in DOMAIN ctxs /\ ctxs'[k] = ctxs[k]
      BY <2>2, <1>1, <1>2 DEF KeepsChain
    <3> QED BY <3>1
  <2>3. CASE k - 1 \in this + 1 .. Len(ctxs)
    <3>1. k - 1 \in DOMAIN ctxs /\ k - 1 + 1 = k
      BY <2>3, <1>1, <1>2
    <3>2. ctxs'[k] = ctxs[k - 1]
      BY <3>1, <2>3, <1>1
    <3> QED BY <3>1, <3>2
  <2> QED BY <2>1, <2>2, <2>3, <1>1
<1> QED BY <1>1, <1>3

LEMMA CutMembers ==
  ASSUME ClientInv, stack # <<>>, NEW k \in this + 1 .. Len(ctxs) + 1, ctxs' = RemoveRequired(k)
  PROVE  /\ KeepsChain /\ ctxs'[this] = Ctx
         /\ \A j \in DOMAIN ctxs' : j \in DOMAIN ctxs /\ j < k /\ ctxs'[j] = ctxs[j]
<1>1. /\ KeepsChain /\ ctxs'[this] = Ctx /\ Len(ctxs') = k - 1
      /\ \A j \in 1 .. k - 1 : ctxs'[j] = ctxs[j]
  BY Parts, CutChain
<1>2. DOMAIN ctxs' = 1 .. k - 1 /\ DOMAIN ctxs = 1 .. Len(ctxs) /\ Len(ctxs) \in Nat /\ this \in Nat
  BY <1>1, Parts, KeptChain, TheCall
<1>3. \A j \in 1 .. k - 1 : j \in 1 .. Len(ctxs) /\ j < k
  BY <1>2
<1> QED BY <1>1, <1>2, <1>3

LEMMA CutRaw ==
  ASSUME ClientInv, ServedInv, stack # <<>>, NEW k \in this + 1 .. Len(ctxs) + 1, ctxs' = RemoveRequired(k)
  PROVE  RawInv'
<1>1. \A j \in DOMAIN ctxs' : j \in DOMAIN ctxs /\ ctxs'[j] = ctxs[j]
  BY CutMembers
<1> QED BY <1>1 DEF ServedInv, RawInv

\* An error of the context, which is neither served nor done any more.
LEMMA ErredFields ==
  ASSUME NEW c \in GoodContexts, NEW code \in Codes \ {"OK"}
  PROVE  /\ Erred(c, code) \in GoodContexts /\ Erred(c, code).nodes = c.nodes
         /\ Erred(c, code).raw = c.raw /\ Erred(c, code).response = c.response
         /\ Erred(c, code).state = code /\ Erred(c, code).error = TRUE
         /\ Asking(Erred(c, code)) = Asking(c) /\ RawFirst(Erred(c, code)) = RawFirst(c)
         /\ ~Served(Erred(c, code)) /\ ~Done(Erred(c, code))
<1>1. Erred(c, code) \in GoodContexts
  BY ErredIsGood DEF Erred
<1>2. /\ Erred(c, code).nodes = c.nodes /\ Erred(c, code).raw = c.raw
      /\ Erred(c, code).response = c.response /\ Erred(c, code).error = TRUE
      /\ Erred(c, code).state = code
  BY GoodFacts DEF Erred, Contexts
<1> QED BY <1>1, <1>2 DEF Asking, RawFirst, Served, Done

\* What ErredFields says of what was asked and answered.
LEMMA ErredKnows ==
  \A c \in GoodContexts, code \in Codes \ {"OK"} :
    /\ RawFirst(c) => RawFirst(Erred(c, code))
    /\ ~Asking(c) => ~Asking(Erred(c, code))
<1> TAKE c \in GoodContexts, code \in Codes \ {"OK"}
<1>1. Asking(Erred(c, code)) = Asking(c) /\ RawFirst(Erred(c, code)) = RawFirst(c)
  BY ErredFields
<1> QED BY <1>1

LEMMA FailedMembers ==
  ASSUME ClientInv, stack # <<>>, NEW code \in Codes \ {"OK"}, ctxs' = SetError(ctxs, this, code)
  PROVE  /\ KeepsChain
         /\ \/ code = "WAITING" /\ ctxs' = ctxs
            \/ /\ Erred(Ctx, code) \in GoodContexts /\ ctxs' = [ctxs EXCEPT ![this] = Erred(Ctx, code)]
               /\ code # "WAITING"
<1>1. KeepsChain
  BY Parts, FailedChain
<1>2. ctxs \in Seq(GoodContexts) /\ this \in 1 .. Len(ctxs) /\ code \in Codes /\ Ctx = ctxs[this]
      /\ Ctx \in GoodContexts
  BY Parts, TheCall DEF ChainInv
<1>3. \/ code = "WAITING" /\ SetError(ctxs, this, code) = ctxs
      \/ code # "WAITING" /\ SetError(ctxs, this, code) = ErredAt(ctxs, this, code)
  BY <1>2, SetErrorIs
<1>4. ErredAt(ctxs, this, code) = [ctxs EXCEPT ![this] = Erred(Ctx, code)]
  BY <1>2 DEF ErredAt
<1> QED BY <1>1, <1>2, <1>3, <1>4, ErredFields

\* ctx_set_error and the return of its code.
LEMMA FailServes ==
  ASSUME ClientInv, ServedInv, stack # <<>>, NEW code \in Codes \ {"OK"}, Fail(code),
         code = "WAITING" => ~Served(Ctx)
  PROVE  ServedInv'
<1>1. ctxs' = SetError(ctxs, this, code) /\ Return(code)
  BY DEF Fail
<1>2. Ctx = ctxs[this] /\ Ctx \in GoodContexts /\ this \in DOMAIN ctxs
  BY Parts, TheCall
<1>3. CASE code = "WAITING" /\ ctxs' = ctxs
  <2>1. KeepsChain /\ RawInv'
    BY <1>3, SameRaw, SameChain, Parts
  <2> QED BY <2>1, <1>1, <1>2, <1>3, ReturnServes
<1>4. CASE Erred(Ctx, code) \in GoodContexts /\ ctxs' = [ctxs EXCEPT ![this] = Erred(Ctx, code)]
  <2>1. RawFirst(Ctx)
    BY <1>2 DEF ServedInv, RawInv
  <2>2. RawFirst(Erred(Ctx, code)) /\ ~Served(Erred(Ctx, code))
    BY <2>1, <1>2, ErredFields
  <2>3. KeepsChain /\ ctxs'[this] = Erred(Ctx, code) /\ RawInv'
    BY <1>4, <2>2, OwnMembers, OwnRaw
  <2> QED BY <2>2, <2>3, <1>1, ReturnServes
<1> QED BY <1>1, <1>3, <1>4, FailedMembers

\* What the call under way knows.
LEMMA TopKnows ==
  ASSUME ClientInv, ServedInv, stack # <<>>
  PROVE  /\ Knows(Top, ctxs, ret) /\ Unserved(Top, Ctx) /\ RawFirst(Ctx) /\ NoneDone(ctxs, this)
         /\ Ctx = ctxs[this] /\ this \in DOMAIN ctxs /\ Top.ctx = this /\ Ctx \in GoodContexts
<1>1. Len(stack) \in DOMAIN stack /\ Top = stack[Len(stack)] /\ Ctx = ctxs[Top.ctx] /\ Ctx = ctxs[this]
      /\ this \in DOMAIN ctxs /\ Top.ctx = this /\ Ctx \in GoodContexts
  BY Parts, TheCall
<1> QED BY <1>1 DEF ServedInv, UnservedInv, RawInv

-----------------------------------------------------------------------------
(* The steps.                                                              *)

LEMMA SendStartServes == ASSUME ClientInv, ServedInv, SendStart PROVE ServedInv'
<1>1. stack # <<>> /\ Top.fn = "send" /\ Call("executed", "execute", this) /\ UNCHANGED ctxs
  BY DEF SendStart, In
<1>2. KeepsChain /\ RawInv' /\ this \in DOMAIN ctxs'
  BY <1>1, Parts, SameChain, SameRaw, TheCall
<1>3. Awaits([fn |-> Top.fn, ctx |-> this, at |-> "executed", n |-> Top.n], Frame("execute", this))
  BY <1>1 DEF Awaits, Frame
<1>4. "executed" \in Places(Top.fn)
  BY <1>1 DEF Places, SendPlaces
<1>5. Unserved([fn |-> Top.fn, ctx |-> this, at |-> "executed", n |-> Top.n], ctxs'[this])
  BY <1>1 DEF Unserved
<1> QED BY <1>1, <1>2, <1>3, <1>4, <1>5, CallForServes

LEMMA SendExecutedServes == ASSUME ClientInv, ServedInv, SendExecuted PROVE ServedInv'
<1>1. stack # <<>> /\ Top.fn = "send" /\ Top.at = "executed"
  BY DEF SendExecuted, In
<1>2. Served(Ctx) => ret \in {"OK", "ERROR"}
  BY <1>1, TopKnows DEF Knows
<1>3. CASE Return(ret) /\ UNCHANGED ctxs
  <2>1. KeepsChain /\ RawInv' /\ ctxs'[this] = Ctx
    BY <1>1, <1>3, Parts, SameChain, SameRaw
  <2> QED BY <1>1, <1>2, <1>3, <2>1, ReturnServes
<1>4. CASE Fail("ERROR")
  <2>1. "ERROR" \in Codes \ {"OK"}
    BY DEF Codes
  <2> QED BY <1>1, <1>4, <2>1, FailServes
<1>5. CASE /\ ret = "WAITING"
           /\ stack' = [stack EXCEPT ![Len(stack)].n = @ + 1, ![Len(stack)].at = "required"]
           /\ UNCHANGED <<ret, ctxs>>
  <2>1. KeepsChain /\ RawInv' /\ ctxs'[this] = Ctx
    BY <1>1, <1>5, Parts, SameChain, SameRaw
  <2>2. stack' = [stack EXCEPT ![Len(stack)] = [fn |-> Top.fn, ctx |-> this, at |-> "required", n |-> Top.n + 1]]
    BY <1>1, <1>5, Parts, FrameNAt
  <2>3. "required" \in Places(Top.fn) /\ Top.n + 1 \in Nat
    <3>1. Top.n \in Nat
      BY <1>1, Parts, TopFrame
    <3> QED BY <1>1, <3>1 DEF Places, SendPlaces
  <2>4. ~Served(ctxs'[this])
    BY <1>2, <1>5, <2>1
  <2>5. Knows([fn |-> Top.fn, ctx |-> this, at |-> "required", n |-> Top.n + 1], ctxs', ret')
    BY <1>1, <2>4 DEF Knows
  <2>6. Unserved([fn |-> Top.fn, ctx |-> this, at |-> "required", n |-> Top.n + 1], ctxs'[this])
    BY <1>1 DEF Unserved
  <2> QED BY <1>1, <2>1, <2>2, <2>3, <2>5, <2>6, GotoNServes
<1> QED BY <1>3, <1>4, <1>5 DEF SendExecuted

LEMMA SendRequiredServes == ASSUME ClientInv, ServedInv, SendRequired PROVE ServedInv'
<1>1. /\ stack # <<>> /\ Top.fn = "send" /\ Top.at = "required" /\ this < Len(ctxs)
      /\ Call("sub", "send", this + 1) /\ UNCHANGED ctxs
  BY DEF SendRequired, In, RequiredPending
<1>2. KeepsChain /\ RawInv' /\ ctxs'[this] = Ctx /\ this + 1 \in DOMAIN ctxs'
  BY <1>1, Parts, SameChain, SameRaw, TheCall
<1>3. ~Done(ctxs'[this])
  BY <1>1, <1>2, TopKnows DEF Knows, Done, Served
<1>4. Awaits([fn |-> Top.fn, ctx |-> this, at |-> "sub", n |-> Top.n], Frame("send", this + 1))
  BY <1>1 DEF Awaits, Frame
<1>5. "sub" \in Places(Top.fn)
  BY <1>1 DEF Places, SendPlaces
<1>6. Unserved([fn |-> Top.fn, ctx |-> this, at |-> "sub", n |-> Top.n], ctxs'[this])
  BY <1>1 DEF Unserved
<1> QED BY <1>1, <1>2, <1>3, <1>4, <1>5, <1>6, CallForServes

LEMMA SendSubServes == ASSUME ClientInv, ServedInv, SendSub PROVE ServedInv'
<1>1. stack # <<>> /\ Top.fn = "send" /\ Top.at = "sub"
  BY DEF SendSub, In
<1>2. Awaits([fn |-> Top.fn, ctx |-> this, at |-> "rechecked", n |-> Top.n], Frame("execute", this))
  BY <1>1 DEF Awaits, Frame
<1>3. "rechecked" \in Places(Top.fn)
  BY <1>1 DEF Places, SendPlaces
<1>4. Unserved([fn |-> Top.fn, ctx |-> this, at |-> "rechecked", n |-> Top.n], ctxs'[this])
  BY <1>1 DEF Unserved
<1>5. ASSUME Call("rechecked", "execute", this), KeepsChain, RawInv' PROVE ServedInv'
  <2>1. this \in DOMAIN ctxs'
    BY <1>1, <1>5, Parts, KeptChain
  <2> QED BY <1>1, <1>2, <1>3, <1>4, <1>5, <2>1, CallForServes
<1>6. CASE ctxs' = RemoveRequired(this + 1) /\ Call("rechecked", "execute", this)
  <2>1. this + 1 \in this + 1 .. Len(ctxs) + 1
    BY <1>1, Parts, TheCall
  <2>2. KeepsChain /\ RawInv'
    BY <1>1, <1>6, <2>1, CutMembers, CutRaw
  <2> QED BY <1>5, <1>6, <2>2
<1>7. CASE UNCHANGED ctxs /\ Call("rechecked", "execute", this)
  BY <1>1, <1>5, <1>7, Parts, SameChain, SameRaw
<1>8. CASE ret = "ERROR" /\ Fail(ret)
  <2>1. "ERROR" \in Codes \ {"OK"} /\ "ERROR" # "WAITING"
    BY DEF Codes
  <2> QED BY <1>1, <1>8, <2>1, FailServes
<1> QED BY <1>6, <1>7, <1>8 DEF SendSub

LEMMA SendRecheckedServes == ASSUME ClientInv, ServedInv, SendRechecked PROVE ServedInv'
<1>1. stack # <<>> /\ Top.fn = "send" /\ Top.at = "rechecked" /\ UNCHANGED ctxs
  BY DEF SendRechecked, In
<1>2. KeepsChain /\ RawInv' /\ ctxs'[this] = Ctx
  BY <1>1, Parts, SameChain, SameRaw
<1>3. Served(Ctx) => ret \in {"OK", "ERROR"}
  BY <1>1, TopKnows DEF Knows
<1>4. CASE ret = "WAITING" /\ Goto("required")
  <2>1. ~Served(ctxs'[this])
    BY <1>2, <1>3, <1>4
  <2>2. Knows([fn |-> Top.fn, ctx |-> this, at |-> "required", n |-> Top.n], ctxs', ret)
    BY <1>1, <2>1 DEF Knows
  <2>3. Unserved([fn |-> Top.fn, ctx |-> this, at |-> "required", n |-> Top.n], ctxs'[this])
    BY <1>1 DEF Unserved
  <2>4. "required" \in Places(Top.fn)
    BY <1>1 DEF Places, SendPlaces
  <2> QED BY <1>1, <1>2, <1>4, <2>2, <2>3, <2>4, GotoServes
<1>5. CASE Return(ret)
  BY <1>1, <1>2, <1>3, <1>5, ReturnServes
<1> QED BY <1>4, <1>5 DEF SendRechecked

LEMMA AnsweredFields ==
  ASSUME ClientInv, stack # <<>>, Ctx.raw = <<>>, NEW raw \in [1 .. Len(Ctx.nodes) -> Answers(Ctx.kind)],
         RawFirst(Ctx), ctxs' = [ctxs EXCEPT ![this].raw = raw]
  PROVE  \E c \in GoodContexts :
           /\ ctxs' = [ctxs EXCEPT ![this] = c] /\ RawFirst(c)
           /\ c.nodes = Ctx.nodes /\ c.response = Ctx.response /\ c.state = Ctx.state /\ c.error = Ctx.error
           /\ ~Asking(c)
<1> DEFINE c == [Ctx EXCEPT !.raw = raw]
<1>1. Ctx \in GoodContexts /\ Ctx = ctxs[this] /\ this \in DOMAIN ctxs
  BY Parts, TheCall
<1>2. c \in GoodContexts
  BY <1>1, AnsweredIsGood
<1>3. ctxs' = [ctxs EXCEPT ![this] = c]
  BY <1>1
<1>4. /\ c.nodes = Ctx.nodes /\ c.response = Ctx.response /\ c.state = Ctx.state /\ c.error = Ctx.error
      /\ c.raw = raw
  BY <1>1, GoodFacts DEF Contexts
<1> HIDE DEF c
<1>5. RawFirst(c)
  BY <1>4 DEF RawFirst
<1>6. Ctx.nodes # <<>> => raw # <<>>
  <2>1. Ctx.nodes \in Seq(Matches)
    BY <1>1, GoodFacts
  <2>2. Len(Ctx.nodes) \in Nat /\ DOMAIN raw = 1 .. Len(Ctx.nodes)
    BY <2>1, LenProperties
  <2>3. ASSUME Ctx.nodes # <<>> PROVE 1 \in DOMAIN raw
    <3>1. Len(Ctx.nodes) # 0
      BY <2>1, <2>3, EmptySeq
    <3> QED BY <2>2, <3>1
  <2> QED BY <2>3, EmptySeq
<1> QED BY <1>2, <1>3, <1>4, <1>5, <1>6 DEF Asking

LEMMA TransportServes == ASSUME ClientInv, ServedInv, Transport PROVE ServedInv'
<1>1. stack # <<>> /\ Top.fn = "send" /\ Ctx.raw = <<>> /\ Goto("start")
  BY DEF Transport, In
<1>2. PICK raw \in [1 .. Len(Ctx.nodes) -> Answers(Ctx.kind)] : ctxs' = [ctxs EXCEPT ![this].raw = raw]
  BY DEF Transport
<1>3. RawFirst(Ctx)
  BY <1>1, TopKnows
<1>4. PICK c \in GoodContexts : ctxs' = [ctxs EXCEPT ![this] = c] /\ RawFirst(c)
  BY <1>1, <1>2, <1>3, AnsweredFields
<1>5. KeepsChain /\ RawInv'
  BY <1>1, <1>4, OwnMembers, OwnRaw
<1>6. Knows([fn |-> Top.fn, ctx |-> this, at |-> "start", n |-> Top.n], ctxs', ret)
  BY <1>1 DEF Knows
<1>7. Unserved([fn |-> Top.fn, ctx |-> this, at |-> "start", n |-> Top.n], ctxs'[this])
  BY <1>1 DEF Unserved
<1>8. "start" \in Places(Top.fn)
  BY <1>1 DEF Places, SendPlaces
<1> QED BY <1>1, <1>5, <1>6, <1>7, <1>8, GotoServes

LEMMA ExecuteStartServes == ASSUME ClientInv, ServedInv, ExecuteStart PROVE ServedInv'
<1>1. stack # <<>> /\ Top.fn = "execute" /\ Top.at = "start" /\ UNCHANGED ctxs
  BY DEF ExecuteStart, In
<1>2. KeepsChain /\ RawInv' /\ ctxs'[this] = Ctx
  BY <1>1, Parts, SameChain, SameRaw
<1>3. CASE Ctx.error /\ Return(IF Ctx.state \in {"OK", "WAITING"} THEN "ERROR" ELSE Ctx.state)
  <2> DEFINE code == IF Ctx.state \in {"OK", "WAITING"} THEN "ERROR" ELSE Ctx.state
  <2>1. Return(code) /\ code # "OK" /\ (Served(Ctx) => code = "ERROR")
    BY <1>3 DEF Served
  <2> HIDE DEF code
  <2> QED BY <1>1, <1>2, <2>1, ReturnServes
<1>4. CASE ~Ctx.error /\ Ctx.response # None /\ Ctx.state = "OK" /\ Return("OK")
  <2>1. Served(Ctx)
    BY <1>4 DEF Served
  <2> QED BY <1>1, <1>2, <1>4, <2>1, ReturnServes
<1>5. CASE /\ ~Ctx.error /\ ~(Ctx.response # None /\ Ctx.state = "OK")
           /\ IF this < Len(ctxs) THEN Call("required", "execute", this + 1) ELSE Goto("work")
  <2>1. ~Served(ctxs'[this]) /\ ~Done(ctxs'[this])
    BY <1>2, <1>5 DEF Served, Done
  <2>2. /\ Unserved([fn |-> Top.fn, ctx |-> this, at |-> "required", n |-> Top.n], ctxs'[this])
        /\ Unserved([fn |-> Top.fn, ctx |-> this, at |-> "work", n |-> Top.n], ctxs'[this])
    BY <2>1 DEF Unserved
  <2>3. "required" \in Places(Top.fn) /\ "work" \in Places(Top.fn)
    BY <1>1 DEF Places, ExecutePlaces
  <2>4. CASE this < Len(ctxs) /\ Call("required", "execute", this + 1)
    <3>1. this + 1 \in DOMAIN ctxs'
      BY <1>1, <2>4, Parts, TheCall
    <3>2. Awaits([fn |-> Top.fn, ctx |-> this, at |-> "required", n |-> Top.n], Frame("execute", this + 1))
      BY <1>1 DEF Awaits, Frame
    <3> QED BY <1>1, <1>2, <2>1, <2>2, <2>3, <2>4, <3>1, <3>2, CallForServes
  <2>5. CASE ~(this < Len(ctxs)) /\ Goto("work")
    <3>1. this + 1 \notin DOMAIN ctxs'
      BY <1>1, <2>5, Parts, TheCall
    <3>2. Knows([fn |-> Top.fn, ctx |-> this, at |-> "work", n |-> Top.n], ctxs', ret)
      BY <1>1, <3>1 DEF Knows
    <3> QED BY <1>1, <1>2, <2>2, <2>3, <2>5, <3>2, GotoServes
  <2> QED BY <1>5, <2>4, <2>5
<1> QED BY <1>3, <1>4, <1>5 DEF ExecuteStart

LEMMA ExecuteRequiredServes == ASSUME ClientInv, ServedInv, ExecuteRequired PROVE ServedInv'
<1>1. stack # <<>> /\ Top.fn = "execute" /\ Top.at = "required" /\ UNCHANGED ctxs
  BY DEF ExecuteRequired, In
<1>2. KeepsChain /\ RawInv' /\ ctxs'[this] = Ctx
  BY <1>1, Parts, SameChain, SameRaw
<1>3. ~Served(Ctx) /\ (ret = "OK" => Served(ctxs[this + 1]))
  BY <1>1, TopKnows DEF Knows, Unserved, UnservedPlaces
<1>4. CASE ret = "OK" /\ Goto("work")
  <2>1. Unserved([fn |-> Top.fn, ctx |-> this, at |-> "work", n |-> Top.n], ctxs'[this])
    BY <1>2, <1>3 DEF Unserved
  <2>2. Knows([fn |-> Top.fn, ctx |-> this, at |-> "work", n |-> Top.n], ctxs', ret)
    BY <1>1, <1>3, <1>4 DEF Knows
  <2>3. "work" \in Places(Top.fn)
    BY <1>1 DEF Places, ExecutePlaces
  <2> QED BY <1>1, <1>2, <1>4, <2>1, <2>2, <2>3, GotoServes
<1>5. CASE ret # "OK" /\ Return(ret)
  BY <1>1, <1>2, <1>3, <1>5, ReturnServes
<1> QED BY <1>4, <1>5 DEF ExecuteRequired

LEMMA ExecuteResponseServes == ASSUME ClientInv, ServedInv, ExecuteResponse PROVE ServedInv'
<1>1. stack # <<>> /\ Top.fn = "execute" /\ Top.at = "work" /\ UNCHANGED ctxs
  BY DEF ExecuteResponse, In
<1>2. KeepsChain /\ RawInv' /\ ctxs'[this] = Ctx
  BY <1>1, Parts, SameChain, SameRaw
<1>3. ~Served(Ctx)
  BY <1>1, TopKnows DEF Unserved, UnservedPlaces
<1>4. CASE Return("WAITING")
  BY <1>1, <1>2, <1>3, <1>4, ReturnServes
<1>5. CASE stack' = [stack EXCEPT ![Len(stack)].at = "verify", ![Len(stack)].n = 1]
  <2>1. stack' = [stack EXCEPT ![Len(stack)] = [fn |-> Top.fn, ctx |-> this, at |-> "verify", n |-> 1]]
    BY <1>1, <1>5, Parts, FrameAtN
  <2>2. "verify" \in Places(Top.fn) /\ 1 \in Nat
    BY <1>1 DEF Places, ExecutePlaces
  <2>3. Knows([fn |-> Top.fn, ctx |-> this, at |-> "verify", n |-> 1], ctxs', ret')
    BY <1>1 DEF Knows
  <2>4. Unserved([fn |-> Top.fn, ctx |-> this, at |-> "verify", n |-> 1], ctxs'[this])
    BY DEF Unserved, UnservedPlaces
  <2> QED BY <1>1, <1>2, <2>1, <2>2, <2>3, <2>4, GotoNServes
<1> QED BY <1>4, <1>5 DEF ExecuteResponse

\* With the chain as it is the call goes on with the list or with the nodes.
LEMMA OnServes ==
  ASSUME ClientInv, ServedInv, stack # <<>>, Top.fn = "execute", Top.at \in UnservedPlaces,
         NEW at \in {"whitelist", "pick"}, Goto(at), KeepsChain, RawInv', ctxs'[this] = Ctx,
         this + 1 \in DOMAIN ctxs' => Served(ctxs'[this + 1])
  PROVE  ServedInv'
<1>1. ~Served(ctxs'[this])
  BY TopKnows DEF Unserved
<1>2. Unserved([fn |-> Top.fn, ctx |-> this, at |-> at, n |-> Top.n], ctxs'[this])
  BY <1>1 DEF Unserved
<1>3. Knows([fn |-> Top.fn, ctx |-> this, at |-> at, n |-> Top.n], ctxs', ret)
  BY DEF Knows
<1>4. at \in Places(Top.fn)
  BY DEF Places, ExecutePlaces
<1> QED BY <1>2, <1>3, <1>4, GotoServes

LEMMA SameOnServes ==
  ASSUME ClientInv, ServedInv, stack # <<>>, Top.fn = "execute", UNCHANGED ctxs,
         \/ Top.at \in {"work", "whitelist"}
         \/ Top.at \in {"listed", "whitelisted"} /\ ret = "OK",
         NEW at \in {"whitelist", "pick"}, Goto(at)
  PROVE  ServedInv'
<1>1. KeepsChain /\ RawInv' /\ ctxs'[this] = Ctx
  BY Parts, SameChain, SameRaw
<1>2. this + 1 \in DOMAIN ctxs' => Served(ctxs'[this + 1])
  BY TopKnows DEF Knows
<1>3. Top.at \in UnservedPlaces
  BY DEF UnservedPlaces
<1> QED BY <1>1, <1>2, <1>3, OnServes

\* A new request is made, and the call waits for it.
LEMMA RequestServes ==
  ASSUME ClientInv, ServedInv, stack # <<>>, Top.fn = "execute", Top.at \in {"work", "whitelist"},
         NEW at \in {"listed", "whitelisted"}, NEW kind \in Kinds, NEW dataNode \in Nodes \cup {None},
         ctxs' = AddRequired(this, NewCtx(kind, dataNode, 0, 0)), Call(at, "execute", this + 1)
  PROVE  ServedInv'
<1> DEFINE d == NewCtx(kind, dataNode, 0, 0)
<1>1. d \in GoodContexts
  <2>1. 0 \in Nat
    OBVIOUS
  <2> QED BY <2>1, NewIsGood
<1>2. RawFirst(d)
  BY DEF RawFirst, NewCtx
<1>3. ctxs' = AddRequired(this, d)
  OBVIOUS
<1> HIDE DEF d
<1>4. /\ KeepsChain /\ ctxs'[this] = Ctx /\ this + 1 \in DOMAIN ctxs'
      /\ \A k \in DOMAIN ctxs' : ctxs'[k] = d \/ \E j \in DOMAIN ctxs : ctxs'[k] = ctxs[j]
  BY <1>1, <1>3, AddedMembers
<1>5. RawInv'
  BY <1>2, <1>4 DEF ServedInv, RawInv
<1>6. ~Served(ctxs'[this]) /\ ~Done(ctxs'[this])
  BY <1>4, TopKnows DEF Unserved, UnservedPlaces, Served, Done
<1>7. at \in Places(Top.fn)
  BY DEF Places, ExecutePlaces
<1>8. Unserved([fn |-> Top.fn, ctx |-> this, at |-> at, n |-> Top.n], ctxs'[this])
  BY <1>6 DEF Unserved
<1>9. Awaits([fn |-> Top.fn, ctx |-> this, at |-> at, n |-> Top.n], Frame("execute", this + 1))
  BY DEF Awaits, Frame
<1> QED BY <1>4, <1>5, <1>6, <1>7, <1>8, <1>9, CallForServes

LEMMA NoUpdateServes == ASSUME ClientInv, ServedInv, NoUpdate PROVE ServedInv'
<1>1. stack # <<>> /\ Top.fn = "execute" /\ Top.at = "work" /\ UNCHANGED ctxs /\ Goto("whitelist")
  BY DEF NoUpdate, Listing, In
<1> QED BY <1>1, SameOnServes

LEMMA RequestListServes == ASSUME ClientInv, ServedInv, RequestList PROVE ServedInv'
<1> DEFINE dataNode == IF upd8 # None /\ upd8.exp # 0 THEN upd8.node ELSE None
<1>1. /\ stack # <<>> /\ Top.fn = "execute" /\ Top.at = "work" /\ Call("listed", "execute", this + 1)
      /\ ctxs' = AddRequired(this, NewCtx("in3_nodeList", dataNode, 0, 0))
  BY DEF RequestList, Listing, In
<1>2. dataNode \in Nodes \cup {None} /\ "in3_nodeList" \in Kinds
  <2>1. upd8 # None => upd8.node \in Nodes \cup {None}
    BY Parts DEF ListType, Updates
  <2> QED BY <2>1 DEF Kinds
<1> HIDE DEF dataNode
<1> QED BY <1>1, <1>2, RequestServes

LEMMA ListRequestedServes == ASSUME ClientInv, ServedInv, ListRequested PROVE ServedInv'
<1>1. stack # <<>> /\ Top.fn = "execute" /\ Top.at = "listed"
  BY DEF ListRequested, In
<1>2. CASE ret = "OK" /\ Goto("whitelist") /\ UNCHANGED ctxs
  BY <1>1, <1>2, SameOnServes
<1>3. CASE ret # "OK" /\ Fail(ret)
  <2>1. ret \in Codes \ {"OK"} /\ ~Served(Ctx)
    BY <1>1, <1>3, Parts, TopKnows DEF Unserved, UnservedPlaces
  <2> QED BY <1>1, <1>3, <2>1, FailServes
<1> QED BY <1>2, <1>3 DEF ListRequested

LEMMA ListFailedServes == ASSUME ClientInv, ServedInv, ListFailed PROVE ServedInv'
<1>1. stack # <<>> /\ Top.fn = "execute" /\ Top.at = "work" /\ UNCHANGED ctxs /\ Goto("whitelist")
  BY DEF ListFailed, Listing, In
<1> QED BY <1>1, SameOnServes

\* The result of a request is taken and the request freed.
LEMMA TakenServes ==
  ASSUME ClientInv, ServedInv, stack # <<>>, Top.fn = "execute", Top.at \in {"work", "whitelist"},
         NEW k \in this + 1 .. Len(ctxs), ctxs' = RemoveRequired(k),
         NEW at \in {"whitelist", "pick"}, Goto(at)
  PROVE  ServedInv'
<1>1. k \in this + 1 .. Len(ctxs) + 1
  BY Parts, TheCall
<1>2. /\ KeepsChain /\ RawInv' /\ ctxs'[this] = Ctx
      /\ \A j \in DOMAIN ctxs' : j \in DOMAIN ctxs /\ ctxs'[j] = ctxs[j]
  BY <1>1, CutMembers, CutRaw
<1>3. this + 1 \in DOMAIN ctxs' => Served(ctxs'[this + 1])
  BY <1>2, TopKnows DEF Knows
<1>4. Top.at \in UnservedPlaces
  BY DEF UnservedPlaces
<1> QED BY <1>2, <1>3, <1>4, OnServes

\* A list with a bad entry is an error of its request and of the one that requires it.
LEMMA BothErredMembers ==
  ASSUME ClientInv, stack # <<>>, NEW k \in this + 1 .. Len(ctxs),
         ctxs' = SetError(SetError(ctxs, k, "ERROR"), this, "ERROR")
  PROVE  /\ KeepsChain /\ DOMAIN ctxs' = DOMAIN ctxs
         /\ \A j \in DOMAIN ctxs' : ctxs'[j] = ctxs[j] \/ ctxs'[j] = Erred(ctxs[j], "ERROR")
         /\ ctxs'[this] = Erred(Ctx, "ERROR") /\ ctxs'[k] = Erred(ctxs[k], "ERROR")
<1> DEFINE cs == SetError(ctxs, k, "ERROR")
<1>1. /\ this \in 1 .. Len(ctxs) /\ k \in 1 .. Len(ctxs) /\ k # this /\ Ctx = ctxs[this]
      /\ ctxs \in Seq(GoodContexts) /\ DOMAIN ctxs = 1 .. Len(ctxs)
  BY Parts, TheCall DEF ChainInv
<1>2. /\ cs \in Seq(GoodContexts) /\ Len(cs) = Len(ctxs) /\ cs[k] = Erred(ctxs[k], "ERROR")
      /\ \A j \in 1 .. Len(ctxs) : j # k => cs[j] = ctxs[j]
  BY <1>1, ErredChain
<1>3. ctxs' = SetError(cs, this, "ERROR")
  OBVIOUS
<1> HIDE DEF cs
<1>4. this \in 1 .. Len(cs)
  BY <1>1, <1>2
<1>5. /\ Len(ctxs') = Len(cs) /\ ctxs'[this] = Erred(cs[this], "ERROR")
      /\ \A j \in 1 .. Len(cs) : j # this => ctxs'[j] = cs[j]
  BY <1>2, <1>3, <1>4, ErredChain
<1>6. KeepsChain /\ DOMAIN ctxs' = 1 .. Len(ctxs')
  BY Parts, BothErred, KeptChain
<1> QED BY <1>1, <1>2, <1>5, <1>6

LEMMA ListArrivedServes == ASSUME ClientInv, ServedInv, ListArrived PROVE ServedInv'
<1> DEFINE k == ListRequest
<1>1. /\ stack # <<>> /\ Top.fn = "execute" /\ Top.at = "work" /\ k # 0
      /\ \/ Return("ERROR") /\ ctxs' = SetError(SetError(ctxs, k, "ERROR"), this, "ERROR")
         \/ Goto("whitelist") /\ ctxs' = RemoveRequired(k)
  BY DEF ListArrived, Listing, In
<1>2. k \in this + 1 .. Len(ctxs)
  BY <1>1, Parts, FoundRequired DEF ListRequest
<1> HIDE DEF k
<1>3. CASE Goto("whitelist") /\ ctxs' = RemoveRequired(k)
  BY <1>1, <1>2, <1>3, TakenServes
<1>4. CASE Return("ERROR") /\ ctxs' = SetError(SetError(ctxs, k, "ERROR"), this, "ERROR")
  <2>1. /\ KeepsChain /\ DOMAIN ctxs' = DOMAIN ctxs
        /\ \A j \in DOMAIN ctxs' : ctxs'[j] = ctxs[j] \/ ctxs'[j] = Erred(ctxs[j], "ERROR")
    BY <1>1, <1>2, <1>4, BothErredMembers
  <2>2. RawInv'
    <3>1. "ERROR" \in Codes \ {"OK"}
      BY DEF Codes
    <3>2. ASSUME NEW j \in DOMAIN ctxs' PROVE RawFirst(ctxs'[j])
      <4>1. j \in DOMAIN ctxs /\ ctxs[j] \in GoodContexts /\ RawFirst(ctxs[j])
        <5>1. ctxs \in Seq(GoodContexts)
          BY Parts DEF ChainInv
        <5> QED BY <2>1, <5>1, ElementOfSeq, LenProperties DEF ServedInv, RawInv
      <4>2. RawFirst(Erred(ctxs[j], "ERROR"))
        BY <3>1, <4>1, ErredKnows, Zenon
      <4>3. ctxs'[j] = ctxs[j] \/ ctxs'[j] = Erred(ctxs[j], "ERROR")
        BY <2>1, Zenon
      <4> QED BY <4>1, <4>2, <4>3
    <3> QED BY <3>2 DEF RawInv
  <2> QED BY <1>1, <1>4, <2>1, <2>2, ReturnServes
<1> QED BY <1>1, <1>3, <1>4

LEMMA NoWhitelistingServes == ASSUME ClientInv, ServedInv, NoWhitelisting PROVE ServedInv'
<1>1. stack # <<>> /\ Top.fn = "execute" /\ Top.at = "whitelist" /\ UNCHANGED ctxs /\ Goto("pick")
  BY DEF NoWhitelisting, AtWhitelist, In
<1> QED BY <1>1, SameOnServes

LEMMA RequestWhitelistServes == ASSUME ClientInv, ServedInv, RequestWhitelist PROVE ServedInv'
<1>1. /\ stack # <<>> /\ Top.fn = "execute" /\ Top.at = "whitelist"
      /\ Call("whitelisted", "execute", this + 1)
      /\ ctxs' = AddRequired(this, NewCtx("in3_whiteList", None, 0, 0))
  BY DEF RequestWhitelist, AtWhitelist, In
<1>2. "in3_whiteList" \in Kinds
  BY DEF Kinds
<1> QED BY <1>1, <1>2, RequestServes

LEMMA WhitelistRequestedServes == ASSUME ClientInv, ServedInv, WhitelistRequested PROVE ServedInv'
<1>1. stack # <<>> /\ Top.fn = "execute" /\ Top.at = "whitelisted"
  BY DEF WhitelistRequested, In
<1>2. CASE ret = "OK" /\ Goto("pick") /\ UNCHANGED ctxs
  BY <1>1, <1>2, SameOnServes
<1>3. CASE ret # "OK" /\ Fail(ret)
  <2>1. ret \in Codes \ {"OK"} /\ ~Served(Ctx)
    BY <1>1, <1>3, Parts, TopKnows DEF Unserved, UnservedPlaces
  <2> QED BY <1>1, <1>3, <2>1, FailServes
<1> QED BY <1>2, <1>3 DEF WhitelistRequested

LEMMA WhitelistArrivedServes == ASSUME ClientInv, ServedInv, WhitelistArrived PROVE ServedInv'
<1> DEFINE k == WhiteRequest
<1>1. /\ stack # <<>> /\ Top.fn = "execute" /\ Top.at = "whitelist" /\ k # 0
      /\ \/ Fail("ERROR")
         \/ Goto("pick") /\ ctxs' = RemoveRequired(k)
  BY DEF WhitelistArrived, AtWhitelist, In
<1>2. k \in this + 1 .. Len(ctxs)
  BY <1>1, Parts, FoundRequired DEF WhiteRequest
<1> HIDE DEF k
<1>3. CASE Goto("pick") /\ ctxs' = RemoveRequired(k)
  BY <1>1, <1>2, <1>3, TakenServes
<1>4. CASE Fail("ERROR")
  <2>1. "ERROR" \in Codes \ {"OK"} /\ "ERROR" # "WAITING"
    BY DEF Codes
  <2> QED BY <1>1, <1>4, <2>1, FailServes
<1> QED BY <1>1, <1>3, <1>4

\* What was picked.
LEMMA PickedFields ==
  ASSUME ClientInv, stack # <<>>, Top.fn = "execute", Top.at = "pick",
         NEW usable, usable \subseteq Listed, NEW s \in Picks(usable),
         ctxs' = [ctxs EXCEPT ![this].nodes =
                    [k \in DOMAIN s |-> [addr |-> s[k], of |-> version, ok |-> TRUE]]]
  PROVE  \E c \in GoodContexts :
           /\ ctxs' = [ctxs EXCEPT ![this] = c]
           /\ c.nodes = Picked(s) /\ c.raw = <<>> /\ c.response = Ctx.response
           /\ c.state = Ctx.state /\ c.error = Ctx.error
<1> DEFINE picked == Picked(s)
           c == [Ctx EXCEPT !.nodes = picked]
<1>1. picked \in Seq(Matches) /\ \A k \in DOMAIN picked : picked[k].ok = TRUE
  BY Parts, SomePicked
<1>2. this \in DOMAIN ctxs /\ Ctx = ctxs[this] /\ Ctx \in GoodContexts /\ Ctx.raw = <<>>
  BY Parts, TheCall, WorkFrame
<1>3. ctxs' = [ctxs EXCEPT ![this].nodes = picked]
  BY DEF Picked
<1> HIDE DEF picked
<1>4. ctxs' = [ctxs EXCEPT ![this] = c]
  BY <1>2, <1>3
<1>5. c \in GoodContexts
  BY <1>1, <1>2, PickedIsGood
<1>6. /\ c.nodes = picked /\ c.raw = <<>> /\ c.response = Ctx.response
      /\ c.state = Ctx.state /\ c.error = Ctx.error
  BY <1>2, GoodFacts DEF Contexts
<1> QED BY <1>4, <1>5, <1>6 DEF picked

LEMMA PickNodesServes == ASSUME ClientInv, ServedInv, PickNodes PROVE ServedInv'
<1> DEFINE usable == Usable(until', Ctx.dataNode)
<1>1. /\ stack # <<>> /\ Top.fn = "execute" /\ Top.at = "pick" /\ usable \subseteq Listed
      /\ \/ Fail("ERROR")
         \/ \E s \in Picks(usable) :
              /\ ctxs' = [ctxs EXCEPT ![this].nodes =
                   [k \in DOMAIN s |-> [addr |-> s[k], of |-> version, ok |-> TRUE]]]
              /\ Return("WAITING")
  BY DEF PickNodes, In, Usable
<1> HIDE DEF usable
<1>2. CASE Fail("ERROR")
  <2>1. "ERROR" \in Codes \ {"OK"} /\ "ERROR" # "WAITING"
    BY DEF Codes
  <2> QED BY <1>1, <1>2, <2>1, FailServes
<1>3. ASSUME NEW s \in Picks(usable), Return("WAITING"),
             ctxs' = [ctxs EXCEPT ![this].nodes =
                        [k \in DOMAIN s |-> [addr |-> s[k], of |-> version, ok |-> TRUE]]]
      PROVE  ServedInv'
  <2>1. PICK c \in GoodContexts : /\ ctxs' = [ctxs EXCEPT ![this] = c]
                                  /\ c.raw = <<>> /\ c.response = Ctx.response
                                  /\ c.state = Ctx.state /\ c.error = Ctx.error
    BY <1>1, <1>3, PickedFields
  <2>2. ~Served(Ctx) /\ RawFirst(Ctx) /\ Ctx.raw = <<>>
    BY <1>1, TopKnows, WorkFrame DEF Unserved, UnservedPlaces
  <2>3. ~Served(c) /\ RawFirst(c)
    BY <2>1, <2>2 DEF Served, RawFirst
  <2>4. KeepsChain /\ ctxs'[this] = c /\ RawInv'
    BY <1>1, <2>1, <2>3, OwnMembers, OwnRaw
  <2> QED BY <1>1, <1>3, <2>3, <2>4, ReturnServes
<1> QED BY <1>1, <1>2, <1>3

-----------------------------------------------------------------------------
(* find_valid_result: there are responses, and nothing is known yet.       *)

LEMMA NextServes ==
  ASSUME ClientInv, ServedInv, stack # <<>>, Top.fn = "execute",
         NEW d \in GoodContexts, d.raw # <<>>, ctxs' = [ctxs EXCEPT ![this] = d], NextNode
  PROVE  ServedInv'
<1>1. RawFirst(d)
  BY DEF RawFirst
<1>2. KeepsChain /\ RawInv'
  BY <1>1, OwnMembers, OwnRaw
<1>3. stack' = [stack EXCEPT ![Len(stack)] = [fn |-> Top.fn, ctx |-> this, at |-> "verify", n |-> Top.n + 1]]
  BY Parts, FrameNAt DEF NextNode
<1>4. Top.n + 1 \in Nat
  <2>1. Top.n \in Nat
    BY Parts, TopFrame
  <2> QED BY <2>1
<1>5. "verify" \in Places(Top.fn)
  BY DEF Places, ExecutePlaces
<1>6. Knows([fn |-> Top.fn, ctx |-> this, at |-> "verify", n |-> Top.n + 1], ctxs', ret')
  BY DEF Knows
<1>7. Unserved([fn |-> Top.fn, ctx |-> this, at |-> "verify", n |-> Top.n + 1], ctxs'[this])
  BY DEF Unserved, UnservedPlaces
<1> QED BY <1>2, <1>3, <1>4, <1>5, <1>6, <1>7, GotoNServes

\* The context while its responses are looked at: it keeps them, and who is to answer.
LEMMA LookedAt ==
  ASSUME ClientInv, RejectUnparsed \/ RejectError \/ RejectWrong
  PROVE  /\ stack # <<>> /\ Top.fn = "execute" /\ Top.at = "verify" /\ NextNode
         /\ \E d \in GoodContexts : ctxs' = [ctxs EXCEPT ![this] = d] /\ d.raw = Ctx.raw /\ d.raw # <<>>
<1>1. Looking /\ Top.at = "verify" /\ NextNode
  BY VerifyingLooks DEF RejectUnparsed, RejectError, RejectWrong
<1>2. /\ stack # <<>> /\ Top.fn = "execute" /\ Ctx.raw # <<>> /\ this \in DOMAIN ctxs /\ Ctx = ctxs[this]
      /\ Ctx \in Contexts /\ Top.n \in DOMAIN Ctx.nodes /\ ctxs \in Seq(GoodContexts)
  BY <1>1, VerifyFacts, GoodFacts, Parts DEF ChainInv
<1>3. ClientInv'
  BY RejectUnparsedKeeps, RejectErrorKeeps, RejectWrongKeeps
<1>4. ASSUME NEW d, d.raw = Ctx.raw, ctxs' = [ctxs EXCEPT ![this] = d]
      PROVE  \E e \in GoodContexts : ctxs' = [ctxs EXCEPT ![this] = e] /\ e.raw = Ctx.raw /\ e.raw # <<>>
  <2>1. ctxs'[this] = d /\ this \in DOMAIN ctxs'
    BY <1>2, <1>4
  <2>2. ctxs' \in Seq(GoodContexts)
    BY <1>3 DEF ClientInv, ChainInv
  <2>3. d \in GoodContexts
    BY <2>1, <2>2, ElementOfSeq, LenProperties
  <2> QED BY <1>2, <1>4, <2>3
<1>5. /\ Reject(Ctx) \in Contexts /\ Reject(Ctx).raw = Ctx.raw
      /\ Reject(Parsed(Ctx)) \in Contexts /\ Reject(Parsed(Ctx)).raw = Ctx.raw
  BY <1>1, <1>2, RejectFields, RejectedFields
<1>6. CASE RejectUnparsed
  <2> DEFINE c == Reject(Ctx)
             d == IF Response.quality = "failed" THEN c
                  ELSE [c EXCEPT !.response = None, !.error = TRUE, !.state = "ERROR"]
  <2>1. ctxs' = [ctxs EXCEPT ![this] = d]
    BY <1>6 DEF RejectUnparsed
  <2> HIDE DEF c
  <2>2. d.raw = Ctx.raw
    BY <1>5 DEF Contexts, c
  <2> HIDE DEF d
  <2> QED BY <1>1, <1>2, <1>4, <2>1, <2>2
<1>7. CASE RejectError
  <2> DEFINE c == Reject(Parsed(Ctx))
             d == [c EXCEPT !.state = "ERROR"]
  <2>1. ctxs' = [ctxs EXCEPT ![this] = d]
    BY <1>7 DEF RejectError
  <2> HIDE DEF c
  <2>2. d.raw = Ctx.raw
    BY <1>5 DEF Contexts, c
  <2> HIDE DEF d
  <2> QED BY <1>1, <1>2, <1>4, <2>1, <2>2
<1>8. CASE RejectWrong
  <2> DEFINE c == Reject(Parsed(Ctx))
             d == [c EXCEPT !.error = TRUE, !.state = "ERROR"]
  <2>1. ctxs' = [ctxs EXCEPT ![this] = d]
    BY <1>8 DEF RejectWrong
  <2> HIDE DEF c
  <2>2. d.raw = Ctx.raw
    BY <1>5 DEF Contexts, c
  <2> HIDE DEF d
  <2> QED BY <1>1, <1>2, <1>4, <2>1, <2>2
<1> QED BY <1>6, <1>7, <1>8

LEMMA RejectServes ==
  ASSUME ClientInv, ServedInv, RejectUnparsed \/ RejectError \/ RejectWrong PROVE ServedInv'
<1>1. stack # <<>> /\ Top.fn = "execute" /\ NextNode
  BY LookedAt
<1>2. PICK d \in GoodContexts : ctxs' = [ctxs EXCEPT ![this] = d] /\ d.raw # <<>>
  BY LookedAt
<1> QED BY <1>1, <1>2, NextServes

LEMMA OwnIsGood ==
  ASSUME ClientInv, ClientInv', stack # <<>>, NEW d, ctxs' = [ctxs EXCEPT ![this] = d]
  PROVE  d \in GoodContexts /\ this \in DOMAIN ctxs /\ Ctx = ctxs[this] /\ Ctx \in GoodContexts /\ Ctx \in Contexts
<1>1. this \in DOMAIN ctxs /\ Ctx = ctxs[this] /\ Ctx \in GoodContexts /\ Ctx \in Contexts
  BY Parts, TheCall, GoodFacts
<1>2. ctxs'[this] = d /\ this \in DOMAIN ctxs'
  BY <1>1
<1>3. ctxs' \in Seq(GoodContexts)
  BY DEF ClientInv, ChainInv
<1> QED BY <1>1, <1>2, <1>3, ElementOfSeq, LenProperties

\* The code asked for: the response stays, and is not accepted yet.
LEMMA CodeAskedFor ==
  ASSUME ClientInv, RequestCode
  PROVE  /\ stack # <<>> /\ Top.fn = "execute" /\ Top.at = "verify" /\ Call("verifying", "execute", this + 1)
         /\ \E c \in GoodContexts, d \in GoodContexts :
              /\ ctxs' = [AddRequired(this, d) EXCEPT ![this] = c]
              /\ c.raw = Ctx.raw /\ c.raw # <<>> /\ c.state # "OK"
              /\ d.nodes = <<>> /\ d.response = None
<1> DEFINE d == NewCtx("getCode", None, Ctx.needs, 0)
           c == Parsed(Ctx)
<1>1. /\ Looking /\ Top.at = "verify" /\ Ctx.needs > 0
      /\ ctxs' = [AddRequired(this, d) EXCEPT ![this] = c]
      /\ Call("verifying", "execute", this + 1)
  BY VerifyingLooks DEF RequestCode, NeedsCode
<1>2. /\ stack # <<>> /\ Top.fn = "execute" /\ Ctx \in GoodContexts /\ Ctx.needs \in Nat /\ Ctx \in Contexts
      /\ Response \in Replies /\ Ctx.state # "OK" /\ Response \in Answers(Ctx.kind)
      /\ Ctx.raw # <<>> /\ Ctx.attempt < MaxAttempts
  BY <1>1, VerifyFacts, GoodFacts
<1>3. /\ c \in Contexts /\ c.response = Response
      /\ c.kind = Ctx.kind /\ c.needs = Ctx.needs /\ c.attempt = Ctx.attempt
      /\ c.raw = Ctx.raw /\ c.nodes = Ctx.nodes /\ c.error = Ctx.error /\ c.state = Ctx.state
  BY <1>2, ParsedFields
<1>4. d \in GoodContexts
  <2>1. None \in Nodes \cup {None} /\ "getCode" \in Kinds /\ 0 \in Nat
    BY DEF Kinds
  <2> QED BY <2>1, <1>2, NewIsGood
<1>5. d.nodes = <<>> /\ d.response = None
  BY DEF NewCtx
<1> HIDE DEF c, d
<1>6. c \in GoodContexts
  BY <1>2, <1>3, UnsettledIsGood
<1> QED BY <1>1, <1>2, <1>3, <1>4, <1>5, <1>6

LEMMA RequestCodeServes == ASSUME ClientInv, ServedInv, RequestCode PROVE ServedInv'
<1>1. stack # <<>> /\ Top.fn = "execute" /\ Top.at = "verify" /\ Call("verifying", "execute", this + 1)
  BY CodeAskedFor
<1>2. PICK c \in GoodContexts, d \in GoodContexts :
        /\ ctxs' = [AddRequired(this, d) EXCEPT ![this] = c]
        /\ c.raw # <<>> /\ c.state # "OK" /\ d.response = None
  BY CodeAskedFor
<1>3. /\ KeepsChain /\ ctxs'[this] = c /\ this + 1 \in DOMAIN ctxs'
      /\ \A k \in DOMAIN ctxs' : ctxs'[k] \in {c, d} \/ \E j \in DOMAIN ctxs : ctxs'[k] = ctxs[j]
  BY <1>1, <1>2, AddedAndOwnMembers
<1>4. RawFirst(c) /\ RawFirst(d) /\ ~Done(c)
  BY <1>2 DEF RawFirst, Done
<1>5. RawInv'
  BY <1>3, <1>4 DEF ServedInv, RawInv
<1>6. "verifying" \in Places(Top.fn)
  BY <1>1 DEF Places, ExecutePlaces
<1>7. Unserved([fn |-> Top.fn, ctx |-> this, at |-> "verifying", n |-> Top.n], ctxs'[this])
  BY DEF Unserved, UnservedPlaces
<1>8. Awaits([fn |-> Top.fn, ctx |-> this, at |-> "verifying", n |-> Top.n], Frame("execute", this + 1))
  BY <1>1 DEF Awaits, Frame
<1> QED BY <1>1, <1>3, <1>4, <1>5, <1>6, <1>7, <1>8, CallForServes

\* The verification waits for a code, or there is none.
LEMMA CodeAnswered ==
  ASSUME ClientInv, CodeRequested
  PROVE  /\ stack # <<>> /\ Top.fn = "execute" /\ Top.at = "verifying"
         /\ \E d \in GoodContexts :
              /\ ctxs' = [ctxs EXCEPT ![this] = d] /\ d.raw = Ctx.raw /\ d.raw # <<>>
              /\ \/ ret = "WAITING" /\ Return(ret) /\ d.state = "WAITING" /\ until' = until
                 \/ ret # "WAITING" /\ NextNode
<1>1. stack # <<>> /\ Top.fn = "execute" /\ Top.at = "verifying"
  BY DEF CodeRequested, In
<1>2. Looking
  BY <1>1, WorkFrame DEF Looking
<1>3. Ctx.raw # <<>> /\ Ctx = ctxs[this] /\ this \in DOMAIN ctxs /\ Ctx \in Contexts
  BY <1>2, VerifyFacts, GoodFacts
<1>4. ClientInv'
  BY CodeRequestedKeeps
<1>5. CASE ret = "WAITING" /\ Return(ret) /\ ctxs' = [ctxs EXCEPT ![this].state = "WAITING"] /\ until' = until
  <2> DEFINE d == [Ctx EXCEPT !.state = "WAITING"]
  <2>1. ctxs' = [ctxs EXCEPT ![this] = d]
    BY <1>3, <1>5
  <2>2. d.raw = Ctx.raw /\ d.state = "WAITING"
    BY <1>3 DEF Contexts
  <2> HIDE DEF d
  <2>3. d \in GoodContexts
    BY <1>1, <1>4, <2>1, OwnIsGood
  <2> QED BY <1>1, <1>3, <1>5, <2>1, <2>2, <2>3
<1>6. CASE ret # "WAITING" /\ NextNode /\ ctxs' = [ctxs EXCEPT ![this] = CodeRejected]
  <2>1. CodeRejected.raw = Ctx.raw
    BY <1>2, RejectedFields DEF CodeRejected, Contexts
  <2>2. CodeRejected \in GoodContexts
    BY <1>1, <1>4, <1>6, OwnIsGood
  <2> QED BY <1>1, <1>3, <1>6, <2>1, <2>2
<1> QED BY <1>5, <1>6 DEF CodeRequested

LEMMA CodeRequestedServes == ASSUME ClientInv, ServedInv, CodeRequested PROVE ServedInv'
<1>1. stack # <<>> /\ Top.fn = "execute"
  BY CodeAnswered
<1>2. PICK d \in GoodContexts :
        /\ ctxs' = [ctxs EXCEPT ![this] = d] /\ d.raw # <<>>
        /\ \/ ret = "WAITING" /\ Return(ret) /\ d.state = "WAITING"
           \/ ret # "WAITING" /\ NextNode
  BY CodeAnswered
<1>3. CASE NextNode
  BY <1>1, <1>2, <1>3, NextServes
<1>4. CASE Return("WAITING") /\ d.state = "WAITING"
  <2>1. RawFirst(d) /\ ~Served(d)
    BY <1>2, <1>4 DEF RawFirst, Served
  <2>2. KeepsChain /\ ctxs'[this] = d /\ RawInv'
    BY <1>1, <1>2, <2>1, OwnMembers, OwnRaw
  <2> QED BY <1>1, <1>4, <2>1, <2>2, ReturnServes
<1> QED BY <1>2, <1>3, <1>4

LEMMA CodeTaken ==
  ASSUME ClientInv, TakeCode
  PROVE  /\ stack # <<>> /\ Top.fn = "execute" /\ Top.at = "verify"
         /\ \E d \in GoodContexts :
              /\ ctxs' = [ctxs EXCEPT ![this] = d] /\ d.raw = Ctx.raw /\ d.raw # <<>>
              /\ UNCHANGED <<stack, ret>> \/ NextNode
<1>1. Looking /\ Top.at = "verify"
  BY VerifyingLooks DEF TakeCode, NeedsCode
<1>2. /\ stack # <<>> /\ Top.fn = "execute" /\ Ctx.raw # <<>> /\ Ctx = ctxs[this] /\ this \in DOMAIN ctxs
      /\ Ctx \in Contexts
  BY <1>1, VerifyFacts, GoodFacts
<1>3. ClientInv'
  BY TakeCodeKeeps
<1>4. CASE ctxs' = [ctxs EXCEPT ![this].needs = @ - 1] /\ UNCHANGED <<stack, ret>>
  <2> DEFINE d == [Ctx EXCEPT !.needs = Ctx.needs - 1]
  <2>1. ctxs' = [ctxs EXCEPT ![this] = d]
    BY <1>2, <1>4
  <2>2. d.raw = Ctx.raw
    BY <1>2 DEF Contexts
  <2> HIDE DEF d
  <2>3. d \in GoodContexts
    BY <1>2, <1>3, <2>1, OwnIsGood
  <2> QED BY <1>1, <1>2, <1>4, <2>1, <2>2, <2>3
<1>5. CASE ctxs' = [ctxs EXCEPT ![this] = CodeRejected] /\ NextNode
  <2>1. CodeRejected.raw = Ctx.raw
    BY <1>1, RejectedFields DEF CodeRejected, Contexts
  <2>2. CodeRejected \in GoodContexts
    BY <1>2, <1>3, <1>5, OwnIsGood
  <2> QED BY <1>1, <1>2, <1>5, <2>1, <2>2
<1> QED BY <1>4, <1>5 DEF TakeCode

LEMMA TakeCodeServes == ASSUME ClientInv, ServedInv, TakeCode PROVE ServedInv'
<1>1. stack # <<>> /\ Top.fn = "execute" /\ Top.at = "verify"
  BY CodeTaken
<1>2. PICK d \in GoodContexts :
        ctxs' = [ctxs EXCEPT ![this] = d] /\ d.raw # <<>> /\ (UNCHANGED <<stack, ret>> \/ NextNode)
  BY CodeTaken
<1>3. CASE NextNode
  BY <1>1, <1>2, <1>3, NextServes
<1>4. CASE UNCHANGED <<stack, ret>>
  <2>1. RawFirst(d)
    BY <1>2 DEF RawFirst
  <2>2. KeepsChain /\ RawInv'
    BY <1>1, <1>2, <2>1, OwnMembers, OwnRaw
  <2>3. stack' = [stack EXCEPT ![Len(stack)] = Top]
    <3>1. Len(stack) \in DOMAIN stack /\ Top = stack[Len(stack)] /\ stack \in Seq(Frames)
      BY <1>1, Parts, TheCall DEF StackType
    <3>2. stack = [stack EXCEPT ![Len(stack)] = stack[Len(stack)]]
      BY <3>1
    <3> QED BY <1>4, <3>1, <3>2
  <2>4. Top \in Frames /\ Top.ctx = this
    BY <1>1, Parts, TheCall
  <2>5. Unserved(Top, ctxs'[this]) /\ Knows(Top, ctxs', ret')
    BY <1>1 DEF Unserved, UnservedPlaces, Knows
  <2> QED BY <1>1, <2>2, <2>3, <2>4, <2>5, MoveServes
<1> QED BY <1>2, <1>3, <1>4

LEMMA Accepted ==
  ASSUME ClientInv, Accept
  PROVE  /\ stack # <<>> /\ Top.fn = "execute" /\ Top.at = "verify" /\ (Return("OK") \/ NextNode)
         /\ \E d \in GoodContexts :
              /\ ctxs' = [ctxs EXCEPT ![this] = d] /\ d.raw = Ctx.raw /\ d.raw # <<>>
              /\ d.state = "OK" /\ d.response # None
<1> DEFINE d == [Parsed(Ctx) EXCEPT !.state = "OK"]
<1>1. Looking /\ Top.at = "verify" /\ ctxs' = [ctxs EXCEPT ![this] = d] /\ (Return("OK") \/ NextNode)
  BY VerifyingLooks DEF Accept
<1>2. /\ stack # <<>> /\ Top.fn = "execute" /\ Ctx.raw # <<>> /\ Ctx \in Contexts
      /\ Response \in Replies /\ Response # None
  BY <1>1, VerifyFacts, GoodFacts
<1>3. Parsed(Ctx) \in Contexts /\ Parsed(Ctx).raw = Ctx.raw /\ Parsed(Ctx).response = Response
  BY <1>2, ParsedFields
<1>4. d.raw = Ctx.raw /\ d.state = "OK" /\ d.response = Response
  BY <1>3 DEF Contexts
<1> HIDE DEF d
<1>5. d \in GoodContexts
  BY <1>1, <1>2, AcceptKeeps, OwnIsGood
<1> QED BY <1>1, <1>2, <1>4, <1>5

LEMMA AcceptServes == ASSUME ClientInv, ServedInv, Accept PROVE ServedInv'
<1>1. stack # <<>> /\ Top.fn = "execute" /\ (Return("OK") \/ NextNode)
  BY Accepted
<1>2. PICK d \in GoodContexts : /\ ctxs' = [ctxs EXCEPT ![this] = d] /\ d.raw # <<>>
                                /\ d.state = "OK" /\ d.response # None
  BY Accepted
<1>3. CASE NextNode
  BY <1>1, <1>2, <1>3, NextServes
<1>4. CASE Return("OK")
  <2>1. RawFirst(d) /\ Served(d)
    BY <1>2 DEF RawFirst, Served
  <2>2. KeepsChain /\ ctxs'[this] = d /\ RawInv'
    BY <1>1, <1>2, <2>1, OwnMembers, OwnRaw
  <2> QED BY <1>1, <1>4, <2>1, <2>2, ReturnServes
<1> QED BY <1>1, <1>3, <1>4

LEMMA NoResultLeft ==
  ASSUME ClientInv, NoValidResult
  PROVE  /\ stack # <<>> /\ Top.fn = "execute" /\ Top.at = "verify"
         /\ \E d \in GoodContexts :
              /\ ctxs' = [ctxs EXCEPT ![this] = d] /\ d.nodes = <<>> /\ d.raw = <<>> /\ d.response = None
              /\ \/ Goto("start")
                 \/ \E code \in {"ERROR", "EIGNORE"} : Return(code) /\ (Served(d) => code = "ERROR")
<1> DEFINE next == [Clear(Ctx) EXCEPT !.attempt = @ + 1]
           ignored == Ctx.kind = "in3_nodeList"
<1>1. stack # <<>> /\ Top.fn = "execute" /\ Top.at = "verify"
  BY DEF NoValidResult, In
<1>2. Ctx \in Contexts
  BY <1>1, WorkFrame, GoodFacts
<1>3. /\ next.nodes = <<>> /\ next.raw = <<>> /\ next.response = None
      /\ DOMAIN next = DOMAIN Ctx
  BY <1>2 DEF Clear, Contexts
<1>4. \/ ctxs' = [ctxs EXCEPT ![this] = [next EXCEPT !.error = FALSE]] /\ Goto("start")
      \/ /\ ctxs' = [ctxs EXCEPT ![this] = [next EXCEPT !.error = TRUE,
             !.state = IF ~Ctx.error THEN "ERROR" ELSE IF ignored THEN "EIGNORE" ELSE next.state]]
         /\ Return(IF ignored /\ Ctx.error THEN "EIGNORE" ELSE "ERROR")
  BY DEF NoValidResult
<1>5. DOMAIN next = {"kind", "dataNode", "code", "needs", "attempt", "nodes", "raw", "response", "error", "state"}
  BY <1>2, <1>3 DEF Contexts
<1> HIDE DEF next, ignored
<1>6. CASE ctxs' = [ctxs EXCEPT ![this] = [next EXCEPT !.error = FALSE]] /\ Goto("start")
  <2> DEFINE d == [next EXCEPT !.error = FALSE]
  <2>1. d.nodes = <<>> /\ d.raw = <<>> /\ d.response = None
    BY <1>3, <1>5
  <2>2. ctxs' = [ctxs EXCEPT ![this] = d]
    BY <1>6
  <2> HIDE DEF d
  <2>3. d \in GoodContexts
    BY <1>1, <2>2, NoValidResultKeeps, OwnIsGood
  <2> QED BY <1>1, <1>6, <2>1, <2>2, <2>3
<1>7. ASSUME ctxs' = [ctxs EXCEPT ![this] = [next EXCEPT !.error = TRUE,
               !.state = IF ~Ctx.error THEN "ERROR" ELSE IF ignored THEN "EIGNORE" ELSE next.state]],
             Return(IF ignored /\ Ctx.error THEN "EIGNORE" ELSE "ERROR")
      PROVE  \E d \in GoodContexts :
              /\ ctxs' = [ctxs EXCEPT ![this] = d] /\ d.nodes = <<>> /\ d.raw = <<>> /\ d.response = None
              /\ \E code \in {"ERROR", "EIGNORE"} : Return(code) /\ (Served(d) => code = "ERROR")
  <2> DEFINE state == IF ~Ctx.error THEN "ERROR" ELSE IF ignored THEN "EIGNORE" ELSE next.state
             code == IF ignored /\ Ctx.error THEN "EIGNORE" ELSE "ERROR"
             d == [next EXCEPT !.error = TRUE, !.state = state]
  <2>1. ctxs' = [ctxs EXCEPT ![this] = d] /\ Return(code)
    BY <1>7
  <2>2. code \in {"ERROR", "EIGNORE"} /\ (code = "EIGNORE" => state = "EIGNORE")
    OBVIOUS
  <2> HIDE DEF state, code
  <2>3. d.nodes = <<>> /\ d.raw = <<>> /\ d.response = None /\ d.state = state
    BY <1>3, <1>5
  <2> HIDE DEF d
  <2>4. d \in GoodContexts
    BY <1>1, <2>1, NoValidResultKeeps, OwnIsGood
  <2>5. Served(d) => code = "ERROR"
    BY <2>2, <2>3 DEF Served
  <2> QED BY <2>1, <2>2, <2>3, <2>4, <2>5
<1> QED BY <1>1, <1>4, <1>6, <1>7

LEMMA NoValidResultServes == ASSUME ClientInv, ServedInv, NoValidResult PROVE ServedInv'
<1>1. stack # <<>> /\ Top.fn = "execute"
  BY NoResultLeft
<1>2. PICK d \in GoodContexts :
        /\ ctxs' = [ctxs EXCEPT ![this] = d] /\ d.response = None
        /\ \/ Goto("start")
           \/ \E code \in {"ERROR", "EIGNORE"} : Return(code) /\ (Served(d) => code = "ERROR")
  BY NoResultLeft
<1>3. RawFirst(d)
  BY <1>2 DEF RawFirst
<1>4. KeepsChain /\ ctxs'[this] = d /\ RawInv'
  BY <1>1, <1>2, <1>3, OwnMembers, OwnRaw
<1>5. CASE Goto("start")
  <2>1. "start" \in Places(Top.fn)
    BY <1>1 DEF Places, ExecutePlaces
  <2>2. Unserved([fn |-> Top.fn, ctx |-> this, at |-> "start", n |-> Top.n], ctxs'[this])
    BY DEF Unserved, UnservedPlaces
  <2>3. Knows([fn |-> Top.fn, ctx |-> this, at |-> "start", n |-> Top.n], ctxs', ret)
    BY DEF Knows
  <2> QED BY <1>1, <1>4, <1>5, <2>1, <2>2, <2>3, GotoServes
<1>6. ASSUME NEW code \in {"ERROR", "EIGNORE"}, Return(code), Served(d) => code = "ERROR" PROVE ServedInv'
  BY <1>1, <1>4, <1>6, ReturnServes
<1> QED BY <1>2, <1>5, <1>6

-----------------------------------------------------------------------------
LEMMA IdleServes == ASSUME ctxs' = <<>>, stack' = <<>> PROVE ServedInv'
<1>1. DOMAIN <<>> = {}
  OBVIOUS
<1> QED BY <1>1 DEF ServedInv, RawInv, OnlyExecutes, UnservedInv

LEMMA SubmitServes == ASSUME Submit PROVE ServedInv'
<1>1. PICK needs \in 0 .. (IF wl = None THEN MaxAux ELSE 0) : ctxs' = <<NewCtx("rpc", None, 0, needs)>>
  BY DEF Submit
<1> DEFINE c == NewCtx("rpc", None, 0, needs)
           f == Frame("send", 1)
<1>2. RawFirst(c) /\ f.fn = "send" /\ f.at = "start" /\ f.ctx = 1
  BY DEF RawFirst, NewCtx, Frame
<1>3. ctxs' = <<c>> /\ stack' = <<f>>
  BY <1>1 DEF Submit
<1> HIDE DEF c, f
<1>4. /\ DOMAIN ctxs' = {1} /\ ctxs'[1] = c /\ DOMAIN stack' = {1} /\ stack'[1] = f /\ Len(stack') = 1
  BY <1>3
<1>5. Top' = f /\ this' = 1
  BY <1>2, <1>4 DEF Top, this
<1>6. RawInv' /\ OnlyExecutes' /\ UnservedInv'
  BY <1>2, <1>4 DEF RawInv, OnlyExecutes, UnservedInv, Unserved
<1>7. NoneDone(ctxs', 1)
  BY <1>4 DEF NoneDone
<1>8. Knows(f, ctxs', ret')
  BY <1>2 DEF Knows
<1> QED BY <1>5, <1>6, <1>7, <1>8 DEF ServedInv, NoneDone, Knows, Done, Served

LEMMA UnchangedServes == ASSUME ServedInv, UNCHANGED <<ctxs, stack, ret>> PROVE ServedInv'
BY DEF ServedInv, RawInv, OnlyExecutes, UnservedInv, NoneDone, Knows, Top, this

LEMMA StepServes == ASSUME ClientInv, ServedInv, [Next]_vars PROVE ServedInv'
<1>1. CASE UNCHANGED vars \/ TimePasses
  BY <1>1, UnchangedServes DEF vars, TimePasses
<1>2. CASE Send
  BY <1>2, SendStartServes, SendExecutedServes, SendRequiredServes, SendSubServes, SendRecheckedServes,
     TransportServes DEF Send
<1>3. CASE Execute
  BY <1>3, ExecuteStartServes, ExecuteRequiredServes, ExecuteResponseServes DEF Execute
<1>4. CASE UpdateList
  BY <1>4, NoUpdateServes, RequestListServes, ListRequestedServes, ListFailedServes, ListArrivedServes
  DEF UpdateList
<1>5. CASE UpdateWhitelist
  BY <1>5, NoWhitelistingServes, RequestWhitelistServes, WhitelistRequestedServes, WhitelistArrivedServes
  DEF UpdateWhitelist
<1>6. CASE FindValidResult
  BY <1>6, RejectServes, RequestCodeServes, CodeRequestedServes, TakeCodeServes, AcceptServes,
     NoValidResultServes DEF FindValidResult
<1>7. CASE PickNodes \/ Submit
  BY <1>7, PickNodesServes, SubmitServes
<1>8. CASE Finish \/ Restart
  <2>1. ctxs' = <<>> /\ stack' = <<>>
    BY <1>8 DEF Finish, Restart
  <2> QED BY <2>1, IdleServes
<1> QED BY <1>1, <1>2, <1>3, <1>4, <1>5, <1>6, <1>7, <1>8 DEF Next, Run

\* A context only has a response with the raw answers that it was parsed from, one that a call still
\* works on was not served, and no context that requires the one worked on is done (in3_send_ctx and
\* in3_ctx_execute).
THEOREM ServedKept == Spec => []ServedInv
<1>1. Init => ServedInv
  <2> SUFFICES ASSUME Init PROVE ServedInv
    OBVIOUS
  <2>1. DOMAIN <<>> = {} /\ ctxs = <<>> /\ stack = <<>>
    BY DEF Init
  <2> QED BY <2>1 DEF ServedInv, RawInv, OnlyExecutes, UnservedInv
<1>2. ClientInv /\ ServedInv /\ [Next]_vars => ServedInv'
  BY StepServes
<1> QED BY <1>1, <1>2, Invariance, PTL DEF Spec

-----------------------------------------------------------------------------
(* The requests that ask nodes, and where the client is then.              *)

NobodyAsks(cs) == \A k \in DOMAIN cs : ~Asking(cs[k])
AsksAbove(n, cs) == \E k \in DOMAIN cs : k > n /\ Asking(cs[k])
AsksBelow(n, cs) == \E k \in DOMAIN cs : k < n /\ Asking(cs[k])

\* What a request that asks required was served, and nothing that requires it is done.
AskingFits(cs) ==
  \A k \in DOMAIN cs : Asking(cs[k]) =>
    /\ k + 1 \in DOMAIN cs => Served(cs[k + 1])
    /\ \A j \in DOMAIN cs : j < k => ~Done(cs[j])

\* in3_ctx_execute runs what a context requires before it looks at the context itself.
Early(f) == \/ f.fn = "send" /\ f.at \in {"start", "executed", "rechecked"}
            \/ f.fn = "execute" /\ f.at = "start"
Waits(f) == f.fn = "execute" /\ f.at \in {"required", "listed", "whitelisted", "verifying"}
Holding(f) == f.fn = "execute" /\ f.at \in {"listed", "whitelisted", "verifying"}

TopAsks(f, cs, r) ==
  /\ \A k \in DOMAIN cs : Asking(cs[k]) /\ k < f.ctx => f.ctx = k + 1 /\ Early(f)
  /\ f.fn = "execute" /\ f.at \in {"work", "whitelist", "pick", "verify"} => ~AsksAbove(f.ctx, cs)
  /\ f.fn = "execute" /\ f.at = "required" /\ r = "OK" => ~AsksAbove(f.ctx, cs)

\* A call that made a request only sees it ask while the calls return to in3_send_ctx.
Holds(f, cs, r, top) == Holding(f) /\ AsksAbove(f.ctx, cs) => r = "WAITING" /\ Waits(top)

AskInv ==
  /\ AskedNodesAreUsable /\ AskingFits(ctxs)
  /\ stack # <<>> =>
       TopAsks(Top, ctxs, ret) /\ \A i \in DOMAIN stack : Holds(stack[i], ctxs, ret, Top)

AllInv == ClientInv /\ ServedInv /\ AskInv

Sendable(c) == \A m \in ToSet(c.nodes) : m.of = version /\ m.addr \in Listed /\ until[m.addr] <= now

LEMMA NobodyKeeps == ASSUME NobodyAsks(ctxs') PROVE AskInv'
<1>1. ASSUME NEW k \in DOMAIN ctxs' PROVE ~Asking(ctxs'[k])
  BY <1>1 DEF NobodyAsks
<1>2. AskedNodesAreUsable'
  <2>1. ToSet(<<>>) = {}
    BY DEF ToSet
  <2>2. ASSUME NEW k \in DOMAIN ctxs', ctxs'[k].raw = <<>> PROVE ToSet(ctxs'[k].nodes) = {}
    BY <1>1, <2>1, <2>2 DEF Asking
  <2> QED BY <2>2 DEF AskedNodesAreUsable
<1>3. AskingFits(ctxs')
  BY <1>1 DEF AskingFits
<1>4. \A n : ~AsksAbove(n, ctxs')
  BY <1>1 DEF AsksAbove
<1>5. \A f, r : TopAsks(f, ctxs', r)
  BY <1>1, <1>4 DEF TopAsks
<1>6. \A f, r, top : Holds(f, ctxs', r, top)
  BY <1>4 DEF Holds
<1>7. TopAsks(Top', ctxs', ret') /\ \A i \in DOMAIN stack' : Holds(stack'[i], ctxs', ret', Top')
  BY <1>5, <1>6
<1> QED BY <1>2, <1>3, <1>7 DEF AskInv, AskingFits, TopAsks, Holds, AsksAbove, Asking, Served, Done

\* While a context is worked on nobody asks.
LEMMA NobodyNow ==
  ASSUME AllInv, stack # <<>>, Top.fn = "execute", ~Asking(Ctx),
         \/ Top.at \in {"work", "whitelist", "pick", "verify"}
         \/ Top.at \in {"listed", "whitelisted", "verifying"} /\ ret # "WAITING"
  PROVE  NobodyAsks(ctxs)
<1>1. /\ Len(stack) \in DOMAIN stack /\ Top = stack[Len(stack)] /\ Top.ctx = this /\ Ctx = ctxs[this]
      /\ DOMAIN ctxs = 1 .. Len(ctxs) /\ this \in 1 .. Len(ctxs) /\ Len(ctxs) \in Nat
  BY Parts, TheCall DEF AllInv
<1>2. TopAsks(Top, ctxs, ret) /\ Holds(Top, ctxs, ret, Top)
  BY <1>1 DEF AllInv, AskInv
<1>3. ~AsksAbove(this, ctxs)
  BY <1>1, <1>2 DEF TopAsks, Holds, Holding
<1>4. ~Early(Top)
  BY DEF Early
<1>5. ASSUME NEW k \in DOMAIN ctxs PROVE ~Asking(ctxs[k])
  <2>1. CASE k = this
    BY <1>1, <2>1
  <2>2. CASE k < this
    BY <1>1, <1>2, <1>4, <2>2 DEF TopAsks
  <2>3. CASE k > this
    BY <1>3, <2>3 DEF AsksAbove
  <2>4. k = this \/ k < this \/ k > this
    BY <1>1
  <2> QED BY <2>1, <2>2, <2>3, <2>4
<1> QED BY <1>5 DEF NobodyAsks

-----------------------------------------------------------------------------
\* A step gives nobody else nodes to ask.
NoMoreAsk == \A k \in DOMAIN ctxs' : Asking(ctxs'[k]) => k \in DOMAIN ctxs /\ Asking(ctxs[k])
Quiet == ~(Waits(Top) /\ ret = "WAITING")

LEMMA LowerHolds ==
  ASSUME AllInv, stack # <<>>, NoMoreAsk, Quiet, NEW i \in DOMAIN stack
  PROVE  \A r, top : Holds(stack[i], ctxs', r, top)
<1>1. Holds(stack[i], ctxs, ret, Top)
  BY DEF AllInv, AskInv
<1>2. ASSUME Holding(stack[i]) PROVE ~AsksAbove(stack[i].ctx, ctxs')
  <2>1. ~AsksAbove(stack[i].ctx, ctxs)
    BY <1>1, <1>2 DEF Holds, Quiet
  <2> QED BY <2>1 DEF AsksAbove, NoMoreAsk
<1> QED BY <1>2 DEF Holds

LEMMA MoveAsks ==
  ASSUME AllInv, stack # <<>>, NoMoreAsk, Quiet, AskedNodesAreUsable', AskingFits(ctxs'),
         NEW f \in Frames, ~Holding(f), stack' = [stack EXCEPT ![Len(stack)] = f],
         TopAsks(f, ctxs', ret')
  PROVE  AskInv'
<1>1. /\ Len(stack') = Len(stack) /\ DOMAIN stack' = DOMAIN stack /\ stack'[Len(stack)] = f
      /\ \A i \in 1 .. Len(stack) - 1 : stack'[i] = stack[i]
  BY Parts, MovedStack DEF AllInv
<1>2. DOMAIN stack = 1 .. Len(stack) /\ Len(stack) \in Nat
  BY Parts, TheCall DEF AllInv
<1>3. Top' = f
  BY <1>1 DEF Top
<1>4. ASSUME NEW i \in DOMAIN stack' PROVE Holds(stack'[i], ctxs', ret', f)
  <2>1. CASE i = Len(stack)
    BY <2>1, <1>1 DEF Holds
  <2>2. CASE i \in 1 .. Len(stack) - 1
    <3>1. i \in DOMAIN stack
      BY <2>2, <1>2
    <3>2. stack'[i] = stack[i]
      BY <2>2, <1>1
    <3> QED BY <3>1, <3>2, LowerHolds
  <2>3. i = Len(stack) \/ i \in 1 .. Len(stack) - 1
    <3>1. i \in 1 .. Len(stack) /\ Len(stack) \in Nat
      BY <1>1, <1>2
    <3> QED BY <3>1
  <2> QED BY <2>1, <2>2, <2>3
<1>5. TopAsks(Top', ctxs', ret') /\ \A i \in DOMAIN stack' : Holds(stack'[i], ctxs', ret', Top')
  BY <1>3, <1>4
<1> QED BY <1>5 DEF AskInv, AskingFits, TopAsks, Holds, AsksAbove, Asking, Served, Done, Early, Waits, Holding

LEMMA CallAsks ==
  ASSUME AllInv, stack # <<>>, NoMoreAsk, Quiet, AskedNodesAreUsable', AskingFits(ctxs'),
         NEW f \in Frames, ~Holding(f), NEW g \in Frames, g.at = "start",
         stack' = Append([stack EXCEPT ![Len(stack)] = f], g), TopAsks(g, ctxs', ret')
  PROVE  AskInv'
<1>1. /\ Len(stack') = Len(stack) + 1 /\ DOMAIN stack' = 1 .. Len(stack) + 1
      /\ stack'[Len(stack) + 1] = g /\ stack'[Len(stack)] = f
      /\ \A i \in 1 .. Len(stack) - 1 : stack'[i] = stack[i]
  BY Parts, CalledStack DEF AllInv
<1>2. DOMAIN stack = 1 .. Len(stack) /\ Len(stack) \in Nat
  BY Parts, TheCall DEF AllInv
<1>3. Top' = g /\ ~Holding(g)
  BY <1>1 DEF Top, Holding
<1>4. ASSUME NEW i \in DOMAIN stack' PROVE Holds(stack'[i], ctxs', ret', g)
  <2>1. CASE i = Len(stack) \/ i = Len(stack) + 1
    BY <2>1, <1>1, <1>3 DEF Holds
  <2>2. CASE i \in 1 .. Len(stack) - 1
    <3>1. i \in DOMAIN stack
      BY <2>2, <1>2
    <3>2. stack'[i] = stack[i]
      BY <2>2, <1>1
    <3> QED BY <3>1, <3>2, LowerHolds
  <2>3. i = Len(stack) \/ i = Len(stack) + 1 \/ i \in 1 .. Len(stack) - 1
    <3>1. i \in 1 .. Len(stack) + 1 /\ Len(stack) \in Nat
      BY <1>1, <1>2, Zenon
    <3> QED BY <3>1
  <2> QED BY <2>1, <2>2, <2>3
<1>5. TopAsks(Top', ctxs', ret') /\ \A i \in DOMAIN stack' : Holds(stack'[i], ctxs', ret', Top')
  BY <1>3, <1>4
<1> QED BY <1>5 DEF AskInv, AskingFits, TopAsks, Holds, AsksAbove, Asking, Served, Done, Early, Waits, Holding

\* A call returns.
LEMMA ReturnAsks ==
  ASSUME AllInv, stack # <<>>, AskedNodesAreUsable', AskingFits(ctxs'), NEW code, Return(code),
         \A k \in DOMAIN ctxs' : Asking(ctxs'[k]) /\ k < this => this = k + 1,
         Top.fn = "execute" /\ code = "OK" => ~AsksAbove(this - 1, ctxs'),
         \/ NoMoreAsk /\ Quiet
         \/ Top.fn = "execute" /\ code = "WAITING"
  PROVE  AskInv'
<1>1. /\ stack' \in Seq(Frames) /\ Len(stack') = Len(stack) - 1
      /\ DOMAIN stack' = 1 .. Len(stack) - 1
      /\ \A i \in DOMAIN stack' : stack'[i] = stack[i]
      /\ ret' = code
  BY Parts, TheFrontOfCalls DEF Return, AllInv
<1>2. ASSUME stack' # <<>>
      PROVE  TopAsks(Top', ctxs', ret') /\ \A i \in DOMAIN stack' : Holds(stack'[i], ctxs', ret', Top')
  <2> DEFINE n == Len(stack) - 1
             g == stack[n]
  <2>1. /\ n \in Nat /\ n > 0 /\ n + 1 = Len(stack) /\ n = Len(stack') /\ n \in DOMAIN stack'
        /\ n \in DOMAIN stack /\ Len(stack) \in DOMAIN stack /\ Top = stack[Len(stack)]
        /\ DOMAIN stack = 1 .. Len(stack)
    <3>1. Len(stack') > 0
      BY <1>2, <1>1, EmptySeq
    <3> QED BY <3>1, <1>1, Parts, TheCall DEF AllInv
  <2>2. Top' = g
    BY <1>1, <2>1 DEF Top
  <2>3. g \in Frames /\ Awaits(g, Top)
    <3>1. StackType
      BY Parts DEF AllInv
    <3>2. stack[n] \in Frames
      BY <2>1, <3>1, ElementOfSeq DEF StackType
    <3> QED BY <2>1, <3>1, <3>2 DEF StackType
  <2>4. Top.ctx = this /\ g.ctx \in Nat /\ this \in Nat
    BY <2>3, Parts, TheCall DEF Frames, AllInv
  <2>5. ASSUME NEW i \in DOMAIN stack' PROVE i \in DOMAIN stack /\ stack'[i] = stack[i] /\ i <= n
    BY <2>1, <2>5, <1>1
  <2> HIDE DEF n, g
  <2>6. g.fn = "execute" => Waits(g) /\ Top.fn = "execute" /\ g.ctx = this - 1
    BY <2>3, <2>4 DEF Awaits, Waits
  <2>7. g.fn = "send" => (Early(g) /\ g.ctx = this) \/ g.ctx = this - 1
    BY <2>3, <2>4 DEF Awaits, Early
  <2>8. g.fn = "send" \/ g.fn = "execute"
    BY <2>3 DEF Frames
  <2>9. ASSUME NEW k \in DOMAIN ctxs', Asking(ctxs'[k]), k < g.ctx PROVE g.ctx = k + 1 /\ Early(g)
    <3>1. CASE g.ctx = this - 1
      <4>1. k \in Int
        BY <2>4, <2>9, <3>1
      <4>2. k < this
        BY <2>4, <2>9, <3>1
      <4> QED BY <2>4, <2>9, <3>1, <4>2
    <3>2. CASE Early(g) /\ g.ctx = this
      BY <2>9, <3>2
    <3> QED BY <2>6, <2>7, <2>8, <3>1, <3>2
  <2>10. g.fn = "execute" => g.at \notin {"work", "whitelist", "pick", "verify"}
    BY <2>6 DEF Waits
  <2>11. TopAsks(g, ctxs', code)
    BY <2>6, <2>9, <2>10 DEF TopAsks
  <2>12. ASSUME NEW i \in DOMAIN stack' PROVE Holds(stack'[i], ctxs', code, g)
    <3>1. CASE NoMoreAsk /\ Quiet
      BY <3>1, <2>5, LowerHolds
    <3>2. CASE code = "WAITING"
      <4>1. ASSUME Holding(stack[i]) PROVE Waits(g)
        <5>1. stack[i].fn = "execute" /\ i \in DOMAIN stack /\ i <= n /\ n \in DOMAIN stack
          BY <4>1, <2>1, <2>5 DEF Holding
        <5>2. stack[n].fn = "execute"
          BY <5>1 DEF AllInv, ServedInv, OnlyExecutes
        <5> QED BY <5>2, <2>6 DEF g
      <4> QED BY <3>2, <4>1, <2>5 DEF Holds
    <3> QED BY <3>1, <3>2
  <2> QED BY <1>1, <2>2, <2>11, <2>12
<1> QED BY <1>2 DEF AskInv, AskingFits, TopAsks, Holds, AsksAbove, Asking, Served, Done, Early, Waits, Holding

-----------------------------------------------------------------------------
(* The contexts after a step, while some request asks.                     *)

SameList == version' = version /\ until' = until /\ now <= now' /\ now' \in Nat

LEMMA ListStays == ASSUME ClientInv, KeepList, KeepClock PROVE SameList
<1>1. now' = now /\ now \in Nat
  BY Parts, Times, SameClock
<1>2. version' = version /\ until' = until
  BY DEF KeepList, listVars
<1> QED BY <1>1, <1>2 DEF SameList

LEMMA StillSendable ==
  ASSUME ClientInv, SameList, NEW c, Sendable(c)
  PROVE  \A m \in ToSet(c.nodes) : m.of = version' /\ m.addr \in Listed' /\ until'[m.addr] <= now'
<1>1. Listed' = Listed
  BY DEF SameList, Listed, nodelist
<1>2. ASSUME NEW m \in ToSet(c.nodes) PROVE until[m.addr] <= now'
  <2>1. m.addr \in Listed /\ until[m.addr] <= now
    BY DEF Sendable
  <2>2. until[m.addr] \in 0 .. Later /\ Later \in Nat
    BY <2>1, Parts, Times, ConstantFacts
  <2>3. now \in Nat /\ now <= now' /\ now' \in Nat
    BY Parts, Times DEF SameList
  <2> QED BY <2>1, <2>2, <2>3
<1> QED BY <1>1, <1>2 DEF SameList, Sendable

LEMMA SameAsk ==
  ASSUME AllInv, UNCHANGED ctxs, SameList
  PROVE  AskedNodesAreUsable' /\ AskingFits(ctxs') /\ NoMoreAsk
<1>1. ASSUME NEW k \in DOMAIN ctxs', ctxs'[k].raw = <<>>, NEW m \in ToSet(ctxs'[k].nodes)
      PROVE  m.of = version' /\ m.addr \in Listed' /\ until'[m.addr] <= now'
  <2>1. Sendable(ctxs[k]) /\ m \in ToSet(ctxs[k].nodes)
    BY <1>1 DEF AllInv, AskInv, AskedNodesAreUsable, Sendable
  <2> QED BY <2>1, StillSendable DEF AllInv
<1>2. AskedNodesAreUsable'
  BY <1>1 DEF AskedNodesAreUsable
<1>3. AskingFits(ctxs') /\ NoMoreAsk
  BY DEF AllInv, AskInv, NoMoreAsk
<1> QED BY <1>2, <1>3

\* The context worked on changes, and nothing that requires it asks.
LEMMA OwnAsk ==
  ASSUME AllInv, stack # <<>>, SameList, ~AsksBelow(this, ctxs),
         NEW c \in GoodContexts, ctxs' = [ctxs EXCEPT ![this] = c],
         Asking(c) => Asking(Ctx), c.raw = <<>> => Ctx.raw = <<>> /\ c.nodes = Ctx.nodes,
         Done(c) => Done(Ctx)
  PROVE  AskedNodesAreUsable' /\ AskingFits(ctxs') /\ NoMoreAsk
<1>1. /\ ctxs'[this] = c /\ this \in DOMAIN ctxs /\ DOMAIN ctxs' = DOMAIN ctxs /\ Ctx = ctxs[this]
      /\ \A k \in DOMAIN ctxs' : k # this => ctxs'[k] = ctxs[k]
      /\ DOMAIN ctxs = 1 .. Len(ctxs) /\ Len(ctxs) \in Nat
  BY OwnMembers, Parts, TheCall DEF AllInv
<1>2. AskedNodesAreUsable'
  <2>1. ASSUME NEW k \in DOMAIN ctxs', ctxs'[k].raw = <<>>, NEW m \in ToSet(ctxs'[k].nodes)
        PROVE  m.of = version' /\ m.addr \in Listed' /\ until'[m.addr] <= now'
    <3>1. ctxs[k].raw = <<>> /\ ctxs'[k].nodes = ctxs[k].nodes /\ k \in DOMAIN ctxs
      BY <2>1, <1>1
    <3>2. Sendable(ctxs[k]) /\ m \in ToSet(ctxs[k].nodes)
      BY <2>1, <3>1 DEF AllInv, AskInv, AskedNodesAreUsable, Sendable
    <3> QED BY <3>2, StillSendable DEF AllInv
  <2> QED BY <2>1 DEF AskedNodesAreUsable
<1>3. NoMoreAsk
  BY <1>1 DEF NoMoreAsk
<1>4. AskingFits(ctxs')
  <2>1. ASSUME NEW k \in DOMAIN ctxs', Asking(ctxs'[k])
        PROVE  /\ k + 1 \in DOMAIN ctxs' => Served(ctxs'[k + 1])
               /\ \A j \in DOMAIN ctxs' : j < k => ~Done(ctxs'[j])
    <3>1. k \in DOMAIN ctxs /\ Asking(ctxs[k])
      BY <2>1, <1>3 DEF NoMoreAsk
    <3>2. ~(k < this)
      BY <3>1 DEF AsksBelow
    <3>3. k + 1 # this
      BY <1>1, <3>1, <3>2
    <3>4. k + 1 \in DOMAIN ctxs => Served(ctxs[k + 1])
      BY <3>1 DEF AllInv, AskInv, AskingFits
    <3>5. ASSUME NEW j \in DOMAIN ctxs, j < k PROVE ~Done(ctxs'[j])
      <4>1. ~Done(ctxs[j])
        BY <3>1, <3>5 DEF AllInv, AskInv, AskingFits
      <4> QED BY <4>1, <1>1
    <3> QED BY <1>1, <3>3, <3>4, <3>5
  <2> QED BY <2>1 DEF AskingFits
<1> QED BY <1>2, <1>3, <1>4

\* The call of in3_send_ctx or in3_ctx_execute, and what asks below its context.
LEMMA TopAsksNow ==
  ASSUME AllInv, stack # <<>>
  PROVE  /\ TopAsks(Top, ctxs, ret) /\ Top.ctx = this /\ this \in DOMAIN ctxs /\ Ctx = ctxs[this]
         /\ DOMAIN ctxs = 1 .. Len(ctxs) /\ Len(ctxs) \in Nat /\ this \in Nat
         /\ \A k \in DOMAIN ctxs : Asking(ctxs[k]) /\ k < this => this = k + 1 /\ Early(Top)
         /\ ~Early(Top) => ~AsksBelow(this, ctxs)
         /\ ~Served(Ctx) => ~AsksBelow(this, ctxs)
<1>1. /\ TopAsks(Top, ctxs, ret) /\ Top.ctx = this /\ this \in DOMAIN ctxs /\ Ctx = ctxs[this]
      /\ DOMAIN ctxs = 1 .. Len(ctxs) /\ Len(ctxs) \in Nat /\ this \in Nat
  BY Parts, TheCall DEF AllInv, AskInv
<1>2. \A k \in DOMAIN ctxs : Asking(ctxs[k]) /\ k < this => this = k + 1 /\ Early(Top)
  BY <1>1 DEF TopAsks
<1>3. ASSUME NEW k \in DOMAIN ctxs, Asking(ctxs[k]), k < this PROVE Served(Ctx)
  <2>1. this = k + 1
    BY <1>2, <1>3
  <2> QED BY <1>1, <1>3, <2>1 DEF AllInv, AskInv, AskingFits
<1> QED BY <1>1, <1>2, <1>3 DEF AsksBelow

\* What asks below a context when the call of in3_send_ctx for it returns.
LEMMA NoMoreBelow ==
  ASSUME AllInv, stack # <<>>, NoMoreAsk
  PROVE  \A k \in DOMAIN ctxs' : Asking(ctxs'[k]) /\ k < this => this = k + 1
BY TopAsksNow DEF NoMoreAsk

LEMMA SendQuiet == ASSUME Top.fn = "send" PROVE Quiet
BY DEF Quiet, Waits

LEMMA FailAsks ==
  ASSUME AllInv, stack # <<>>, SameList, Fail("ERROR"), ~AsksBelow(this, ctxs), Quiet
  PROVE  AskInv'
<1>1. "ERROR" \in Codes \ {"OK"} /\ "ERROR" # "WAITING" /\ "ERROR" # "OK"
  BY DEF Codes
<1>2. Erred(Ctx, "ERROR") \in GoodContexts /\ ctxs' = [ctxs EXCEPT ![this] = Erred(Ctx, "ERROR")]
  BY <1>1, FailedMembers DEF Fail, AllInv
<1>3. Ctx \in GoodContexts
  BY Parts, TheCall DEF AllInv
<1>4. /\ Erred(Ctx, "ERROR").nodes = Ctx.nodes /\ Asking(Erred(Ctx, "ERROR")) = Asking(Ctx)
      /\ Erred(Ctx, "ERROR").raw = Ctx.raw /\ ~Done(Erred(Ctx, "ERROR"))
  BY <1>1, <1>3, ErredFields
<1>5. AskedNodesAreUsable' /\ AskingFits(ctxs') /\ NoMoreAsk
  BY <1>2, <1>4, OwnAsk
<1>6. Return("ERROR")
  BY DEF Fail
<1> QED BY <1>1, <1>5, <1>6, NoMoreBelow, ReturnAsks

-----------------------------------------------------------------------------
(* The steps.                                                              *)

LEMMA SendStartAsks == ASSUME AllInv, SendStart PROVE AskInv'
<1> DEFINE f == [fn |-> Top.fn, ctx |-> this, at |-> "executed", n |-> Top.n]
           g == Frame("execute", this)
<1>1. /\ stack # <<>> /\ Top.fn = "send" /\ Call("executed", "execute", this) /\ UNCHANGED ctxs /\ SameList
  BY ListStays DEF SendStart, In, AllInv
<1>2. AskedNodesAreUsable' /\ AskingFits(ctxs') /\ NoMoreAsk /\ Quiet
  BY <1>1, SameAsk, SendQuiet
<1>3. "executed" \in Places(Top.fn)
  BY <1>1 DEF Places, SendPlaces
<1>4. f \in Frames /\ ~Holding(f)
  BY <1>1, <1>3, Parts, TopFrame, NewFrame DEF AllInv, Holding
<1>5. g \in Frames /\ g.at = "start" /\ g.fn = "execute" /\ g.ctx = this
  BY <1>1, TopAsksNow DEF Frame, Frames, ExecutePlaces
<1>6. stack' = Append([stack EXCEPT ![Len(stack)] = f], g)
  BY <1>1, Parts, FrameAt DEF Call, AllInv
<1> HIDE DEF f, g
<1>7. TopAsks(g, ctxs', ret')
  BY <1>1, <1>5, TopAsksNow DEF TopAsks, Early
<1> QED BY <1>1, <1>2, <1>4, <1>5, <1>6, <1>7, CallAsks

\* A send call goes on.
LEMMA SendMoves ==
  ASSUME AllInv, stack # <<>>, Top.fn = "send", UNCHANGED ctxs, SameList, ~AsksBelow(this, ctxs),
         NEW at \in SendPlaces, NEW n \in Nat,
         stack' = [stack EXCEPT ![Len(stack)] = [fn |-> Top.fn, ctx |-> this, at |-> at, n |-> n]]
  PROVE  AskInv'
<1> DEFINE f == [fn |-> Top.fn, ctx |-> this, at |-> at, n |-> n]
<1>1. at \in Places(Top.fn)
  BY DEF Places
<1>2. f \in Frames /\ f.fn = "send" /\ f.ctx = this /\ ~Holding(f)
  BY <1>1, Parts, NewFrame DEF AllInv, Holding
<1>3. stack' = [stack EXCEPT ![Len(stack)] = f]
  OBVIOUS
<1> HIDE DEF f
<1>4. AskedNodesAreUsable' /\ AskingFits(ctxs') /\ NoMoreAsk /\ Quiet
  BY SameAsk, SendQuiet
<1>5. TopAsks(f, ctxs', ret')
  BY <1>2 DEF TopAsks, AsksBelow
<1> QED BY <1>2, <1>3, <1>4, <1>5, MoveAsks

LEMMA SendReturns ==
  ASSUME AllInv, stack # <<>>, Top.fn = "send", UNCHANGED ctxs, SameList, Return(ret)
  PROVE  AskInv'
<1>1. AskedNodesAreUsable' /\ AskingFits(ctxs') /\ NoMoreAsk /\ Quiet
  BY SameAsk, SendQuiet
<1> QED BY <1>1, NoMoreBelow, ReturnAsks

\* A context that is to be sent once more was not served.
LEMMA WaitingIsUnserved ==
  ASSUME AllInv, stack # <<>>, Top.fn = "send", Top.at \in {"executed", "rechecked"}, ret = "WAITING"
  PROVE  ~Served(Ctx) /\ ~AsksBelow(this, ctxs)
<1>1. Knows(Top, ctxs, ret) /\ Ctx = ctxs[Top.ctx]
  BY TopKnows DEF AllInv
<1>2. ~Served(Ctx)
  BY <1>1 DEF Knows
<1> QED BY <1>2, TopAsksNow

LEMMA SendExecutedAsks == ASSUME AllInv, SendExecuted PROVE AskInv'
<1>1. stack # <<>> /\ Top.fn = "send" /\ Top.at = "executed" /\ SameList
  BY ListStays DEF SendExecuted, In, AllInv
<1>2. CASE Return(ret) /\ UNCHANGED ctxs
  BY <1>1, <1>2, SendReturns
<1>3. CASE ret = "WAITING" /\ Fail("ERROR")
  BY <1>1, <1>3, WaitingIsUnserved, SendQuiet, FailAsks
<1>4. CASE /\ ret = "WAITING"
           /\ stack' = [stack EXCEPT ![Len(stack)].n = @ + 1, ![Len(stack)].at = "required"]
           /\ UNCHANGED <<ret, ctxs>>
  <2>1. stack' = [stack EXCEPT ![Len(stack)] = [fn |-> Top.fn, ctx |-> this, at |-> "required", n |-> Top.n + 1]]
    BY <1>1, <1>4, Parts, FrameNAt DEF AllInv
  <2>2. "required" \in SendPlaces /\ Top.n + 1 \in Nat
    <3>1. Top.n \in Nat
      BY <1>1, Parts, TopFrame DEF AllInv
    <3> QED BY <3>1 DEF SendPlaces
  <2>3. ~AsksBelow(this, ctxs)
    BY <1>1, <1>4, WaitingIsUnserved
  <2> QED BY <1>1, <1>4, <2>1, <2>2, <2>3, SendMoves
<1> QED BY <1>2, <1>3, <1>4 DEF SendExecuted

\* A send call waits for another call.
LEMMA SendCalls ==
  ASSUME AllInv, stack # <<>>, Top.fn = "send", ~AsksBelow(this, ctxs), UNCHANGED ctxs, SameList,
         NEW at \in SendPlaces, NEW fn \in {"send", "execute"}, NEW k \in {this, this + 1},
         k \in Nat, Call(at, fn, k)
  PROVE  AskInv'
<1> DEFINE f == [fn |-> Top.fn, ctx |-> this, at |-> at, n |-> Top.n]
           g == Frame(fn, k)
<1>1. AskedNodesAreUsable' /\ AskingFits(ctxs') /\ NoMoreAsk /\ Quiet
  BY SameAsk, SendQuiet
<1>2. at \in Places(Top.fn)
  BY DEF Places
<1>3. f \in Frames /\ ~Holding(f)
  BY <1>2, Parts, TopFrame, NewFrame DEF AllInv, Holding
<1>4. g \in Frames /\ g.at = "start" /\ g.fn = fn /\ g.ctx = k
  BY DEF Frame, Frames, ExecutePlaces, SendPlaces
<1>5. stack' = Append([stack EXCEPT ![Len(stack)] = f], g)
  BY Parts, FrameAt DEF Call, AllInv
<1> HIDE DEF f, g
<1>6. TopAsks(g, ctxs', ret')
  <2>1. ASSUME NEW j \in DOMAIN ctxs', Asking(ctxs'[j]), j < k PROVE k = j + 1
    <3>1. ~(j < this) /\ j \in Nat /\ this \in Nat
      BY <2>1, TopAsksNow DEF AsksBelow
    <3> QED BY <2>1, <3>1
  <2> QED BY <1>4, <2>1 DEF TopAsks, Early
<1> QED BY <1>1, <1>3, <1>4, <1>5, <1>6, CallAsks

LEMMA SendRequiredAsks == ASSUME AllInv, SendRequired PROVE AskInv'
<1>1. /\ stack # <<>> /\ Top.fn = "send" /\ Top.at = "required"
      /\ Call("sub", "send", this + 1) /\ UNCHANGED ctxs /\ SameList
  BY ListStays DEF SendRequired, In, AllInv
<1>2. ~Early(Top) /\ this + 1 \in Nat /\ "sub" \in SendPlaces
  BY <1>1, TopAsksNow DEF Early, SendPlaces
<1>3. ~AsksBelow(this, ctxs)
  BY <1>1, <1>2, TopAsksNow
<1> QED BY <1>1, <1>2, <1>3, SendCalls

LEMMA SendSubAsks == ASSUME AllInv, SendSub PROVE AskInv'
<1>1. stack # <<>> /\ Top.fn = "send" /\ Top.at = "sub" /\ KeepClock
  BY DEF SendSub, In
<1>2. ~AsksBelow(this, ctxs) /\ this \in Nat /\ "rechecked" \in SendPlaces
  BY <1>1, TopAsksNow DEF Early, SendPlaces
<1>3. CASE ret = "EIGNORE" /\ ctxs' = RemoveRequired(this + 1)
  <2>1. this + 1 \in this + 1 .. Len(ctxs) + 1
    BY <1>1, TopAsksNow
  <2>2. \A j \in DOMAIN ctxs' : j \in DOMAIN ctxs /\ j < this + 1 /\ ctxs'[j] = ctxs[j]
    BY <1>1, <1>3, <2>1, CutMembers DEF AllInv
  <2>3. ~Asking(Ctx)
    <3>1. Asking(Ctx) /\ this + 1 \in DOMAIN ctxs => Served(ctxs[this + 1])
      BY <1>1, TopAsksNow DEF AllInv, AskInv, AskingFits
    <3>2. this + 1 \in DOMAIN ctxs => ~Served(ctxs[this + 1])
      BY <1>1, <1>3, TopKnows DEF Knows, AllInv
    <3>3. this + 1 \in DOMAIN ctxs
      BY <1>1, TopKnows DEF Knows, AllInv
    <3> QED BY <3>1, <3>2, <3>3
  <2>4. ASSUME NEW k \in DOMAIN ctxs' PROVE ~Asking(ctxs'[k])
    <3>1. k \in DOMAIN ctxs /\ k < this + 1 /\ ctxs'[k] = ctxs[k] /\ k \in Nat /\ this \in Nat
      BY <1>1, <2>2, TopAsksNow
    <3>2. k = this \/ k < this
      BY <3>1
    <3> QED BY <1>1, <1>2, <2>3, <3>1, <3>2, TopAsksNow DEF AsksBelow
  <2> QED BY <2>4, NobodyKeeps DEF NobodyAsks
<1>4. CASE Call("rechecked", "execute", this) /\ UNCHANGED ctxs /\ KeepList
  BY <1>1, <1>2, <1>4, ListStays, SendCalls DEF AllInv
<1>5. CASE Fail("ERROR") /\ KeepList
  BY <1>1, <1>2, <1>5, ListStays, SendQuiet, FailAsks DEF AllInv
<1> QED BY <1>3, <1>4, <1>5 DEF SendSub

LEMMA SendRecheckedAsks == ASSUME AllInv, SendRechecked PROVE AskInv'
<1>1. stack # <<>> /\ Top.fn = "send" /\ Top.at = "rechecked" /\ UNCHANGED ctxs /\ SameList
  BY ListStays DEF SendRechecked, In, AllInv
<1>2. CASE ret = "WAITING" /\ Goto("required")
  <2>1. stack' = [stack EXCEPT ![Len(stack)] = [fn |-> Top.fn, ctx |-> this, at |-> "required", n |-> Top.n]]
    BY <1>1, <1>2, Parts, FrameAt DEF Goto, AllInv
  <2>2. "required" \in SendPlaces /\ Top.n \in Nat
    BY <1>1, Parts, TopFrame DEF SendPlaces, AllInv
  <2>3. ~AsksBelow(this, ctxs)
    BY <1>1, <1>2, WaitingIsUnserved
  <2> QED BY <1>1, <2>1, <2>2, <2>3, SendMoves
<1>3. CASE Return(ret)
  BY <1>1, <1>3, SendReturns
<1> QED BY <1>2, <1>3 DEF SendRechecked

LEMMA TransportAsks == ASSUME AllInv, Transport PROVE AskInv'
<1> DEFINE f == [fn |-> Top.fn, ctx |-> this, at |-> "start", n |-> Top.n]
<1>1. /\ stack # <<>> /\ Top.fn = "send" /\ Top.at = "required" /\ Ctx.raw = <<>> /\ Goto("start")
      /\ KeepList /\ now' \in now .. (IF now < MaxTime THEN now + 1 ELSE now)
  BY DEF Transport, In
<1>2. PICK raw \in [1 .. Len(Ctx.nodes) -> Answers(Ctx.kind)] : ctxs' = [ctxs EXCEPT ![this].raw = raw]
  BY DEF Transport
<1>3. RawFirst(Ctx)
  BY <1>1, TopKnows DEF AllInv
<1>4. PICK c \in GoodContexts : /\ ctxs' = [ctxs EXCEPT ![this] = c] /\ ~Asking(c)
                                /\ c.nodes = Ctx.nodes /\ c.response = Ctx.response
                                /\ c.state = Ctx.state /\ c.error = Ctx.error
  BY <1>1, <1>2, <1>3, AnsweredFields DEF AllInv
<1>5. SameList
  <2>1. now \in Nat
    BY Parts, Times DEF AllInv
  <2>2. now <= now' /\ now' \in Nat
    BY <1>1, <2>1
  <2> QED BY <1>1, <2>2 DEF SameList, KeepList, listVars
<1>6. ~AsksBelow(this, ctxs)
  BY <1>1, TopAsksNow DEF Early
<1>7. AskedNodesAreUsable' /\ AskingFits(ctxs') /\ NoMoreAsk /\ Quiet
  BY <1>1, <1>4, <1>5, <1>6, OwnAsk, SendQuiet DEF Done
<1>8. "start" \in Places(Top.fn)
  BY <1>1 DEF Places, SendPlaces
<1>9. f \in Frames /\ f.fn = "send" /\ f.ctx = this /\ f.at = "start" /\ ~Holding(f)
  BY <1>1, <1>8, Parts, TopFrame, NewFrame DEF AllInv, Holding
<1>10. stack' = [stack EXCEPT ![Len(stack)] = f]
  BY <1>1, Parts, FrameAt DEF Goto, AllInv
<1> HIDE DEF f
<1>11. TopAsks(f, ctxs', ret')
  BY <1>6, <1>7, <1>9 DEF TopAsks, AsksBelow, NoMoreAsk
<1> QED BY <1>1, <1>7, <1>9, <1>10, <1>11, MoveAsks

LEMMA StartReturns ==
  ASSUME AllInv, stack # <<>>, Top.fn = "execute", UNCHANGED ctxs, SameList, Quiet,
         NEW code, Return(code), code = "OK" => ~AsksAbove(this - 1, ctxs)
  PROVE  AskInv'
<1>1. AskedNodesAreUsable' /\ AskingFits(ctxs') /\ NoMoreAsk
  BY SameAsk
<1>2. code = "OK" => ~AsksAbove(this - 1, ctxs')
  OBVIOUS
<1> QED BY <1>1, <1>2, NoMoreBelow, ReturnAsks

LEMMA ExecuteStartAsks == ASSUME AllInv, ExecuteStart PROVE AskInv'
<1>1. stack # <<>> /\ Top.fn = "execute" /\ Top.at = "start" /\ UNCHANGED ctxs /\ SameList
  BY ListStays DEF ExecuteStart, In, AllInv
<1>2. Quiet
  BY <1>1 DEF Quiet, Waits
<1>3. CASE Ctx.error /\ Return(IF Ctx.state \in {"OK", "WAITING"} THEN "ERROR" ELSE Ctx.state)
  <2> DEFINE code == IF Ctx.state \in {"OK", "WAITING"} THEN "ERROR" ELSE Ctx.state
  <2>1. Return(code) /\ code # "OK"
    BY <1>3
  <2> HIDE DEF code
  <2> QED BY <1>1, <1>2, <2>1, StartReturns
<1>4. CASE ~Ctx.error /\ Ctx.response # None /\ Ctx.state = "OK" /\ Return("OK")
  <2>1. Done(Ctx) /\ ~Asking(Ctx)
    BY <1>1, <1>4, TopKnows DEF Done, Asking, RawFirst, AllInv
  <2>2. ASSUME NEW k \in DOMAIN ctxs, k > this - 1 PROVE ~Asking(ctxs[k])
    <3>1. k \in Nat /\ this \in Nat /\ this \in DOMAIN ctxs /\ Ctx = ctxs[this]
      BY <1>1, TopAsksNow
    <3>2. k = this \/ this < k
      BY <2>2, <3>1
    <3>3. CASE this < k
      BY <2>1, <3>1, <3>3 DEF AllInv, AskInv, AskingFits
    <3> QED BY <2>1, <3>1, <3>2, <3>3
  <2>3. ~AsksAbove(this - 1, ctxs)
    BY <2>2 DEF AsksAbove
  <2> QED BY <1>1, <1>2, <1>4, <2>3, StartReturns
<1>5. CASE /\ ~Ctx.error /\ ~(Ctx.response # None /\ Ctx.state = "OK")
           /\ IF this < Len(ctxs) THEN Call("required", "execute", this + 1) ELSE Goto("work")
  <2>1. ~AsksBelow(this, ctxs)
    <3>1. ~Served(Ctx)
      BY <1>5 DEF Served
    <3> QED BY <1>1, <3>1, TopAsksNow
  <2>2. AskedNodesAreUsable' /\ AskingFits(ctxs') /\ NoMoreAsk
    BY <1>1, SameAsk
  <2>3. /\ DOMAIN ctxs = 1 .. Len(ctxs) /\ Len(ctxs) \in Nat /\ this \in Nat
        /\ "required" \in Places(Top.fn) /\ "work" \in Places(Top.fn)
    BY <1>1, TopAsksNow DEF Places, ExecutePlaces
  <2>4. CASE this < Len(ctxs) /\ Call("required", "execute", this + 1)
    <3> DEFINE f == [fn |-> Top.fn, ctx |-> this, at |-> "required", n |-> Top.n]
               g == Frame("execute", this + 1)
    <3>1. f \in Frames /\ ~Holding(f)
      BY <1>1, <2>3, Parts, TopFrame, NewFrame DEF AllInv, Holding
    <3>2. g \in Frames /\ g.at = "start" /\ g.fn = "execute" /\ g.ctx = this + 1
      BY <2>3 DEF Frame, Frames, ExecutePlaces
    <3>3. stack' = Append([stack EXCEPT ![Len(stack)] = f], g)
      BY <1>1, <2>4, Parts, FrameAt DEF Call, AllInv
    <3> HIDE DEF f, g
    <3>4. TopAsks(g, ctxs', ret')
      <4>1. ASSUME NEW j \in DOMAIN ctxs', Asking(ctxs'[j]), j < this + 1 PROVE this + 1 = j + 1
        <5>1. ~(j < this) /\ j \in Nat /\ this \in Nat
          BY <1>1, <2>1, <2>3, <4>1 DEF AsksBelow
        <5> QED BY <4>1, <5>1
      <4> QED BY <3>2, <4>1 DEF TopAsks, Early
    <3> QED BY <1>1, <1>2, <2>2, <3>1, <3>2, <3>3, <3>4, CallAsks
  <2>5. CASE ~(this < Len(ctxs)) /\ Goto("work")
    <3> DEFINE f == [fn |-> Top.fn, ctx |-> this, at |-> "work", n |-> Top.n]
    <3>1. f \in Frames /\ ~Holding(f) /\ f.ctx = this /\ f.at = "work"
      BY <1>1, <2>3, Parts, TopFrame, NewFrame DEF AllInv, Holding
    <3>2. stack' = [stack EXCEPT ![Len(stack)] = f]
      BY <1>1, <2>5, Parts, FrameAt DEF Goto, AllInv
    <3> HIDE DEF f
    <3>3. ~AsksAbove(this, ctxs')
      BY <1>1, <2>3, <2>5 DEF AsksAbove
    <3>4. TopAsks(f, ctxs', ret')
      BY <1>1, <2>1, <3>1, <3>3 DEF TopAsks, AsksBelow
    <3> QED BY <1>1, <1>2, <2>2, <3>1, <3>2, <3>4, MoveAsks
  <2> QED BY <1>5, <2>4, <2>5
<1> QED BY <1>3, <1>4, <1>5 DEF ExecuteStart

\* in3_ctx_execute returns that it waits.
LEMMA WaitingReturns ==
  ASSUME AllInv, stack # <<>>, Top.fn = "execute", UNCHANGED ctxs, SameList, Return("WAITING")
  PROVE  AskInv'
<1>1. AskedNodesAreUsable' /\ AskingFits(ctxs') /\ NoMoreAsk
  BY SameAsk
<1> QED BY <1>1, NoMoreBelow, ReturnAsks

LEMMA ExecuteRequiredAsks == ASSUME AllInv, ExecuteRequired PROVE AskInv'
<1>1. stack # <<>> /\ Top.fn = "execute" /\ Top.at = "required" /\ UNCHANGED ctxs /\ SameList
  BY ListStays DEF ExecuteRequired, In, AllInv
<1>2. CASE ret = "WAITING" /\ Return(ret)
  BY <1>1, <1>2, WaitingReturns
<1>3. CASE ret # "OK" /\ ret # "WAITING" /\ Return(ret)
  BY <1>1, <1>3, StartReturns DEF Quiet
<1>4. CASE ret = "OK" /\ Goto("work")
  <2> DEFINE f == [fn |-> Top.fn, ctx |-> this, at |-> "work", n |-> Top.n]
  <2>1. "work" \in Places(Top.fn)
    BY <1>1 DEF Places, ExecutePlaces
  <2>2. f \in Frames /\ ~Holding(f) /\ f.ctx = this /\ f.at = "work"
    BY <1>1, <2>1, Parts, TopFrame, NewFrame DEF AllInv, Holding
  <2>3. stack' = [stack EXCEPT ![Len(stack)] = f]
    BY <1>1, <1>4, Parts, FrameAt DEF Goto, AllInv
  <2> HIDE DEF f
  <2>4. ~AsksBelow(this, ctxs) /\ ~AsksAbove(this, ctxs)
    BY <1>1, <1>4, TopAsksNow DEF Early, TopAsks
  <2>5. TopAsks(f, ctxs', ret')
    BY <1>1, <2>2, <2>4 DEF TopAsks, AsksBelow, AsksAbove
  <2>6. AskedNodesAreUsable' /\ AskingFits(ctxs') /\ NoMoreAsk /\ Quiet
    BY <1>1, <1>4, SameAsk DEF Quiet
  <2> QED BY <1>1, <2>2, <2>3, <2>5, <2>6, MoveAsks
<1> QED BY <1>2, <1>3, <1>4 DEF ExecuteRequired

LEMMA ExecuteResponseAsks == ASSUME AllInv, ExecuteResponse PROVE AskInv'
<1>1. stack # <<>> /\ Top.fn = "execute" /\ Top.at = "work" /\ UNCHANGED ctxs /\ SameList
  BY ListStays DEF ExecuteResponse, In, AllInv
<1>2. CASE Return("WAITING")
  BY <1>1, <1>2, WaitingReturns
<1>3. CASE Ctx.raw # <<>>
  <2>1. NobodyAsks(ctxs)
    BY <1>1, <1>3, NobodyNow DEF Asking
  <2>2. NobodyAsks(ctxs')
    BY <1>1, <2>1
  <2> QED BY <2>2, NobodyKeeps
<1> QED BY <1>2, <1>3 DEF ExecuteResponse

-----------------------------------------------------------------------------
(* The list, the white list and the choice of nodes.                       *)

\* A context whose nodes are still to be chosen.
LEMMA NobodyWhileListing ==
  ASSUME AllInv, stack # <<>>, Top.fn = "execute",
         \/ Top.at = "work" /\ Ctx.nodes = <<>>
         \/ Top.at \in {"whitelist", "pick"}
         \/ Top.at \in {"listed", "whitelisted"} /\ ret # "WAITING"
  PROVE  NobodyAsks(ctxs)
<1>1. Ctx.nodes = <<>>
  BY WorkFrame DEF AllInv
<1> QED BY <1>1, NobodyNow DEF Asking

LEMMA NobodyWithSame == ASSUME NobodyAsks(ctxs), UNCHANGED ctxs PROVE AskInv'
<1>1. NobodyAsks(ctxs')
  OBVIOUS
<1> QED BY <1>1, NobodyKeeps

LEMMA NobodyAdded ==
  ASSUME AllInv, stack # <<>>, NobodyAsks(ctxs), NEW kind \in Kinds, NEW dataNode \in Nodes \cup {None},
         ctxs' = AddRequired(this, NewCtx(kind, dataNode, 0, 0))
  PROVE  AskInv'
<1> DEFINE d == NewCtx(kind, dataNode, 0, 0)
<1>1. d \in GoodContexts /\ ~Asking(d)
  <2>1. 0 \in Nat
    OBVIOUS
  <2>2. d.nodes = <<>>
    BY DEF NewCtx
  <2> QED BY <2>1, <2>2, NewIsGood DEF Asking
<1>2. ctxs' = AddRequired(this, d)
  OBVIOUS
<1> HIDE DEF d
<1>3. \A k \in DOMAIN ctxs' : ctxs'[k] \in {d} \/ \E j \in DOMAIN ctxs : ctxs'[k] = ctxs[j]
  BY <1>1, <1>2, AddedMembers DEF AllInv
<1>4. ASSUME NEW k \in DOMAIN ctxs' PROVE ~Asking(ctxs'[k])
  BY <1>1, <1>3 DEF NobodyAsks
<1> QED BY <1>4, NobodyKeeps DEF NobodyAsks

LEMMA NobodyCut ==
  ASSUME AllInv, stack # <<>>, NobodyAsks(ctxs), NEW k \in this + 1 .. Len(ctxs), ctxs' = RemoveRequired(k)
  PROVE  AskInv'
<1>1. k \in this + 1 .. Len(ctxs) + 1
  BY TopAsksNow
<1>2. \A j \in DOMAIN ctxs' : j \in DOMAIN ctxs /\ ctxs'[j] = ctxs[j]
  BY <1>1, CutMembers DEF AllInv
<1>3. NobodyAsks(ctxs')
  BY <1>2 DEF NobodyAsks
<1> QED BY <1>3, NobodyKeeps

LEMMA NobodyOwn ==
  ASSUME AllInv, stack # <<>>, NobodyAsks(ctxs), NEW c \in GoodContexts, ~Asking(c),
         ctxs' = [ctxs EXCEPT ![this] = c]
  PROVE  AskInv'
<1>1. \A k \in DOMAIN ctxs' : k \in DOMAIN ctxs /\ (ctxs'[k] = c \/ ctxs'[k] = ctxs[k])
  BY OwnMembers DEF AllInv
<1>2. NobodyAsks(ctxs')
  BY <1>1 DEF NobodyAsks
<1> QED BY <1>2, NobodyKeeps

LEMMA NobodyFailed ==
  ASSUME AllInv, stack # <<>>, NobodyAsks(ctxs), NEW code \in Codes \ {"OK"}, Fail(code)
  PROVE  AskInv'
<1>1. \/ ctxs' = ctxs
      \/ Erred(Ctx, code) \in GoodContexts /\ ctxs' = [ctxs EXCEPT ![this] = Erred(Ctx, code)]
  BY FailedMembers DEF Fail, AllInv
<1>2. ~Asking(Erred(Ctx, code))
  <2>1. Ctx \in GoodContexts /\ ~Asking(Ctx)
    BY TopAsksNow, TopKnows DEF NobodyAsks, AllInv
  <2> QED BY <2>1, ErredKnows, Zenon
<1> QED BY <1>1, <1>2, NobodyWithSame, NobodyOwn

LEMMA NoUpdateAsks == ASSUME AllInv, NoUpdate \/ ListFailed PROVE AskInv'
<1>1. stack # <<>> /\ Top.fn = "execute" /\ Top.at = "work" /\ Ctx.nodes = <<>> /\ UNCHANGED ctxs
  BY DEF NoUpdate, ListFailed, Listing, In
<1> QED BY <1>1, NobodyWhileListing, NobodyWithSame

LEMMA RequestListAsks == ASSUME AllInv, RequestList PROVE AskInv'
<1> DEFINE dataNode == IF upd8 # None /\ upd8.exp # 0 THEN upd8.node ELSE None
<1>1. /\ stack # <<>> /\ Top.fn = "execute" /\ Top.at = "work" /\ Ctx.nodes = <<>>
      /\ ctxs' = AddRequired(this, NewCtx("in3_nodeList", dataNode, 0, 0))
  BY DEF RequestList, Listing, In
<1>2. dataNode \in Nodes \cup {None} /\ "in3_nodeList" \in Kinds
  <2>1. upd8 # None => upd8.node \in Nodes \cup {None}
    BY Parts DEF ListType, Updates, AllInv
  <2> QED BY <2>1 DEF Kinds
<1> HIDE DEF dataNode
<1> QED BY <1>1, <1>2, NobodyWhileListing, NobodyAdded

\* The call has waited for a request that it made.
LEMMA RequestedAsks ==
  ASSUME AllInv, stack # <<>>, Top.fn = "execute", Top.at \in {"listed", "whitelisted"}, SameList,
         UNCHANGED ctxs \/ (ret # "OK" /\ Fail(ret)),
         ret = "WAITING" => Fail(ret)
  PROVE  AskInv'
<1>1. CASE ret # "WAITING"
  <2>1. NobodyAsks(ctxs) /\ ret \in Codes
    BY <1>1, NobodyWhileListing, Parts DEF AllInv
  <2> QED BY <2>1, NobodyWithSame, NobodyFailed
<1>2. CASE ret = "WAITING"
  <2>1. "WAITING" \in Codes \ {"OK"}
    BY DEF Codes
  <2>2. ctxs' = SetError(ctxs, this, "WAITING") /\ Return("WAITING")
    BY <1>2 DEF Fail
  <2>3. ctxs' = ctxs
    BY <2>2 DEF SetError
  <2> QED BY <2>2, <2>3, WaitingReturns
<1> QED BY <1>1, <1>2

LEMMA ListRequestedAsks == ASSUME AllInv, ListRequested PROVE AskInv'
<1>1. /\ stack # <<>> /\ Top.fn = "execute" /\ Top.at = "listed" /\ SameList
      /\ IF ret = "OK" THEN UNCHANGED ctxs ELSE Fail(ret)
  BY ListStays DEF ListRequested, In, AllInv
<1> QED BY <1>1, RequestedAsks

LEMMA ListArrivedAsks == ASSUME AllInv, ListArrived PROVE AskInv'
<1> DEFINE k == ListRequest
<1>1. /\ stack # <<>> /\ Top.fn = "execute" /\ Top.at = "work" /\ k # 0 /\ Ctx.nodes = <<>>
      /\ \/ ctxs' = SetError(SetError(ctxs, k, "ERROR"), this, "ERROR")
         \/ ctxs' = RemoveRequired(k)
  BY DEF ListArrived, Listing, In
<1>2. k \in this + 1 .. Len(ctxs)
  BY <1>1, Parts, FoundRequired DEF ListRequest, AllInv
<1> HIDE DEF k
<1>3. NobodyAsks(ctxs)
  BY <1>1, NobodyWhileListing
<1>4. CASE ctxs' = RemoveRequired(k)
  BY <1>1, <1>2, <1>3, <1>4, NobodyCut
<1>5. CASE ctxs' = SetError(SetError(ctxs, k, "ERROR"), this, "ERROR")
  <2>1. /\ DOMAIN ctxs' = DOMAIN ctxs
        /\ \A j \in DOMAIN ctxs' : ctxs'[j] = ctxs[j] \/ ctxs'[j] = Erred(ctxs[j], "ERROR")
    BY <1>1, <1>2, <1>5, BothErredMembers DEF AllInv
  <2>2. ASSUME NEW j \in DOMAIN ctxs' PROVE ~Asking(ctxs'[j])
    <3>1. "ERROR" \in Codes \ {"OK"}
      BY DEF Codes
    <3>2. j \in DOMAIN ctxs /\ ctxs[j] \in GoodContexts /\ ~Asking(ctxs[j])
      <4>1. ctxs \in Seq(GoodContexts)
        BY Parts DEF ChainInv, AllInv
      <4> QED BY <1>3, <2>1, <4>1, ElementOfSeq, LenProperties DEF NobodyAsks
    <3>3. ~Asking(Erred(ctxs[j], "ERROR"))
      BY <3>1, <3>2, ErredKnows, Zenon
    <3>4. ctxs'[j] = ctxs[j] \/ ctxs'[j] = Erred(ctxs[j], "ERROR")
      BY <2>1
    <3>5. CASE ctxs'[j] = ctxs[j]
      BY <3>2, <3>5
    <3>6. CASE ctxs'[j] = Erred(ctxs[j], "ERROR")
      BY <3>3, <3>6
    <3> QED BY <3>4, <3>5, <3>6
  <2> QED BY <2>2, NobodyKeeps DEF NobodyAsks
<1> QED BY <1>1, <1>4, <1>5

LEMMA NoWhitelistingAsks == ASSUME AllInv, NoWhitelisting PROVE AskInv'
<1>1. stack # <<>> /\ Top.fn = "execute" /\ Top.at = "whitelist" /\ UNCHANGED ctxs
  BY DEF NoWhitelisting, AtWhitelist, In
<1> QED BY <1>1, NobodyWhileListing, NobodyWithSame

LEMMA RequestWhitelistAsks == ASSUME AllInv, RequestWhitelist PROVE AskInv'
<1>1. /\ stack # <<>> /\ Top.fn = "execute" /\ Top.at = "whitelist"
      /\ ctxs' = AddRequired(this, NewCtx("in3_whiteList", None, 0, 0))
  BY DEF RequestWhitelist, AtWhitelist, In
<1>2. "in3_whiteList" \in Kinds
  BY DEF Kinds
<1> QED BY <1>1, <1>2, NobodyWhileListing, NobodyAdded

LEMMA WhitelistRequestedAsks == ASSUME AllInv, WhitelistRequested PROVE AskInv'
<1>1. /\ stack # <<>> /\ Top.fn = "execute" /\ Top.at = "whitelisted" /\ SameList
      /\ IF ret = "OK" THEN UNCHANGED ctxs ELSE Fail(ret)
  BY ListStays DEF WhitelistRequested, In, AllInv
<1> QED BY <1>1, RequestedAsks

LEMMA WhitelistArrivedAsks == ASSUME AllInv, WhitelistArrived PROVE AskInv'
<1> DEFINE k == WhiteRequest
<1>1. /\ stack # <<>> /\ Top.fn = "execute" /\ Top.at = "whitelist" /\ k # 0
      /\ \/ Fail("ERROR")
         \/ ctxs' = RemoveRequired(k)
  BY DEF WhitelistArrived, AtWhitelist, In
<1>2. k \in this + 1 .. Len(ctxs)
  BY <1>1, Parts, FoundRequired DEF WhiteRequest, AllInv
<1> HIDE DEF k
<1>3. NobodyAsks(ctxs)
  BY <1>1, NobodyWhileListing
<1>4. "ERROR" \in Codes \ {"OK"}
  BY DEF Codes
<1> QED BY <1>1, <1>2, <1>3, <1>4, NobodyCut, NobodyFailed

\* What is picked is asked, and is usable.
LEMMA PickedAsks ==
  ASSUME AllInv, stack # <<>>, Top.fn = "execute", Top.at = "pick", version' = version, now' = now,
         NEW usable, usable = Usable(until', Ctx.dataNode), NEW s \in Picks(usable), Return("WAITING"),
         ctxs' = [ctxs EXCEPT ![this].nodes =
                    [k \in DOMAIN s |-> [addr |-> s[k], of |-> version, ok |-> TRUE]]]
  PROVE  AskInv'
<1>1. usable \subseteq Listed /\ \A n \in usable : until'[n] <= now
  BY DEF Usable
<1>2. PICK c \in GoodContexts : /\ ctxs' = [ctxs EXCEPT ![this] = c] /\ c.nodes = Picked(s)
                                /\ c.raw = <<>> /\ c.response = Ctx.response
  BY <1>1, PickedFields DEF AllInv
<1>3. /\ ctxs'[this] = c /\ this \in DOMAIN ctxs /\ DOMAIN ctxs' = DOMAIN ctxs
      /\ \A k \in DOMAIN ctxs' : k # this => ctxs'[k] = ctxs[k]
  BY <1>2, OwnMembers DEF AllInv
<1>4. NobodyAsks(ctxs) /\ this \in Nat /\ DOMAIN ctxs = 1 .. Len(ctxs) /\ Len(ctxs) \in Nat
  BY NobodyWhileListing, TopAsksNow
<1>5. ASSUME NEW m \in ToSet(c.nodes) PROVE m.of = version /\ m.addr \in Listed /\ until'[m.addr] <= now
  <2>1. PICK k \in DOMAIN Picked(s) : m = Picked(s)[k]
    BY <1>2 DEF ToSet
  <2>2. Picked(s)[k].of = version /\ Picked(s)[k].addr \in usable
    BY <1>1, Parts, SomePicked DEF AllInv
  <2> QED BY <1>1, <2>1, <2>2
<1>6. Listed' = Listed
  BY DEF Listed, nodelist
<1>7. AskedNodesAreUsable'
  <2>1. ASSUME NEW k \in DOMAIN ctxs', ctxs'[k].raw = <<>>, NEW m \in ToSet(ctxs'[k].nodes)
        PROVE  m.of = version' /\ m.addr \in Listed' /\ until'[m.addr] <= now'
    <3>1. CASE k = this
      BY <2>1, <3>1, <1>3, <1>5, <1>6
    <3>2. CASE k # this
      <4>1. k \in DOMAIN ctxs /\ ctxs'[k] = ctxs[k] /\ ctxs[k].nodes = <<>>
        BY <2>1, <3>2, <1>3, <1>4 DEF NobodyAsks, Asking
      <4>2. ToSet(<<>>) = {}
        BY DEF ToSet
      <4> QED BY <2>1, <4>1, <4>2
    <3> QED BY <3>1, <3>2
  <2> QED BY <2>1 DEF AskedNodesAreUsable
<1>8. ASSUME NEW k \in DOMAIN ctxs', Asking(ctxs'[k]) PROVE k = this
  BY <1>3, <1>4, <1>8 DEF NobodyAsks
<1>9. AskingFits(ctxs')
  <2>1. this + 1 \in DOMAIN ctxs => Served(ctxs[this + 1])
    BY TopKnows DEF Knows, AllInv
  <2>2. \A j \in DOMAIN ctxs : j < this => ~Done(ctxs[j])
    BY TopKnows DEF NoneDone, AllInv
  <2>3. this + 1 \in DOMAIN ctxs' => Served(ctxs'[this + 1])
    BY <1>3, <1>4, <2>1
  <2>4. \A j \in DOMAIN ctxs' : j < this => ~Done(ctxs'[j])
    BY <1>3, <1>4, <2>2
  <2> QED BY <1>8, <2>3, <2>4 DEF AskingFits
<1>10. \A k \in DOMAIN ctxs' : Asking(ctxs'[k]) /\ k < this => this = k + 1
  <2>1. ASSUME NEW k \in DOMAIN ctxs', Asking(ctxs'[k]), k < this PROVE FALSE
    <3>1. k = this /\ this \in Nat
      BY <1>4, <1>8, <2>1
    <3> QED BY <2>1, <3>1
  <2> QED BY <2>1
<1>11. "WAITING" # "OK"
  OBVIOUS
<1> QED BY <1>7, <1>9, <1>10, <1>11, ReturnAsks

LEMMA PickNodesAsks == ASSUME AllInv, PickNodes PROVE AskInv'
<1> DEFINE usable == Usable(until', Ctx.dataNode)
<1>1. /\ stack # <<>> /\ Top.fn = "execute" /\ Top.at = "pick" /\ version' = version /\ KeepClock
      /\ \/ Fail("ERROR")
         \/ \E s \in Picks(usable) :
              /\ ctxs' = [ctxs EXCEPT ![this].nodes =
                   [k \in DOMAIN s |-> [addr |-> s[k], of |-> version, ok |-> TRUE]]]
              /\ Return("WAITING")
  BY DEF PickNodes, In
<1>2. usable = Usable(until', Ctx.dataNode) /\ now' = now
  BY <1>1, SameClock
<1> HIDE DEF usable
<1>3. CASE Fail("ERROR")
  <2>1. "ERROR" \in Codes \ {"OK"}
    BY DEF Codes
  <2> QED BY <1>1, <1>3, <2>1, NobodyWhileListing, NobodyFailed
<1>4. ASSUME NEW s \in Picks(usable), Return("WAITING"),
             ctxs' = [ctxs EXCEPT ![this].nodes =
                        [k \in DOMAIN s |-> [addr |-> s[k], of |-> version, ok |-> TRUE]]]
      PROVE  AskInv'
  BY <1>1, <1>2, <1>4, PickedAsks
<1> QED BY <1>1, <1>3, <1>4

-----------------------------------------------------------------------------
(* find_valid_result, and the rest.                                        *)

LEMMA RawIsNotAsking == ASSUME NEW c, c.raw # <<>> PROVE ~Asking(c)
BY DEF Asking

LEMMA NobodyWhileVerifying ==
  ASSUME AllInv, stack # <<>>, Top.fn = "execute",
         Top.at = "verify" \/ (Top.at = "verifying" /\ ret # "WAITING")
  PROVE  NobodyAsks(ctxs)
<1>1. ~Asking(Ctx)
  BY WorkFrame DEF AllInv, Asking
<1> QED BY <1>1, NobodyNow

LEMMA RejectAsks ==
  ASSUME AllInv, RejectUnparsed \/ RejectError \/ RejectWrong PROVE AskInv'
<1>1. stack # <<>> /\ Top.fn = "execute" /\ Top.at = "verify"
  BY LookedAt DEF AllInv
<1>2. PICK d \in GoodContexts : ctxs' = [ctxs EXCEPT ![this] = d] /\ d.raw # <<>>
  BY LookedAt DEF AllInv
<1> QED BY <1>1, <1>2, RawIsNotAsking, NobodyWhileVerifying, NobodyOwn

LEMMA RequestCodeAsks == ASSUME AllInv, RequestCode PROVE AskInv'
<1>1. stack # <<>> /\ Top.fn = "execute" /\ Top.at = "verify"
  BY CodeAskedFor DEF AllInv
<1>2. PICK c \in GoodContexts, d \in GoodContexts :
        /\ ctxs' = [AddRequired(this, d) EXCEPT ![this] = c] /\ c.raw # <<>> /\ d.nodes = <<>>
  BY CodeAskedFor DEF AllInv
<1>3. \A k \in DOMAIN ctxs' : ctxs'[k] \in {c, d} \/ \E j \in DOMAIN ctxs : ctxs'[k] = ctxs[j]
  BY <1>1, <1>2, AddedAndOwnMembers DEF AllInv
<1>4. ~Asking(c) /\ ~Asking(d) /\ NobodyAsks(ctxs)
  BY <1>1, <1>2, NobodyWhileVerifying DEF Asking
<1>5. ASSUME NEW k \in DOMAIN ctxs' PROVE ~Asking(ctxs'[k])
  BY <1>3, <1>4 DEF NobodyAsks
<1> QED BY <1>5, NobodyKeeps DEF NobodyAsks

LEMMA CodeRequestedAsks == ASSUME AllInv, CodeRequested PROVE AskInv'
<1>1. stack # <<>> /\ Top.fn = "execute" /\ Top.at = "verifying"
  BY CodeAnswered DEF AllInv
<1>2. PICK d \in GoodContexts :
        /\ ctxs' = [ctxs EXCEPT ![this] = d] /\ d.raw # <<>>
        /\ \/ ret = "WAITING" /\ Return(ret) /\ d.state = "WAITING" /\ until' = until
           \/ ret # "WAITING" /\ NextNode
  BY CodeAnswered DEF AllInv
<1>3. CASE ret # "WAITING"
  BY <1>1, <1>2, <1>3, RawIsNotAsking, NobodyWhileVerifying, NobodyOwn
<1>4. CASE ret = "WAITING"
  <2>1. Return("WAITING") /\ d.state = "WAITING" /\ until' = until
    BY <1>2, <1>4
  <2>2. ~Asking(d) /\ ~Done(d) /\ ~AsksBelow(this, ctxs)
    BY <1>1, <1>2, <2>1, RawIsNotAsking, TopAsksNow DEF Done, Early
  <2>3. SameList
    <3>1. now' = now /\ version' = version /\ now \in Nat
      BY SameClock, Parts, Times DEF CodeRequested, KeepAllButUntil, AllInv
    <3> QED BY <2>1, <3>1 DEF SameList
  <2>4. AskedNodesAreUsable' /\ AskingFits(ctxs') /\ NoMoreAsk
    BY <1>1, <1>2, <2>2, <2>3, OwnAsk
  <2> QED BY <1>1, <2>1, <2>4, NoMoreBelow, ReturnAsks
<1> QED BY <1>3, <1>4

LEMMA TakeCodeAsks == ASSUME AllInv, TakeCode PROVE AskInv'
<1>1. stack # <<>> /\ Top.fn = "execute" /\ Top.at = "verify"
  BY CodeTaken DEF AllInv
<1>2. PICK d \in GoodContexts : ctxs' = [ctxs EXCEPT ![this] = d] /\ d.raw # <<>>
  BY CodeTaken DEF AllInv
<1> QED BY <1>1, <1>2, RawIsNotAsking, NobodyWhileVerifying, NobodyOwn

LEMMA AcceptAsks == ASSUME AllInv, Accept PROVE AskInv'
<1>1. stack # <<>> /\ Top.fn = "execute" /\ Top.at = "verify"
  BY Accepted DEF AllInv
<1>2. PICK d \in GoodContexts : ctxs' = [ctxs EXCEPT ![this] = d] /\ d.raw # <<>>
  BY Accepted DEF AllInv
<1> QED BY <1>1, <1>2, RawIsNotAsking, NobodyWhileVerifying, NobodyOwn

LEMMA NoValidResultAsks == ASSUME AllInv, NoValidResult PROVE AskInv'
<1>1. stack # <<>> /\ Top.fn = "execute" /\ Top.at = "verify"
  BY NoResultLeft DEF AllInv
<1>2. PICK d \in GoodContexts : ctxs' = [ctxs EXCEPT ![this] = d] /\ d.nodes = <<>>
  BY NoResultLeft DEF AllInv
<1>3. ~Asking(d)
  BY <1>2 DEF Asking
<1> QED BY <1>1, <1>2, <1>3, NobodyWhileVerifying, NobodyOwn

-----------------------------------------------------------------------------
LEMMA NoContextAsks == ASSUME ctxs' = <<>> PROVE AskInv'
<1>1. DOMAIN ctxs' = {}
  OBVIOUS
<1> QED BY <1>1, NobodyKeeps DEF NobodyAsks

LEMMA SubmitAsks == ASSUME Submit PROVE AskInv'
<1>1. PICK needs \in 0 .. (IF wl = None THEN MaxAux ELSE 0) : ctxs' = <<NewCtx("rpc", None, 0, needs)>>
  BY DEF Submit
<1> DEFINE c == NewCtx("rpc", None, 0, needs)
<1>2. ~Asking(c)
  BY DEF NewCtx, Asking
<1>3. ctxs' = <<c>>
  BY <1>1
<1> HIDE DEF c
<1>4. DOMAIN ctxs' = {1} /\ ctxs'[1] = c
  BY <1>3
<1> QED BY <1>2, <1>4, NobodyKeeps DEF NobodyAsks

LEMMA UnchangedAsks == ASSUME AskInv, UNCHANGED vars PROVE AskInv'
<1>1. /\ UNCHANGED <<ctxs, stack, ret, now, version, until>> /\ Top' = Top /\ Listed' = Listed
  BY DEF vars, Top, Listed, nodelist
<1>2. AskedNodesAreUsable'
  BY <1>1 DEF AskInv, AskedNodesAreUsable
<1>3. /\ AskingFits(ctxs')
      /\ stack' # <<>> =>
           TopAsks(Top', ctxs', ret') /\ \A i \in DOMAIN stack' : Holds(stack'[i], ctxs', ret', Top')
  BY <1>1 DEF AskInv
<1> QED BY <1>2, <1>3
    DEF AskInv, AskingFits, TopAsks, Holds, AsksAbove, Asking, Served, Done, Early, Waits, Holding

LEMMA StepAsks == ASSUME AllInv, [Next]_vars PROVE AskInv'
<1>1. CASE UNCHANGED vars
  BY <1>1, UnchangedAsks DEF AllInv
<1>2. CASE Send
  BY <1>2, SendStartAsks, SendExecutedAsks, SendRequiredAsks, SendSubAsks, SendRecheckedAsks,
     TransportAsks DEF Send
<1>3. CASE Execute
  BY <1>3, ExecuteStartAsks, ExecuteRequiredAsks, ExecuteResponseAsks DEF Execute
<1>4. CASE UpdateList
  BY <1>4, NoUpdateAsks, RequestListAsks, ListRequestedAsks, ListArrivedAsks DEF UpdateList
<1>5. CASE UpdateWhitelist
  BY <1>5, NoWhitelistingAsks, RequestWhitelistAsks, WhitelistRequestedAsks, WhitelistArrivedAsks
  DEF UpdateWhitelist
<1>6. CASE FindValidResult
  BY <1>6, RejectAsks, RequestCodeAsks, CodeRequestedAsks, TakeCodeAsks, AcceptAsks, NoValidResultAsks
  DEF FindValidResult
<1>7. CASE PickNodes \/ Submit
  BY <1>7, PickNodesAsks, SubmitAsks
<1>8. CASE Finish \/ Restart \/ TimePasses
  <2>1. ctxs' = <<>>
    BY <1>8 DEF Finish, Restart, TimePasses, idle
  <2> QED BY <2>1, NoContextAsks
<1> QED BY <1>1, <1>2, <1>3, <1>4, <1>5, <1>6, <1>7, <1>8 DEF Next, Run

\* AskedNodesAreUsable: between the choice of its nodes and the sending, the requests that a request
\* waits for never replace the list it picked from, nor blacklist a node it picked.  A context that
\* has nodes has nothing left to run (AskInv): in3_send_ctx sends it before anything else.
THEOREM AskedNodesStayUsable == Spec => []AskedNodesAreUsable
<1>1. Init => AskInv
  <2> SUFFICES ASSUME Init PROVE AskInv
    OBVIOUS
  <2>1. DOMAIN <<>> = {} /\ ctxs = <<>> /\ stack = <<>>
    BY DEF Init
  <2> QED BY <2>1 DEF AskInv, AskedNodesAreUsable, AskingFits
<1>2. ClientInv /\ ServedInv /\ AskInv /\ [Next]_vars => AskInv'
  BY StepAsks DEF AllInv
<1>3. AskInv => AskedNodesAreUsable
  BY DEF AskInv
<1> QED BY Invariance, ServedKept, <1>1, <1>2, <1>3, PTL DEF Spec
=============================================================================
