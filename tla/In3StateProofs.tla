--------------------------- MODULE In3StateProofs ---------------------------
(***************************************************************************)
(* Proofs about the parts of the in3 client that MCIn3State composes and    *)
(* that have no module of proofs of their own: In3Transport, for any number *)
(* of urls, pieces and parallel transfers, In3Ens, for any number of        *)
(* requests, contracts and changes of their records, In3Headers, for any    *)
(* headers, signers, nodes' answers and size of verified_hashes, In3Usn,     *)
(* for any number of devices, users and bookings, and any times, and         *)
(* In3Config, for any options, chains and nodes.                            *)
(***************************************************************************)
EXTENDS In3Transport, In3Ens, In3Headers, In3Usn, In3Config, SequenceTheorems, WellFoundedInduction, TLAPS

-----------------------------------------------------------------------------
(* Sequences and numbers.                                                  *)

LEMMA LeastOfNaturals ==
  ASSUME NEW T, T \subseteq Nat, T # {}
  PROVE  \E x \in T : \A y \in T : x <= y
<1> DEFINE Less == {p \in Nat \X Nat : p[1] < p[2]}
<1>1. IsWellFoundedOn(Less, Nat)
  BY NatLessThanWellFounded DEF OpToRel
<1>2. PICK x \in T : \A y \in T : ~ (<<y, x>> \in Less)
  <2> HIDE DEF Less
  <2> QED BY <1>1, WFMin
<1>3. ASSUME NEW y \in T PROVE x <= y
  <2>1. x \in Nat /\ y \in Nat /\ <<y, x>> \in Nat \X Nat
    BY <1>3
  <2>2. ~(y < x)
    BY <1>2, <2>1
  <2> QED BY <2>1, <2>2
<1> QED BY <1>3

\* A part of a sequence.
LEMMA Part ==
  ASSUME NEW T, NEW s \in Seq(T), NEW m \in Nat, NEW n \in m .. Len(s)
  PROVE  /\ SubSeq(s, m + 1, n) \in Seq(T) /\ Len(SubSeq(s, m + 1, n)) = n - m
         /\ DOMAIN SubSeq(s, m + 1, n) = 1 .. n - m
         /\ \A i \in 1 .. n - m : SubSeq(s, m + 1, n)[i] = s[m + i]
<1>1. Len(s) \in Nat /\ m + 1 \in Int /\ n \in Int
  BY LenProperties
<1>2. \A i \in m + 1 .. n : s[i] \in T
  BY <1>1, ElementOfSeq
<1>3. /\ SubSeq(s, m + 1, n) \in Seq(T)
      /\ Len(SubSeq(s, m + 1, n)) = IF m + 1 <= n THEN n - (m + 1) + 1 ELSE 0
      /\ \A i \in 1 .. n - (m + 1) + 1 : SubSeq(s, m + 1, n)[i] = s[m + 1 + i - 1]
  BY <1>1, <1>2, SubSeqProperties
<1>4. ASSUME NEW i \in 1 .. n - m PROVE SubSeq(s, m + 1, n)[i] = s[m + i]
  <2>1. i \in 1 .. n - (m + 1) + 1 /\ m + 1 + i - 1 = m + i
    BY <1>1
  <2> QED BY <1>3, <2>1
<1>5. Len(SubSeq(s, m + 1, n)) = n - m
  BY <1>1, <1>3
<1>6. DOMAIN SubSeq(s, m + 1, n) = 1 .. n - m
  BY <1>3, <1>5, LenProperties
<1> QED BY <1>3, <1>4, <1>5, <1>6

\* What was there and what follows it.
LEMMA PartsJoin ==
  ASSUME NEW T, NEW s \in Seq(T), NEW m \in Nat, NEW n \in m .. Len(s)
  PROVE  SubSeq(s, 1, m) \o SubSeq(s, m + 1, n) = SubSeq(s, 1, n)
<1> DEFINE a == SubSeq(s, 1, m)
           b == SubSeq(s, m + 1, n)
           c == SubSeq(s, 1, n)
<1>1. Len(s) \in Nat /\ n \in Nat /\ 0 + 1 = 1 /\ m \in 0 .. Len(s) /\ n \in 0 .. Len(s)
      /\ m - 0 = m /\ n - 0 = n /\ \A i \in Nat : 0 + i = i
  BY LenProperties
<1>2. a \in Seq(T) /\ Len(a) = m /\ \A i \in 1 .. m : a[i] = s[i]
  <2>1. SubSeq(s, 0 + 1, m) \in Seq(T) /\ Len(SubSeq(s, 0 + 1, m)) = m - 0
        /\ \A i \in 1 .. m - 0 : SubSeq(s, 0 + 1, m)[i] = s[0 + i]
    BY <1>1, Part
  <2> QED BY <1>1, <2>1
<1>3. c \in Seq(T) /\ Len(c) = n /\ \A i \in 1 .. n : c[i] = s[i]
  <2>1. SubSeq(s, 0 + 1, n) \in Seq(T) /\ Len(SubSeq(s, 0 + 1, n)) = n - 0
        /\ \A i \in 1 .. n - 0 : SubSeq(s, 0 + 1, n)[i] = s[0 + i]
    BY <1>1, Part
  <2> QED BY <1>1, <2>1
<1>4. b \in Seq(T) /\ Len(b) = n - m /\ \A i \in 1 .. n - m : b[i] = s[m + i]
  BY Part
<1> HIDE DEF a, b, c
<1>5. /\ a \o b \in Seq(T) /\ Len(a \o b) = m + (n - m)
      /\ \A i \in 1 .. Len(a) + Len(b) : (a \o b)[i] = IF i <= Len(a) THEN a[i] ELSE b[i - Len(a)]
  BY <1>2, <1>4, ConcatProperties
<1>6. Len(a \o b) = Len(c)
  BY <1>1, <1>3, <1>5
<1>7. ASSUME NEW i \in 1 .. Len(c) PROVE (a \o b)[i] = c[i]
  <2>1. i \in 1 .. n /\ i \in Nat /\ i \in 1 .. Len(a) + Len(b) /\ Len(a) = m /\ m \in Nat /\ n \in Nat
    BY <1>1, <1>2, <1>3, <1>4
  <2>2. CASE i <= m
    <3>1. (a \o b)[i] = a[i]
      BY <1>5, <2>1, <2>2
    <3>2. i \in 1 .. m
      BY <2>1, <2>2
    <3>3. a[i] = s[i] /\ c[i] = s[i]
      BY <1>2, <1>3, <2>1, <3>2
    <3> QED BY <3>1, <3>3
  <2>3. CASE ~(i <= m)
    <3>1. i - m \in 1 .. n - m /\ m + (i - m) = i
      BY <2>1, <2>3
    <3>2. b[i - m] = s[i]
      BY <1>4, <3>1
    <3>3. (a \o b)[i] = b[i - m]
      BY <1>5, <2>1, <2>3
    <3>4. c[i] = s[i]
      BY <1>3, <2>1
    <3> QED BY <3>2, <3>3, <3>4
  <2> QED BY <2>2, <2>3
<1>8. a \o b = c
  BY <1>3, <1>5, <1>6, <1>7, SeqEqual
<1> QED BY <1>8 DEF a, b, c

LEMMA PrefixByElements ==
  ASSUME NEW T, NEW a \in Seq(T), NEW b \in Seq(T), Len(a) <= Len(b), \A i \in 1 .. Len(a) : a[i] = b[i]
  PROVE  IsPrefix(a, b)
<1> DEFINE n == Len(a)
<1>1. n \in Nat /\ Len(b) \in Nat /\ 0 + 1 = 1 /\ n - 0 = n /\ n \in 0 .. n /\ n \in 0 .. Len(b)
      /\ \A i \in Nat : 0 + i = i
  BY LenProperties
<1>2. /\ SubSeq(a, 0 + 1, n) \in Seq(T) /\ Len(SubSeq(a, 0 + 1, n)) = n - 0
      /\ \A i \in 1 .. n - 0 : SubSeq(a, 0 + 1, n)[i] = a[0 + i]
  BY <1>1, Part
<1>3. /\ SubSeq(b, 0 + 1, n) \in Seq(T) /\ Len(SubSeq(b, 0 + 1, n)) = n - 0
      /\ \A i \in 1 .. n - 0 : SubSeq(b, 0 + 1, n)[i] = b[0 + i]
  BY <1>1, Part
<1>4. SubSeq(a, 1, n) \in Seq(T) /\ SubSeq(b, 1, n) \in Seq(T)
      /\ Len(SubSeq(a, 1, n)) = n /\ Len(SubSeq(b, 1, n)) = n
  BY <1>1, <1>2, <1>3
<1>5. ASSUME NEW i \in 1 .. n PROVE SubSeq(a, 1, n)[i] = SubSeq(b, 1, n)[i]
  <2>1. i \in Nat /\ 0 + i = i
    BY <1>1
  <2>2. SubSeq(a, 1, n)[i] = a[i] /\ SubSeq(b, 1, n)[i] = b[i]
    BY <1>1, <1>2, <1>3, <2>1
  <2> QED BY <2>2
<1>6. SubSeq(a, 1, n) = SubSeq(b, 1, n)
  <2> HIDE DEF n
  <2>1. ASSUME NEW x \in Seq(T), NEW y \in Seq(T), Len(x) = n, Len(y) = n, \A i \in 1 .. n : x[i] = y[i]
        PROVE  x = y
    BY <2>1, SeqEqual
  <2> QED BY <1>4, <1>5, <2>1
<1> QED BY <1>6 DEF IsPrefix

-----------------------------------------------------------------------------
(* An HTTP answer and its beginnings.                                      *)

FirstBlank(text, k) == k \in DOMAIN text /\ text[k] = "blank" /\ \A j \in 1 .. k - 1 : text[j] # "blank"

LEMMA HasFirstBlank ==
  ASSUME NEW text \in Seq(Pieces), WellFormed(text)
  PROVE  \E k \in DOMAIN text : FirstBlank(text, k)
<1> DEFINE T == {k \in DOMAIN text : text[k] = "blank"}
<1>1. Len(text) \in Nat /\ DOMAIN text = 1 .. Len(text)
  BY LenProperties
<1>2. PICK m \in 4 .. Len(text) : text[m] = "blank"
  BY DEF WellFormed
<1>3. T \subseteq Nat /\ T # {}
  <2>1. m \in DOMAIN text
    BY <1>1, <1>2
  <2>2. m \in T
    BY <1>2, <2>1
  <2>3. T \subseteq DOMAIN text
    OBVIOUS
  <2> QED BY <1>1, <2>2, <2>3
<1>4. PICK k \in T : \A j \in T : k <= j
  <2> HIDE DEF T
  <2> QED BY <1>3, LeastOfNaturals
<1>5. ASSUME NEW j \in 1 .. k - 1 PROVE text[j] # "blank"
  <2>1. k \in 1 .. Len(text) /\ k \in Nat
    BY <1>1, <1>4
  <2>2. j \in DOMAIN text /\ ~(k <= j)
    BY <1>1, <1>5, <2>1
  <2> QED BY <1>4, <2>2
<1> QED BY <1>4, <1>5 DEF FirstBlank

LEMMA BodyIs ==
  ASSUME NEW text \in Seq(Pieces), NEW k \in DOMAIN text, FirstBlank(text, k)
  PROVE  Body(text) = SubSeq(text, k + 1, Len(text))
<1>1. Len(text) \in Nat /\ DOMAIN text = 1 .. Len(text)
  BY LenProperties
<1>2. ASSUME NEW j \in DOMAIN text, text[j] = "blank", \A i \in 1 .. j - 1 : text[i] # "blank" PROVE j = k
  <2>1. j \in Nat /\ k \in Nat /\ j > 0 /\ k > 0
    BY <1>1, <1>2
  <2>2. ~(j < k)
    <3>1. j < k => j \in 1 .. k - 1
      BY <2>1
    <3> QED BY <1>2, <3>1 DEF FirstBlank
  <2>3. ~(k < j)
    <3>1. k < j => k \in 1 .. j - 1
      BY <2>1
    <3> QED BY <1>2, <3>1 DEF FirstBlank
  <2> QED BY <2>1, <2>2, <2>3
<1>3. k = CHOOSE j \in DOMAIN text : text[j] = "blank" /\ \A i \in 1 .. j - 1 : text[i] # "blank"
  BY <1>2 DEF FirstBlank
<1> QED BY <1>3 DEF Body

\* The body of the beginning of an answer is the beginning of the answer's body.
LEMMA BodyOfBeginning ==
  ASSUME NEW s \in Seq(Pieces), NEW n \in 0 .. Len(s), WellFormed(SubSeq(s, 1, n))
  PROVE  /\ IsPrefix(Body(SubSeq(s, 1, n)), Body(s))
         /\ Body(SubSeq(s, 1, n)) \in Seq(Pieces)
<1> DEFINE t == SubSeq(s, 1, n)
<1>1. Len(s) \in Nat /\ DOMAIN s = 1 .. Len(s) /\ 0 + 1 = 1 /\ n - 0 = n /\ \A i \in Nat : 0 + i = i
  BY LenProperties
<1>2. t \in Seq(Pieces) /\ Len(t) = n /\ DOMAIN t = 1 .. n /\ \A i \in 1 .. n : t[i] = s[i]
  <2>1. /\ SubSeq(s, 0 + 1, n) \in Seq(Pieces) /\ Len(SubSeq(s, 0 + 1, n)) = n - 0
        /\ DOMAIN SubSeq(s, 0 + 1, n) = 1 .. n - 0
        /\ \A i \in 1 .. n - 0 : SubSeq(s, 0 + 1, n)[i] = s[0 + i]
    BY <1>1, Part
  <2> QED BY <1>1, <2>1
<1>3. WellFormed(t)
  OBVIOUS
<1> HIDE DEF t
<1>4. PICK k \in DOMAIN t : FirstBlank(t, k)
  BY <1>2, <1>3, HasFirstBlank
<1>5. k \in 1 .. n /\ k \in Nat /\ n \in Nat
  BY <1>1, <1>2, <1>4
<1>6. k \in DOMAIN s /\ FirstBlank(s, k)
  <2>1. k \in DOMAIN s
    BY <1>1, <1>5
  <2>2. \A j \in 1 .. k - 1 : j \in 1 .. n
    BY <1>5
  <2> QED BY <1>2, <1>4, <1>5, <2>1, <2>2 DEF FirstBlank
<1>7. Body(t) = SubSeq(t, k + 1, n) /\ Body(s) = SubSeq(s, k + 1, Len(s))
  BY <1>2, <1>4, <1>6, BodyIs
<1> DEFINE a == SubSeq(t, k + 1, n)
           b == SubSeq(s, k + 1, Len(s))
<1>8. /\ a \in Seq(Pieces) /\ Len(a) = n - k /\ DOMAIN a = 1 .. n - k
      /\ \A i \in 1 .. n - k : a[i] = t[k + i]
  <2>1. n \in k .. Len(t)
    BY <1>2, <1>5
  <2> QED BY <1>2, <1>5, <2>1, Part
<1>9. /\ b \in Seq(Pieces) /\ Len(b) = Len(s) - k /\ \A i \in 1 .. Len(s) - k : b[i] = s[k + i]
  <2>1. Len(s) \in k .. Len(s)
    BY <1>1, <1>5
  <2> QED BY <1>5, <2>1, Part
<1> HIDE DEF a, b
<1>10. Len(a) <= Len(b) /\ \A i \in 1 .. Len(a) : a[i] = b[i]
  <2>1. ASSUME NEW i \in 1 .. n - k PROVE i \in 1 .. Len(s) - k /\ k + i \in 1 .. n
    BY <1>1, <1>5
  <2>2. n - k <= Len(s) - k
    BY <1>1, <1>5
  <2> QED BY <1>2, <1>8, <1>9, <2>1, <2>2
<1>11. IsPrefix(a, b)
  BY <1>8, <1>9, <1>10, PrefixByElements
<1> QED BY <1>7, <1>8, <1>11 DEF t, a, b

-----------------------------------------------------------------------------
(* What a call of a transport has done with each url so far.               *)

Texts == [text : Seq(Pieces), error : BOOLEAN]
Endings == {None, "ended", "failed"}

TransportShape ==
  /\ sends \in Seq(Seq(Pieces)) /\ sends # <<>>
  /\ \/ via = "curl" /\ at \in {"start", "perform", "messages", "returned"}
     \/ via = "http" /\ at \in {"connect", "write", "read", "returned"} /\ transfers > 0
  /\ transfers \in 0 .. Len(sends) /\ alive \in BOOLEAN
  /\ taken \in [Urls -> Nat] /\ arrived \in [Urls -> Nat]
  /\ closed \in [Urls -> Endings]
  /\ conn \in [Urls -> {"none", "open", "done", "removed"}]
  /\ results \in [Urls -> Texts]
  /\ \A i \in Urls : taken[i] <= arrived[i] /\ arrived[i] <= Len(sends[i])

Taken(i) == SubSeq(sends[i], 1, taken[i])

\* A url of in3_curl.c: its text is what was taken, all that arrived once its transfer has ended;
\* it was begun or refused in its turn.
CurlUrl(i) ==
  /\ results[i].text = Taken(i)
  /\ conn[i] \in {"done", "removed"} => taken[i] = arrived[i]
  /\ i > transfers => conn[i] = "none"
  /\ i <= transfers => conn[i] # "none" \/ results[i].error

\* With one round of urls no other is begun; the last curl_multi_perform left none open.
CurlRound ==
  Len(sends) <= MaxParallel =>
    /\ at # "start" => transfers = Len(sends)
    /\ at = "messages" /\ ~alive => \A i \in Urls : conn[i] # "open"
    /\ at = "returned" => \A i \in Urls : conn[i] \in {"none", "removed"}

CurlInv == via = "curl" => (at = "start" => transfers = 0) /\ CurlRound /\ \A i \in Urls : CurlUrl(i)

\* A url of in3_http.c: one at hand, the others done or to be asked.
ReadWhole(i) ==
  Nuls(sends[i]) = {} =>
    taken[i] = arrived[i] /\ WellFormed(Taken(i)) /\ results[i].text = Body(Taken(i))

HttpUrl(i) ==
  /\ i > transfers \/ (i = transfers /\ at = "connect") =>
       taken[i] = 0 /\ results[i].text = <<>>
  /\ i = transfers /\ at \in {"write", "read"} /\ Nuls(sends[i]) = {} => results[i].text = Taken(i)
  /\ i < transfers \/ at = "returned" =>
       conn[i] = "removed" /\ (~results[i].error => ReadWhole(i))

HttpInv == via = "http" => (at = "returned" => transfers = Len(sends)) /\ \A i \in Urls : HttpUrl(i)

TransportInv == TransportShape /\ CurlInv /\ HttpInv

LEMMA UrlFacts ==
  ASSUME TransportShape, NEW i \in Urls
  PROVE  /\ sends[i] \in Seq(Pieces) /\ Len(sends[i]) \in Nat /\ i \in Nat /\ i > 0
         /\ taken[i] \in Nat /\ arrived[i] \in Nat /\ taken[i] \in 0 .. Len(sends[i])
         /\ arrived[i] \in taken[i] .. Len(sends[i])
         /\ Urls = 1 .. Len(sends) /\ Len(sends) \in Nat /\ Len(sends) > 0 /\ i <= Len(sends)
         /\ results[i] \in Texts /\ results[i].text \in Seq(Pieces) /\ transfers \in Nat
<1>1. Urls = 1 .. Len(sends) /\ Len(sends) \in Nat /\ sends[i] \in Seq(Pieces) /\ Len(sends) # 0
  BY LenProperties, ElementOfSeq, EmptySeq DEF TransportShape, Urls
<1>2. Len(sends[i]) \in Nat
  BY <1>1, LenProperties
<1>3. /\ taken[i] \in Nat /\ arrived[i] \in Nat /\ taken[i] <= arrived[i] /\ arrived[i] <= Len(sends[i])
      /\ results[i] \in Texts /\ transfers \in 0 .. Len(sends)
  BY DEF TransportShape
<1>4. results[i].text \in Seq(Pieces)
  BY <1>3 DEF Texts
<1> QED BY <1>1, <1>2, <1>3, <1>4

LEMMA TakenIs ==
  ASSUME TransportShape, NEW i \in Urls
  PROVE  /\ Taken(i) \in Seq(Pieces)
         /\ \A n \in taken[i] .. Len(sends[i]) :
              Taken(i) \o SubSeq(sends[i], taken[i] + 1, n) = SubSeq(sends[i], 1, n)
<1>1. sends[i] \in Seq(Pieces) /\ taken[i] \in Nat /\ taken[i] \in 0 .. Len(sends[i]) /\ 0 + 1 = 1 /\ 0 \in Nat
      /\ Len(sends[i]) \in Nat
  BY UrlFacts
<1>2. SubSeq(sends[i], 0 + 1, taken[i]) \in Seq(Pieces)
  BY <1>1, Part
<1>3. \A n \in taken[i] .. Len(sends[i]) : SubSeq(sends[i], 1, taken[i]) \o SubSeq(sends[i], taken[i] + 1, n) = SubSeq(sends[i], 1, n)
  BY <1>1, PartsJoin
<1> QED BY <1>1, <1>2, <1>3 DEF Taken

LEMMA TransportStarts == TransportInit => TransportInv
<1> SUFFICES ASSUME TransportInit PROVE TransportInv
  OBVIOUS
<1>1. /\ sends \in Seq(Seq(Pieces)) /\ sends # <<>>
      /\ \/ via = "curl" /\ at = "start" /\ transfers = 0
         \/ via = "http" /\ at = "connect" /\ transfers = 1
  BY TransportAssumption DEF TransportInit, TransportConstants
<1>2. Urls = 1 .. Len(sends) /\ Len(sends) \in Nat /\ Len(sends) > 0
  BY <1>1, LenProperties, EmptySeq DEF Urls
<1>3. /\ \A i \in Urls : /\ arrived[i] = 0 /\ taken[i] = 0 /\ closed[i] = None /\ conn[i] = "none"
                         /\ results[i] = [text |-> <<>>, error |-> FALSE]
      /\ alive = TRUE
  BY DEF TransportInit
<1>4. \A i \in Urls : sends[i] \in Seq(Pieces) /\ Len(sends[i]) \in Nat
  BY <1>1, <1>2, ElementOfSeq, LenProperties
<1>5. [text |-> <<>>, error |-> FALSE] \in Texts /\ <<>> \in Seq(Pieces)
  BY EmptySeq DEF Texts
<1>6. TransportShape
  <2>1. /\ taken \in [Urls -> Nat] /\ arrived \in [Urls -> Nat] /\ closed \in [Urls -> Endings]
        /\ conn \in [Urls -> {"none", "open", "done", "removed"}]
    BY DEF TransportInit, Endings
  <2>2. results \in [Urls -> Texts]
    BY <1>5 DEF TransportInit
  <2>3. transfers \in 0 .. Len(sends) /\ alive \in BOOLEAN
    BY <1>1, <1>2, <1>3
  <2>4. \A i \in Urls : taken[i] <= arrived[i] /\ arrived[i] <= Len(sends[i])
    BY <1>3, <1>4
  <2> QED BY <1>1, <2>1, <2>2, <2>3, <2>4 DEF TransportShape
<1>7. ASSUME NEW i \in Urls PROVE Taken(i) = <<>>
  BY <1>3, <1>4, <1>7 DEF Taken
<1>8. ASSUME via = "curl", NEW i \in Urls PROVE CurlUrl(i)
  <2>1. transfers = 0 /\ i \in Nat /\ i > 0
    BY <1>1, <1>2, <1>8
  <2> QED BY <1>3, <1>7, <1>8, <2>1 DEF CurlUrl
<1>9. ASSUME via = "http", NEW i \in Urls PROVE HttpUrl(i)
  <2>1. transfers = 1 /\ at = "connect" /\ i \in Nat /\ i > 0
    BY <1>1, <1>2, <1>9
  <2> QED BY <1>3, <1>9, <2>1 DEF HttpUrl
<1>10. CurlInv /\ HttpInv
  BY <1>1, <1>8, <1>9 DEF CurlInv, HttpInv, CurlRound
<1> QED BY <1>6, <1>10 DEF TransportInv

\* The HTTP text of what was received.
LEMMA TextOf ==
  ASSUME NEW s \in Seq(Pieces), NEW m \in Nat, NEW n \in m .. Len(s)
  PROVE  /\ Text(SubSeq(s, m + 1, n)) \in Seq(Pieces)
         /\ Nuls(s) = {} => Text(SubSeq(s, m + 1, n)) = SubSeq(s, m + 1, n)
<1> DEFINE p == SubSeq(s, m + 1, n)
<1>1. /\ p \in Seq(Pieces) /\ Len(p) = n - m /\ DOMAIN p = 1 .. n - m
      /\ \A i \in 1 .. n - m : p[i] = s[m + i]
  BY Part
<1>2. Len(s) \in Nat /\ DOMAIN s = 1 .. Len(s)
  BY LenProperties
<1> HIDE DEF p
<1>3. Nuls(s) = {} => Nuls(p) = {}
  <2>1. ASSUME NEW i \in Nuls(p) PROVE m + i \in Nuls(s)
    <3>1. i \in 1 .. n - m /\ p[i] = "nul"
      BY <1>1, <2>1 DEF Nuls
    <3>2. m + i \in 1 .. Len(s)
      BY <1>2, <3>1
    <3> QED BY <1>1, <1>2, <3>1, <3>2 DEF Nuls
  <2> QED BY <2>1
<1>4. Text(p) \in Seq(Pieces)
  <2>1. CASE Nuls(p) = {}
    BY <1>1, <2>1 DEF Text
  <2>2. CASE Nuls(p) # {}
    <3>1. Nuls(p) \subseteq Nat /\ \A k \in Nuls(p) : k \in 1 .. Len(p)
      BY <1>1 DEF Nuls
    <3>2. \E k \in Nuls(p) : \A j \in Nuls(p) : k <= j
      BY <2>2, <3>1, LeastOfNaturals
    <3> DEFINE k == CHOOSE l \in Nuls(p) : \A j \in Nuls(p) : l <= j
    <3>3. k \in Nuls(p)
      BY <3>2
    <3> HIDE DEF k
    <3>4. k - 1 \in 0 .. Len(p) /\ 0 \in Nat /\ 0 + 1 = 1
      BY <3>1, <3>3
    <3>5. SubSeq(p, 0 + 1, k - 1) \in Seq(Pieces)
      BY <1>1, <3>4, Part
    <3> QED BY <2>2, <3>4, <3>5 DEF Text, k
  <2> QED BY <2>1, <2>2
<1>5. Nuls(p) = {} => Text(p) = p
  BY DEF Text
<1> QED BY <1>3, <1>4, <1>5 DEF p

LEMMA ArriveKeeps ==
  ASSUME TransportInv, NEW u \in Urls, Arrive(u)
  PROVE  TransportInv'
<1>1. /\ UNCHANGED <<via, sends, seconds, taken, conn, results, transfers, alive, at>>
      /\ conn[u] = "open" /\ \A i \in Urls : i # u => arrived'[i] = arrived[i]
      /\ TransportShape
  BY DEF TransportInv, TransportShape, Arrive, given
<1>2. Urls' = Urls /\ \A i \in Urls : Taken(i)' = Taken(i)
  BY <1>1 DEF Urls, Taken
<1>3. TransportShape'
  <2>1. sends[u] \in Seq(Pieces) /\ Len(sends[u]) \in Nat /\ taken[u] <= arrived[u] /\ arrived[u] <= Len(sends[u])
        /\ taken[u] \in Nat /\ arrived[u] \in Nat
    BY <1>1, UrlFacts
  <2>2. CASE arrived[u] < Len(sends[u]) /\ arrived' = [arrived EXCEPT ![u] = @ + 1] /\ UNCHANGED closed
    <3>1. arrived' \in [Urls -> Nat] /\ arrived'[u] = arrived[u] + 1
      BY <1>1, <2>1, <2>2 DEF TransportShape
    <3>2. \A i \in Urls : taken[i] <= arrived'[i] /\ arrived'[i] <= Len(sends[i])
      BY <1>1, <2>1, <2>2, <3>1 DEF TransportShape
    <3> QED BY <1>1, <1>2, <2>2, <3>1, <3>2 DEF TransportShape
  <2>3. CASE UNCHANGED arrived /\ \E e \in {"failed", "ended"} : closed' = [closed EXCEPT ![u] = e]
    <3>1. closed' \in [Urls -> Endings]
      BY <1>1, <2>3 DEF TransportShape, Endings
    <3> QED BY <1>1, <1>2, <2>3, <3>1 DEF TransportShape
  <2> QED BY <2>2, <2>3 DEF Arrive
<1>4. CurlInv'
  <2>1. SUFFICES ASSUME via = "curl" PROVE (at = "start" => transfers = 0) /\ CurlRound' /\ \A i \in Urls : CurlUrl(i)'
    BY <1>1, <1>2 DEF CurlInv
  <2>2. CurlInv /\ CurlRound'
    BY <1>1, <1>2, <2>1 DEF TransportInv, CurlInv, CurlRound
  <2>3. ASSUME NEW i \in Urls PROVE CurlUrl(i)'
    <3>1. conn[i] \in {"done", "removed"} => arrived'[i] = arrived[i]
      BY <1>1
    <3> QED BY <1>1, <1>2, <2>1, <2>2, <3>1 DEF CurlInv, CurlUrl
  <2> QED BY <2>1, <2>2, <2>3 DEF CurlInv
<1>5. HttpInv'
  <2>1. SUFFICES ASSUME via = "http" PROVE (at = "returned" => transfers = Len(sends)) /\ \A i \in Urls : HttpUrl(i)'
    BY <1>1, <1>2 DEF HttpInv
  <2>2. HttpInv
    BY DEF TransportInv
  <2>3. ASSUME NEW i \in Urls PROVE HttpUrl(i)'
    <3>1. HttpUrl(i)
      BY <2>1, <2>2 DEF HttpInv
    <3>2. conn[i] = "removed" => arrived'[i] = arrived[i]
      BY <1>1
    <3>3. conn[i] = "removed" => ReadWhole(i)' = ReadWhole(i)
      BY <1>1, <1>2, <3>2 DEF ReadWhole
    <3> QED BY <1>1, <1>2, <3>1, <3>3 DEF HttpUrl
  <2> QED BY <2>1, <2>2, <2>3 DEF HttpInv
<1> QED BY <1>3, <1>4, <1>5 DEF TransportInv

LEMMA BeginKeeps == TransportInv /\ Begin => TransportInv'
<1> SUFFICES ASSUME TransportInv, Begin PROVE TransportInv'
  OBVIOUS
<1>1. /\ UNCHANGED <<via, sends, seconds, taken, arrived, closed, alive>> /\ via = "curl" /\ at = "start" /\ at' = "perform"
      /\ TransportShape /\ CurlInv /\ transfers = 0
  BY DEF TransportInv, Begin, given, network, CurlInv
<1>2. Urls' = Urls /\ \A i \in Urls : Taken(i)' = Taken(i)
  BY <1>1 DEF Urls, Taken
<1> DEFINE first == {i \in Urls : i <= MaxParallel}
<1>3. PICK refused \in SUBSET first : Add(first, refused)
  BY DEF Begin
<1>4. /\ conn' = [i \in Urls |-> IF i \in first \ refused THEN "open" ELSE conn[i]]
      /\ results' = [i \in Urls |-> IF i \in first \cap refused THEN [results[i] EXCEPT !.error = TRUE] ELSE results[i]]
  BY <1>3 DEF Add
<1>5. transfers' = IF Len(sends) < MaxParallel THEN Len(sends) ELSE MaxParallel
  BY DEF Begin
<1>6. Urls = 1 .. Len(sends) /\ Len(sends) \in Nat /\ MaxParallel \in Nat
  BY <1>1, LenProperties, TransportAssumption DEF TransportShape, Urls, TransportConstants
<1>7. transfers' \in 0 .. Len(sends)
  BY <1>5, <1>6
<1>8. \A i \in Urls : i \in first <=> i <= transfers'
  BY <1>5, <1>6
<1>9. \A i \in Urls : CurlUrl(i) /\ conn[i] = "none"
  <2>1. ASSUME NEW i \in Urls PROVE i > transfers
    BY <1>1, <1>6
  <2> QED BY <1>1, <2>1 DEF CurlInv, CurlUrl
<1> HIDE DEF first
<1>10. \A i \in Urls : results[i] \in Texts
  BY <1>1 DEF TransportShape
<1>11. \A i \in Urls : /\ results'[i] \in Texts /\ results'[i].text = results[i].text
                       /\ i \in first => conn'[i] = "open" \/ (conn'[i] = "none" /\ results'[i].error)
                       /\ i \notin first => conn'[i] = "none"
  <2>1. ASSUME NEW i \in Urls, i \in first \cap refused PROVE results'[i] = [results[i] EXCEPT !.error = TRUE] /\ conn'[i] = "none"
    BY <1>4, <1>9, <2>1
  <2>2. ASSUME NEW i \in Urls, i \notin first \cap refused PROVE results'[i] = results[i] /\ conn'[i] = IF i \in first THEN "open" ELSE "none"
    BY <1>4, <1>9, <2>2
  <2>3. ASSUME NEW i \in Urls, i \in first \cap refused PROVE results'[i] \in Texts /\ results'[i].text = results[i].text /\ results'[i].error
    BY <1>10, <2>1, <2>3 DEF Texts
  <2> QED BY <1>10, <2>1, <2>2, <2>3
<1>12. TransportShape'
  <2>1. conn' \in [Urls -> {"none", "open", "done", "removed"}] /\ results' \in [Urls -> Texts]
    BY <1>4, <1>11
  <2> QED BY <1>1, <1>2, <1>7, <2>1 DEF TransportShape
<1>13. ASSUME NEW i \in Urls PROVE CurlUrl(i)'
  <2>1. i > transfers' <=> ~(i <= transfers')
    BY <1>6, <1>7
  <2> QED BY <1>1, <1>2, <1>8, <1>9, <1>11, <1>13, <2>1 DEF CurlUrl
<1>14. CurlRound'
  <2>1. Len(sends) <= MaxParallel => transfers' = Len(sends)
    BY <1>5, <1>6
  <2> QED BY <1>1, <2>1 DEF CurlRound
<1> QED BY <1>1, <1>2, <1>12, <1>13, <1>14 DEF TransportInv, CurlInv, HttpInv

LEMMA PerformKeeps == TransportInv /\ Perform => TransportInv'
<1> SUFFICES ASSUME TransportInv, Perform PROVE TransportInv'
  OBVIOUS
<1>1. /\ UNCHANGED <<via, sends, seconds, arrived, closed, transfers>> /\ via = "curl" /\ at = "perform" /\ at' = "messages"
      /\ TransportShape /\ CurlInv
  BY DEF TransportInv, Perform, given, network, TransportShape
<1>2. Urls' = Urls /\ Some \subseteq Urls
  BY <1>1 DEF Urls, Some
<1>3. /\ results' = [i \in Urls |->
            IF i \in Some THEN [results[i] EXCEPT !.text = @ \o SubSeq(sends[i], taken[i] + 1, arrived[i])] ELSE results[i]]
      /\ taken' = [i \in Urls |-> IF i \in Some THEN arrived[i] ELSE taken[i]]
      /\ conn' = [i \in Urls |-> IF i \in Some /\ closed[i] # None THEN "done" ELSE conn[i]]
      /\ alive' = \E i \in Some : closed[i] = None
  BY DEF Perform, Writer
<1>4. ASSUME NEW i \in Urls
      PROVE  /\ results'[i] \in Texts /\ results'[i].text = Taken(i)' /\ results'[i].error = results[i].error
             /\ taken'[i] \in Nat /\ taken'[i] <= arrived[i]
             /\ conn'[i] \in {"done", "removed"} => taken'[i] = arrived[i]
             /\ conn'[i] = "none" <=> conn[i] = "none"
  <2>1. /\ sends[i] \in Seq(Pieces) /\ taken[i] \in Nat /\ arrived[i] \in Nat /\ results[i] \in Texts
        /\ arrived[i] \in taken[i] .. Len(sends[i]) /\ taken[i] <= arrived[i]
    BY <1>1, UrlFacts
  <2>2. CurlUrl(i)
    BY <1>1 DEF CurlInv
  <2>3. CASE i \in Some
    <3>1. conn[i] = "open" /\ taken'[i] = arrived[i] /\ conn'[i] = IF closed[i] # None THEN "done" ELSE "open"
      BY <1>3, <2>3 DEF Some
    <3>2. results'[i] = [results[i] EXCEPT !.text = Taken(i) \o SubSeq(sends[i], taken[i] + 1, arrived[i])]
      BY <1>3, <2>2, <2>3 DEF CurlUrl
    <3>3. Taken(i) \o SubSeq(sends[i], taken[i] + 1, arrived[i]) = SubSeq(sends[i], 1, arrived[i])
      BY <1>1, <2>1, TakenIs
    <3>4. Taken(i)' = SubSeq(sends[i], 1, arrived[i])
      BY <1>1, <3>1 DEF Taken
    <3>5. SubSeq(sends[i], 1, arrived[i]) \in Seq(Pieces)
      <4>1. 0 + 1 = 1 /\ 0 \in Nat /\ arrived[i] \in 0 .. Len(sends[i])
        BY <2>1
      <4> QED BY <2>1, <4>1, Part
    <3>6. results'[i] = [results[i] EXCEPT !.text = Taken(i)']
      BY <3>2, <3>3, <3>4
    <3>7. Taken(i)' \in Seq(Pieces)
      BY <3>4, <3>5
    <3>8. results'[i] \in Texts /\ results'[i].text = Taken(i)' /\ results'[i].error = results[i].error
      BY <2>1, <3>6, <3>7 DEF Texts
    <3> QED BY <2>1, <3>1, <3>8
  <2>4. CASE i \notin Some
    <3>1. conn[i] # "open" /\ taken'[i] = taken[i] /\ conn'[i] = conn[i] /\ results'[i] = results[i]
      BY <1>2, <1>3, <2>4 DEF Some
    <3>2. Taken(i)' = Taken(i)
      BY <1>1, <3>1 DEF Taken
    <3> QED BY <2>1, <2>2, <3>1, <3>2 DEF CurlUrl
  <2> QED BY <2>3, <2>4
<1>5. TransportShape'
  <2>1. taken' \in [Urls -> Nat] /\ results' \in [Urls -> Texts]
    BY <1>3, <1>4
  <2>2. conn' \in [Urls -> {"none", "open", "done", "removed"}]
    <3>1. \A i \in Urls : conn[i] \in {"none", "open", "done", "removed"}
      BY <1>1 DEF TransportShape
    <3> QED BY <1>3, <3>1
  <2>3. \A i \in Urls : taken'[i] <= arrived[i] /\ arrived[i] <= Len(sends[i])
    BY <1>1, <1>4 DEF TransportShape
  <2>4. alive' \in BOOLEAN
    BY <1>3
  <2> QED BY <1>1, <1>2, <2>1, <2>2, <2>3, <2>4 DEF TransportShape
<1>6. ASSUME NEW i \in Urls PROVE CurlUrl(i)'
  <2>1. CurlUrl(i)
    BY <1>1 DEF CurlInv
  <2> QED BY <1>1, <1>4, <2>1 DEF CurlUrl
<1>7. CurlRound'
  <2>1. ASSUME ~alive', NEW i \in Urls PROVE conn'[i] # "open"
    <3>1. i \in Some => closed[i] # None
      BY <1>3, <2>1
    <3> QED BY <1>3, <3>1 DEF Some
  <2> QED BY <1>1, <1>2, <2>1 DEF CurlRound, CurlInv
<1> QED BY <1>1, <1>2, <1>5, <1>6, <1>7 DEF TransportInv, CurlInv, HttpInv

LEMMA ReadMessageKeeps == TransportInv /\ ReadMessage => TransportInv'
<1> SUFFICES ASSUME TransportInv, ReadMessage PROVE TransportInv'
  OBVIOUS
<1>1. /\ UNCHANGED <<via, sends, seconds, arrived, closed, taken, alive, at>> /\ via = "curl" /\ at = "messages"
      /\ TransportShape /\ CurlInv
  BY DEF TransportInv, ReadMessage, given, network, TransportShape
<1>2. Urls' = Urls /\ \A i \in Urls : Taken(i)' = Taken(i)
  BY <1>1 DEF Urls, Taken
<1>3. Urls = 1 .. Len(sends) /\ Len(sends) \in Nat /\ transfers \in Nat /\ transfers <= Len(sends)
  BY <1>1, LenProperties DEF TransportShape, Urls
<1> DEFINE next == transfers + 1
<1>4. PICK u \in Urls :
        /\ conn[u] = "done"
        /\ IF ~More THEN conn' = [conn EXCEPT ![u] = "removed"] /\ UNCHANGED <<results, transfers>>
           ELSE /\ transfers' = next
                /\ \/ conn' = [[conn EXCEPT ![u] = "removed"] EXCEPT ![next] = "open"] /\ UNCHANGED results
                   \/ conn' = [conn EXCEPT ![u] = "removed"] /\ results' = [results EXCEPT ![next].error = TRUE]
  BY DEF ReadMessage
<1>5. \A i \in Urls : CurlUrl(i) /\ results[i] \in Texts
  BY <1>1 DEF CurlInv, TransportShape
<1>6. CASE ~More
  <2>1. conn' = [conn EXCEPT ![u] = "removed"] /\ UNCHANGED <<results, transfers>>
    BY <1>4, <1>6
  <2>2. /\ conn' \in [Urls -> {"none", "open", "done", "removed"}]
        /\ conn'[u] = "removed" /\ \A i \in Urls : i # u => conn'[i] = conn[i]
    BY <1>1, <2>1 DEF TransportShape
  <2>3. TransportShape'
    BY <1>1, <1>2, <2>1, <2>2 DEF TransportShape
  <2>4. ASSUME NEW i \in Urls PROVE CurlUrl(i)'
    <3>1. CurlUrl(i)
      BY <1>5
    <3>2. i = u => conn'[i] = "removed" /\ conn[i] = "done"
      BY <1>4, <2>2
    <3>3. i # u => conn'[i] = conn[i]
      BY <2>2
    <3> QED BY <1>1, <1>2, <2>1, <3>1, <3>2, <3>3 DEF CurlUrl
  <2>5. CurlRound'
    <3>1. \A i \in Urls : conn'[i] = "open" => conn[i] = "open"
      BY <2>2
    <3> QED BY <1>1, <1>2, <2>1, <3>1 DEF CurlRound, CurlInv
  <2> QED BY <1>1, <1>2, <2>3, <2>4, <2>5 DEF TransportInv, CurlInv, HttpInv
<1>7. CASE More
  <2>1. transfers' = next /\ next \in Urls /\ next \in Nat /\ u # next /\ conn[next] = "none"
    <3>1. next \in Urls /\ next \in Nat /\ next > transfers /\ transfers' = next
      BY <1>3, <1>4, <1>7 DEF More
    <3>2. conn[next] = "none"
      BY <1>5, <3>1 DEF CurlUrl
    <3> QED BY <1>4, <3>1, <3>2
  <2> HIDE DEF next
  <2>2. /\ conn' \in [Urls -> {"none", "open", "done", "removed"}] /\ results' \in [Urls -> Texts]
        /\ conn'[u] = "removed"
        /\ \A i \in Urls : i # u /\ i # next => conn'[i] = conn[i] /\ results'[i] = results[i]
        /\ \A i \in Urls : results'[i].text = results[i].text
        /\ conn'[next] = "open" \/ (conn'[next] = "none" /\ results'[next].error)
    <3>1. conn \in [Urls -> {"none", "open", "done", "removed"}] /\ results \in [Urls -> Texts]
      BY <1>1 DEF TransportShape
    <3>2. CASE conn' = [[conn EXCEPT ![u] = "removed"] EXCEPT ![next] = "open"] /\ UNCHANGED results
      BY <2>1, <3>1, <3>2
    <3>3. CASE conn' = [conn EXCEPT ![u] = "removed"] /\ results' = [results EXCEPT ![next].error = TRUE]
      <4>1. [results[next] EXCEPT !.error = TRUE] \in Texts /\ [results[next] EXCEPT !.error = TRUE].text = results[next].text
            /\ [results[next] EXCEPT !.error = TRUE].error
        BY <2>1, <3>1 DEF Texts
      <4>2. results' = [results EXCEPT ![next] = [results[next] EXCEPT !.error = TRUE]]
        BY <3>3
      <4>3. results'[next] = [results[next] EXCEPT !.error = TRUE] /\ \A i \in Urls : i # next => results'[i] = results[i]
        BY <2>1, <3>1, <4>2
      <4>4. results' \in [Urls -> Texts]
        BY <2>1, <3>1, <4>1, <4>2
      <4>5. /\ conn' \in [Urls -> {"none", "open", "done", "removed"}] /\ conn'[u] = "removed"
            /\ \A i \in Urls : i # u => conn'[i] = conn[i]
        BY <3>1, <3>3
      <4> QED BY <2>1, <4>1, <4>3, <4>4, <4>5
    <3> QED BY <1>4, <1>7, <3>2, <3>3 DEF next
  <2>3. TransportShape'
    <3>1. transfers' \in 0 .. Len(sends)
      BY <1>3, <2>1
    <3> QED BY <1>1, <1>2, <2>2, <3>1 DEF TransportShape
  <2>4. ASSUME NEW i \in Urls PROVE CurlUrl(i)'
    <3>1. CurlUrl(i)
      BY <1>5
    <3>2. results'[i].text = Taken(i)'
      BY <1>2, <2>2, <3>1 DEF CurlUrl
    <3>3. i \in Nat /\ next = transfers + 1 /\ transfers' = next
      BY <1>3, <2>1 DEF next
    <3>4. CASE i = u
      <4>1. conn[i] = "done" /\ conn'[i] = "removed"
        BY <1>4, <2>2, <3>4
      <4>2. ~(i > transfers)
        BY <3>1, <4>1 DEF CurlUrl
      <4>3. ~(i > transfers')
        BY <1>3, <3>3, <4>2
      <4> QED BY <1>1, <3>1, <3>2, <4>1, <4>3 DEF CurlUrl
    <3>5. CASE i = next
      <4>1. ~(i > transfers')
        BY <3>3, <3>5
      <4> QED BY <1>1, <2>2, <3>2, <3>5, <4>1 DEF CurlUrl
    <3>6. CASE i # u /\ i # next
      <4>1. conn'[i] = conn[i] /\ results'[i] = results[i]
        BY <2>2, <3>6
      <4>2. (i > transfers' => i > transfers) /\ (i <= transfers' => i <= transfers)
        BY <1>3, <3>3, <3>6
      <4> QED BY <1>1, <3>1, <3>2, <4>1, <4>2 DEF CurlUrl
    <3> QED BY <3>4, <3>5, <3>6
  <2>5. CurlRound'
    <3>1. ~(Len(sends) <= MaxParallel)
      <4>1. CurlRound /\ transfers # Len(sends)
        BY <1>1, <1>3, <1>7 DEF CurlInv, More
      <4> QED BY <1>1, <4>1 DEF CurlRound
    <3> QED BY <1>1, <3>1 DEF CurlRound
  <2> QED BY <1>1, <1>2, <2>3, <2>4, <2>5 DEF TransportInv, CurlInv, HttpInv
<1> QED BY <1>6, <1>7

LEMMA PerformAgainKeeps == TransportInv /\ PerformAgain => TransportInv'
<1> SUFFICES ASSUME TransportInv, PerformAgain PROVE TransportInv'
  OBVIOUS
<1>1. /\ UNCHANGED <<via, sends, seconds, arrived, closed, taken, conn, results, transfers, alive>>
      /\ via = "curl" /\ at = "messages" /\ \A i \in Urls : conn[i] # "done"
      /\ at' = IF alive \/ transfers < Len(sends) THEN "perform" ELSE "returned"
      /\ TransportShape /\ CurlInv
  BY DEF TransportInv, PerformAgain, given, network, TransportShape
<1>2. Urls' = Urls /\ \A i \in Urls : Taken(i)' = Taken(i)
  BY <1>1 DEF Urls, Taken
<1>3. TransportShape'
  BY <1>1, <1>2 DEF TransportShape
<1>4. ASSUME NEW i \in Urls PROVE CurlUrl(i)'
  BY <1>1, <1>2 DEF CurlInv, CurlUrl
<1>5. CurlRound'
  <2>1. \A i \in Urls : conn[i] \in {"none", "open", "removed"}
    BY <1>1 DEF TransportShape
  <2> QED BY <1>1, <1>2, <2>1 DEF CurlRound, CurlInv
<1> QED BY <1>1, <1>2, <1>3, <1>4, <1>5 DEF TransportInv, CurlInv, HttpInv

\* What is the same before and after a step of in3_http.c.
HttpFrame ==
  /\ UNCHANGED <<via, sends, seconds, arrived, closed, alive>> /\ via = "http" /\ transfers \in Urls
  /\ TransportShape /\ HttpInv

LEMMA HttpStays ==
  ASSUME HttpFrame
  PROVE  /\ Urls' = Urls /\ Urls = 1 .. Len(sends) /\ Len(sends) \in Nat /\ transfers \in Nat /\ transfers <= Len(sends)
         /\ \A i \in Urls : HttpUrl(i) /\ results[i] \in Texts
         /\ \A i \in Urls : taken'[i] = taken[i] => Taken(i)' = Taken(i)
<1>1. Urls = 1 .. Len(sends) /\ Len(sends) \in Nat
  BY LenProperties DEF TransportShape, Urls, HttpFrame
<1> QED BY <1>1 DEF Urls, Taken, HttpFrame, HttpInv, TransportShape

LEMMA AtHand ==
  ASSUME TransportShape, via = "http"
  PROVE  transfers \in Urls
<1>1. Urls = 1 .. Len(sends) /\ Len(sends) \in Nat /\ transfers \in 0 .. Len(sends) /\ transfers > 0
  BY LenProperties DEF TransportShape, Urls
<1> QED BY <1>1

\* The url at hand ends with an error, or with the body of an answer without one.
LEMMA EndKeeps ==
  ASSUME HttpFrame, NEW r \in Texts, Ends(r), UNCHANGED taken, at # "returned",
         r.error \/ (Nuls(sends[transfers]) = {} =>
                       /\ taken[transfers] = arrived[transfers] /\ WellFormed(Taken(transfers))
                       /\ r.text = Body(Taken(transfers)))
  PROVE  TransportInv'
<1>1. /\ Urls' = Urls /\ Urls = 1 .. Len(sends) /\ Len(sends) \in Nat /\ transfers \in Nat /\ transfers <= Len(sends)
      /\ \A i \in Urls : HttpUrl(i) /\ results[i] \in Texts /\ Taken(i)' = Taken(i)
      /\ transfers \in Urls /\ TransportShape
  BY HttpStays DEF HttpFrame
<1>2. /\ results' = [results EXCEPT ![transfers] = r] /\ conn' = [conn EXCEPT ![transfers] = "removed"]
      /\ IF transfers = Len(sends) THEN at' = "returned" /\ transfers' = transfers
         ELSE at' = "connect" /\ transfers' = transfers + 1
  BY DEF Ends
<1>3. /\ results' \in [Urls -> Texts] /\ results'[transfers] = r
      /\ conn' \in [Urls -> {"none", "open", "done", "removed"}] /\ conn'[transfers] = "removed"
      /\ \A i \in Urls : i # transfers => results'[i] = results[i] /\ conn'[i] = conn[i]
  BY <1>1, <1>2 DEF TransportShape
<1>4. transfers' \in 0 .. Len(sends) /\ transfers' > 0
  BY <1>1, <1>2
<1>5. TransportShape'
  BY <1>1, <1>2, <1>3, <1>4 DEF TransportShape, HttpFrame
<1>6. ASSUME NEW i \in Urls PROVE HttpUrl(i)'
  <2>1. i \in Nat /\ HttpUrl(i) /\ Taken(i)' = Taken(i)
    BY <1>1
  <2>3. CASE i = transfers
    <3>1. ~(i > transfers') /\ ~(i = transfers' /\ at' \in {"connect", "write", "read"})
      BY <1>1, <1>2, <2>3
    <3>2. r.error \/ ReadWhole(i)'
      <4>1. /\ taken'[i] = taken[i] /\ arrived'[i] = arrived[i] /\ sends'[i] = sends[i] /\ results'[i] = r
        BY <1>3, <2>3 DEF HttpFrame
      <4>2. r.error \/ (Nuls(sends[i]) = {} =>
               taken[i] = arrived[i] /\ WellFormed(Taken(i)) /\ r.text = Body(Taken(i)))
        BY <2>3
      <4> QED BY <2>1, <4>1, <4>2 DEF ReadWhole
    <3> QED BY <1>3, <2>3, <3>1, <3>2 DEF HttpUrl
  <2>4. CASE i < transfers
    <3>1. ~(i > transfers') /\ i # transfers' /\ i # transfers
      BY <1>1, <1>2, <2>1, <2>4
    <3>2. conn'[i] = "removed" /\ results'[i] = results[i] /\ (~results[i].error => ReadWhole(i))
      BY <1>3, <2>1, <2>4, <3>1 DEF HttpUrl
    <3>3. ReadWhole(i)' = ReadWhole(i)
      BY <2>1, <3>2 DEF ReadWhole, HttpFrame
    <3> QED BY <3>1, <3>2, <3>3 DEF HttpUrl
  <2>5. CASE i > transfers
    <3>1. at' = "connect" /\ ~(i < transfers')
      BY <1>1, <1>2, <2>1, <2>5
    <3>2. taken'[i] = 0 /\ results'[i].text = <<>>
      BY <1>1, <1>3, <2>1, <2>5 DEF HttpUrl
    <3> QED BY <3>1, <3>2 DEF HttpUrl
  <2> QED BY <1>1, <2>1, <2>3, <2>4, <2>5
<1>7. at' = "returned" => transfers' = Len(sends)
  BY <1>2
<1> QED BY <1>1, <1>5, <1>6, <1>7 DEF TransportInv, CurlInv, HttpInv, HttpFrame

LEMMA SkipKeeps ==
  ASSUME HttpFrame, Skipped, UNCHANGED taken, at # "returned"
  PROVE  TransportInv'
<1> DEFINE r == [results[transfers] EXCEPT !.error = TRUE]
<1>1. r \in Texts /\ r.error
  BY DEF HttpFrame, TransportShape, Texts
<1>2. Ends(r)
  BY DEF Skipped
<1> HIDE DEF r
<1> QED BY <1>1, <1>2, EndKeeps

\* A step that stays with the url at hand.
LEMMA StayKeeps ==
  ASSUME HttpFrame, UNCHANGED transfers, at \in {"connect", "write", "read"}, at' \in {"write", "read"},
         taken' \in [Urls -> Nat], results' \in [Urls -> Texts],
         conn' \in [Urls -> {"none", "open", "done", "removed"}], taken'[transfers] <= arrived[transfers],
         \A i \in Urls : i # transfers => taken'[i] = taken[i] /\ results'[i] = results[i] /\ conn'[i] = conn[i],
         Nuls(sends[transfers]) = {} => results'[transfers].text = Taken(transfers)'
  PROVE  TransportInv'
<1>1. /\ Urls' = Urls /\ Urls = 1 .. Len(sends) /\ Len(sends) \in Nat /\ transfers \in Nat /\ transfers <= Len(sends)
      /\ \A i \in Urls : HttpUrl(i)
      /\ \A i \in Urls : taken'[i] = taken[i] => Taken(i)' = Taken(i)
      /\ transfers \in Urls /\ TransportShape
  BY HttpStays DEF HttpFrame
<1>2. TransportShape'
  <2>1. \A i \in Urls : taken'[i] <= arrived[i] /\ arrived[i] <= Len(sends[i])
    BY <1>1 DEF TransportShape
  <2> QED BY <1>1, <2>1 DEF TransportShape, HttpFrame
<1>3. ASSUME NEW i \in Urls PROVE HttpUrl(i)'
  <2>1. i \in Nat /\ HttpUrl(i)
    BY <1>1
  <2>2. CASE i = transfers
    <3>1. ~(i > transfers) /\ ~(i < transfers)
      BY <2>1, <2>2
    <3> QED BY <2>2, <3>1 DEF HttpUrl, HttpFrame
  <2>3. CASE i < transfers
    <3>1. ~(i > transfers) /\ i # transfers
      BY <1>1, <2>1, <2>3
    <3>2. Taken(i)' = Taken(i) /\ taken'[i] = taken[i] /\ results'[i] = results[i] /\ conn'[i] = conn[i]
      BY <1>1, <3>1
    <3>3. ReadWhole(i)' = ReadWhole(i)
      BY <3>2 DEF ReadWhole, HttpFrame
    <3> QED BY <2>1, <2>3, <3>1, <3>2, <3>3 DEF HttpUrl
  <2>4. CASE i > transfers
    <3>1. ~(i < transfers) /\ i # transfers
      BY <1>1, <2>1, <2>4
    <3>2. taken'[i] = taken[i] /\ results'[i] = results[i]
      BY <3>1
    <3> QED BY <2>1, <2>4, <3>1, <3>2 DEF HttpUrl
  <2> QED BY <1>1, <2>1, <2>2, <2>3, <2>4
<1> QED BY <1>1, <1>2, <1>3 DEF TransportInv, CurlInv, HttpInv, HttpFrame

LEMMA HttpKeeps == TransportInv /\ Http => TransportInv'
<1> SUFFICES ASSUME TransportInv, Http PROVE TransportInv'
  OBVIOUS
<1>1. /\ UNCHANGED <<via, sends, seconds, arrived, closed, alive>> /\ via = "http" /\ TransportShape /\ HttpInv
  BY DEF TransportInv, Http, Connect, Write, Receive, Evaluate, AtUrl, given, network
<1>2. transfers \in Urls
  BY <1>1, AtHand
<1>3. HttpFrame
  BY <1>1, <1>2 DEF HttpFrame
<1>4. /\ Urls' = Urls /\ HttpUrl(transfers) /\ results[transfers] \in Texts
      /\ \A i \in Urls : taken'[i] = taken[i] => Taken(i)' = Taken(i)
  BY <1>2, <1>3, HttpStays
<1>5. /\ taken \in [Urls -> Nat] /\ results \in [Urls -> Texts] /\ conn \in [Urls -> {"none", "open", "done", "removed"}]
      /\ taken[transfers] <= arrived[transfers]
  BY <1>1, <1>2 DEF TransportShape
<1>6. CASE Connect
  <2>1. UNCHANGED taken /\ at = "connect"
    BY <1>6 DEF Connect, AtUrl
  <2>2. CASE Skipped
    BY <1>3, <2>1, <2>2, SkipKeeps
  <2>3. CASE conn' = [conn EXCEPT ![transfers] = "open"] /\ at' = "write" /\ UNCHANGED <<results, transfers>>
    <3>1. /\ conn' \in [Urls -> {"none", "open", "done", "removed"}]
          /\ \A i \in Urls : i # transfers => conn'[i] = conn[i]
      BY <1>5, <2>3
    <3>2. results[transfers].text = Taken(transfers)
      <4>1. taken[transfers] = 0 /\ results[transfers].text = <<>>
        BY <1>4, <2>1 DEF HttpUrl
      <4>2. sends[transfers] \in Seq(Pieces) /\ Len(sends[transfers]) \in Nat
        BY <1>1, <1>2, UrlFacts
      <4> QED BY <4>1, <4>2 DEF Taken
    <3>3. results'[transfers].text = Taken(transfers)'
      BY <1>2, <1>4, <2>1, <2>3, <3>2
    <3> QED BY <1>3, <1>5, <2>1, <2>3, <3>1, <3>3, StayKeeps
  <2> QED BY <1>6, <2>2, <2>3 DEF Connect
<1>7. CASE Write
  <2>1. UNCHANGED <<taken, conn, transfers>> /\ at = "write" /\ at' \in {"write", "read"}
    BY <1>7 DEF Write, AtUrl
  <2>2. /\ results' \in [Urls -> Texts] /\ results'[transfers].text = results[transfers].text
        /\ \A i \in Urls : i # transfers => results'[i] = results[i]
    <3>1. CASE UNCHANGED results
      BY <1>5, <3>1
    <3>2. CASE results' = [results EXCEPT ![transfers].error = TRUE]
      <4> DEFINE r == [results[transfers] EXCEPT !.error = TRUE]
      <4>1. r \in Texts /\ r.text = results[transfers].text
        BY <1>4 DEF Texts
      <4>2. results' = [results EXCEPT ![transfers] = r]
        BY <3>2
      <4> HIDE DEF r
      <4> QED BY <1>2, <1>5, <4>1, <4>2
    <3> QED BY <1>7, <3>1, <3>2 DEF Write
  <2>3. Nuls(sends[transfers]) = {} => results'[transfers].text = Taken(transfers)'
    <3>1. Nuls(sends[transfers]) = {} => results[transfers].text = Taken(transfers)
      BY <1>4, <2>1 DEF HttpUrl
    <3>2. Taken(transfers)' = Taken(transfers)
      BY <1>2, <1>4, <2>1
    <3> QED BY <2>2, <3>1, <3>2
  <2> QED BY <1>3, <1>5, <2>1, <2>2, <2>3, StayKeeps
<1>8. CASE Receive
  <2>1. UNCHANGED <<conn, transfers, at>> /\ at = "read"
    BY <1>8 DEF Receive, AtUrl
  <2>2. Nuls(sends[transfers]) = {} => results[transfers].text = Taken(transfers)
    BY <1>4, <2>1 DEF HttpUrl
  <2>3. CASE \E k \in taken[transfers] + 1 .. arrived[transfers] :
               /\ taken' = [taken EXCEPT ![transfers] = k]
               /\ results' = [results EXCEPT ![transfers].text = @ \o Text(SubSeq(sends[transfers], taken[transfers] + 1, k))]
    <3>1. PICK k \in taken[transfers] + 1 .. arrived[transfers] :
               /\ taken' = [taken EXCEPT ![transfers] = k]
               /\ results' = [results EXCEPT ![transfers].text = @ \o Text(SubSeq(sends[transfers], taken[transfers] + 1, k))]
      BY <2>3
    <3> DEFINE piece == SubSeq(sends[transfers], taken[transfers] + 1, k)
               whole == results[transfers].text \o Text(piece)
               r == [results[transfers] EXCEPT !.text = whole]
    <3>2. /\ sends[transfers] \in Seq(Pieces) /\ taken[transfers] \in Nat /\ Len(sends[transfers]) \in Nat
          /\ arrived[transfers] \in taken[transfers] .. Len(sends[transfers]) /\ results[transfers].text \in Seq(Pieces)
      BY <1>1, <1>2, UrlFacts
    <3>3. k \in Nat /\ k \in taken[transfers] .. Len(sends[transfers]) /\ k <= arrived[transfers]
      BY <3>2
    <3>4. Text(piece) \in Seq(Pieces) /\ (Nuls(sends[transfers]) = {} => Text(piece) = piece)
      BY <3>2, <3>3, TextOf
    <3>5. Taken(transfers) \o piece = SubSeq(sends[transfers], 1, k)
      BY <1>1, <1>2, <3>3, TakenIs
    <3>6. taken'[transfers] = k /\ taken' \in [Urls -> Nat] /\ \A i \in Urls : i # transfers => taken'[i] = taken[i]
      BY <1>2, <1>5, <3>1, <3>3
    <3>7. Taken(transfers)' = SubSeq(sends[transfers], 1, k)
      BY <1>1, <2>1, <3>6 DEF Taken
    <3>8. results' = [results EXCEPT ![transfers] = r]
      BY <3>1
    <3> HIDE DEF piece
    <3>9. whole \in Seq(Pieces)
      BY <3>2, <3>4, ConcatProperties
    <3>10. Nuls(sends[transfers]) = {} => whole = Taken(transfers)'
      BY <2>2, <3>4, <3>5, <3>7
    <3> HIDE DEF whole
    <3>11. r \in Texts /\ r.text = whole
      BY <1>4, <3>9 DEF Texts
    <3> HIDE DEF r
    <3>12. /\ results' \in [Urls -> Texts] /\ results'[transfers].text = whole
           /\ \A i \in Urls : i # transfers => results'[i] = results[i]
      BY <1>2, <1>5, <3>8, <3>11
    <3>13. Nuls(sends[transfers]) = {} => results'[transfers].text = Taken(transfers)'
      BY <3>10, <3>12
    <3>14. taken'[transfers] <= arrived[transfers]
      BY <3>3, <3>6
    <3> QED BY <1>3, <1>5, <2>1, <3>6, <3>12, <3>13, <3>14, StayKeeps
  <2>4. CASE results' = [results EXCEPT ![transfers].error = TRUE] /\ UNCHANGED taken
    <3> DEFINE r == [results[transfers] EXCEPT !.error = TRUE]
    <3>1. r \in Texts /\ r.text = results[transfers].text
      BY <1>4 DEF Texts
    <3>2. results' = [results EXCEPT ![transfers] = r]
      BY <2>4
    <3> HIDE DEF r
    <3>3. /\ results' \in [Urls -> Texts] /\ results'[transfers].text = results[transfers].text
          /\ \A i \in Urls : i # transfers => results'[i] = results[i]
      BY <1>2, <1>5, <3>1, <3>2
    <3>4. Taken(transfers)' = Taken(transfers)
      BY <1>2, <1>4, <2>1, <2>4
    <3>5. Nuls(sends[transfers]) = {} => results'[transfers].text = Taken(transfers)'
      BY <2>2, <3>3, <3>4
    <3> QED BY <1>3, <1>5, <2>1, <2>4, <3>3, <3>5, StayKeeps
  <2> QED BY <1>8, <2>3, <2>4 DEF Receive
<1>9. CASE Evaluate
  <2>1. UNCHANGED taken /\ at = "read" /\ taken[transfers] = arrived[transfers]
    BY <1>9 DEF Evaluate, AtUrl
  <2>2. CASE Skipped
    BY <1>3, <2>1, <2>2, SkipKeeps
  <2>3. CASE WellFormed(results[transfers].text) /\ Ends([results[transfers] EXCEPT !.text = Body(@)])
    <3> DEFINE text == results[transfers].text
               r == [results[transfers] EXCEPT !.text = Body(text)]
    <3>1. Ends(r)
      BY <2>3
    <3>2. text \in Seq(Pieces) /\ WellFormed(text)
      BY <1>1, <1>2, <2>3, UrlFacts
    <3>3. Nuls(sends[transfers]) = {} => text = Taken(transfers)
      BY <1>4, <2>1 DEF HttpUrl
    <3> HIDE DEF text
    <3>4. Body(text) \in Seq(Pieces)
      <4>1. PICK k \in DOMAIN text : FirstBlank(text, k)
        BY <3>2, HasFirstBlank
      <4>2. Body(text) = SubSeq(text, k + 1, Len(text))
        BY <3>2, <4>1, BodyIs
      <4>3. DOMAIN text = 1 .. Len(text) /\ Len(text) \in Nat
        BY <3>2, LenProperties
      <4>4. k \in Nat /\ Len(text) \in k .. Len(text)
        BY <4>3
      <4>5. SubSeq(text, k + 1, Len(text)) \in Seq(Pieces)
        BY <3>2, <4>4, Part
      <4> QED BY <4>2, <4>5
    <3>5. r \in Texts /\ r.text = Body(text)
      BY <1>4, <3>4 DEF Texts
    <3> HIDE DEF r
    <3>6. Nuls(sends[transfers]) = {} => /\ taken[transfers] = arrived[transfers] /\ WellFormed(Taken(transfers))
                                         /\ r.text = Body(Taken(transfers))
      BY <2>1, <3>2, <3>3, <3>5
    <3> QED BY <1>3, <2>1, <3>1, <3>5, <3>6, EndKeeps
  <2> QED BY <1>9, <2>2, <2>3 DEF Evaluate
<1> QED BY <1>6, <1>7, <1>8, <1>9 DEF Http

LEMMA TransportInvariance == TransportSpec => []TransportInv
<1>1. TransportInit => TransportInv
  BY TransportStarts
<1>2. TransportInv /\ [TransportNext]_transportVars => TransportInv'
  <2> SUFFICES ASSUME TransportInv, [TransportNext]_transportVars PROVE TransportInv'
    OBVIOUS
  <2>1. CASE Curl
    BY <2>1, BeginKeeps, PerformKeeps, ReadMessageKeeps, PerformAgainKeeps DEF Curl
  <2>2. CASE Http
    BY <2>2, HttpKeeps
  <2>3. CASE \E i \in Urls : Arrive(i)
    BY <2>3, ArriveKeeps
  <2>4. CASE UNCHANGED transportVars
    BY <2>4 DEF transportVars, TransportInv, TransportShape, CurlInv, CurlRound, CurlUrl, Taken, HttpInv, HttpUrl,
                ReadWhole, Urls
  <2> QED BY <2>1, <2>2, <2>3, <2>4 DEF TransportNext
<1> QED BY <1>1, <1>2, PTL DEF TransportSpec

LEMMA WhatCurlReturns ==
  ASSUME TransportInv, via = "curl", NEW i \in Urls
  PROVE  /\ IsPrefix(results[i].text, Whole(i))
         /\ conn[i] = "removed" /\ Complete(i) => results[i].text = Whole(i)
<1>1. TransportShape /\ CurlUrl(i)
  BY DEF TransportInv, CurlInv
<1>2. /\ sends[i] \in Seq(Pieces) /\ Len(sends[i]) \in Nat /\ taken[i] \in 0 .. Len(sends[i])
      /\ 0 + 1 = 1 /\ 0 \in Nat /\ taken[i] - 0 = taken[i] /\ taken[i] \in Nat
  BY <1>1, UrlFacts
<1>3. /\ SubSeq(sends[i], 0 + 1, taken[i]) \in Seq(Pieces) /\ Len(SubSeq(sends[i], 0 + 1, taken[i])) = taken[i] - 0
      /\ \A k \in 1 .. taken[i] - 0 : SubSeq(sends[i], 0 + 1, taken[i])[k] = sends[i][0 + k]
  BY <1>2, Part
<1>4. \A k \in 1 .. taken[i] : 0 + k = k
  BY <1>2
<1>5. Taken(i) \in Seq(Pieces) /\ Len(Taken(i)) = taken[i] /\ \A k \in 1 .. taken[i] : Taken(i)[k] = sends[i][k]
  BY <1>2, <1>3, <1>4 DEF Taken
<1>6. IsPrefix(Taken(i), sends[i])
  <2>1. Len(Taken(i)) <= Len(sends[i]) /\ \A k \in 1 .. Len(Taken(i)) : Taken(i)[k] = sends[i][k]
    BY <1>2, <1>5
  <2> QED BY <1>2, <1>5, <2>1, PrefixByElements
<1>7. Len(Taken(i)) = Len(sends[i]) => Taken(i) = sends[i]
  BY <1>2, <1>5, SeqEqual
<1>8. conn[i] = "removed" /\ Complete(i) => Len(Taken(i)) = Len(sends[i])
  BY <1>1, <1>5 DEF CurlUrl, Complete
<1> QED BY <1>1, <1>6, <1>7, <1>8 DEF CurlUrl, Whole

LEMMA WhatHttpReturns ==
  ASSUME TransportInv, via = "http", at = "returned", NEW i \in Urls, ~results[i].error, ~CutByNul(i)
  PROVE  /\ IsPrefix(results[i].text, Whole(i))
         /\ Complete(i) => results[i].text = Whole(i)
<1>1. TransportShape /\ HttpUrl(i) /\ Nuls(sends[i]) = {}
  BY DEF TransportInv, HttpInv, CutByNul
<1>2. taken[i] = arrived[i] /\ WellFormed(Taken(i)) /\ results[i].text = Body(Taken(i))
  BY <1>1 DEF HttpUrl, ReadWhole
<1>3. sends[i] \in Seq(Pieces) /\ taken[i] \in 0 .. Len(sends[i]) /\ Len(sends[i]) \in Nat
  BY <1>1, UrlFacts
<1>4. IsPrefix(Body(Taken(i)), Body(sends[i]))
  BY <1>2, <1>3, BodyOfBeginning DEF Taken
<1>5. Complete(i) => Taken(i) = sends[i]
  <2>1. SUFFICES ASSUME Complete(i) PROVE Taken(i) = sends[i]
    OBVIOUS
  <2>2. Taken(i) = SubSeq(sends[i], 1, Len(sends[i]))
    BY <1>2, <2>1 DEF Taken, Complete
  <2>3. SubSeq(sends[i], 1, Len(sends[i])) = sends[i]
    <3>1. 0 + 1 = 1 /\ 0 \in Nat /\ Len(sends[i]) \in 0 .. Len(sends[i]) /\ Len(sends[i]) - 0 = Len(sends[i])
          /\ \A k \in 1 .. Len(sends[i]) : 0 + k = k
      BY <1>3
    <3>2. /\ SubSeq(sends[i], 0 + 1, Len(sends[i])) \in Seq(Pieces)
          /\ Len(SubSeq(sends[i], 0 + 1, Len(sends[i]))) = Len(sends[i]) - 0
          /\ \A k \in 1 .. Len(sends[i]) - 0 : SubSeq(sends[i], 0 + 1, Len(sends[i]))[k] = sends[i][0 + k]
      BY <1>3, <3>1, Part
    <3> QED BY <1>3, <3>1, <3>2, SeqEqual
  <2> QED BY <2>2, <2>3
<1> QED BY <1>2, <1>4, <1>5 DEF Whole

\* However the pieces of several answers interleave, and however connections end, a url's result
\* is the beginning of its own node's answer, all of it if all of it came, and each url is asked or
\* has an error: for any answers, pieces and number of parallel transfers (in3_curl.c, in3_http.c).
THEOREM UrlsAreAnswered == TransportSpec => []UrlsGetTheirAnswers
<1>1. TransportInv => UrlsGetTheirAnswers
  <2> SUFFICES ASSUME TransportInv PROVE UrlsGetTheirAnswers
    OBVIOUS
  <2>1. TransportShape
    BY DEF TransportInv
  <2>2. TransportTypeOK
    BY <2>1 DEF TransportTypeOK, TransportShape, Endings
  <2>3. ResultsAreTheirs
    <3> SUFFICES ASSUME at = "returned", NEW i \in Urls, ~results[i].error, ~CutByNul(i)
                 PROVE  /\ IsPrefix(results[i].text, Whole(i))
                        /\ conn[i] = "removed" /\ Complete(i) /\ ~Refused(i) => results[i].text = Whole(i)
      BY DEF ResultsAreTheirs
    <3>1. CASE via = "curl"
      BY <3>1, WhatCurlReturns
    <3>2. CASE via = "http"
      BY <3>2, WhatHttpReturns
    <3> QED BY <2>1, <3>1, <3>2 DEF TransportShape
  <2>4. EveryUrlIsAsked
    <3> SUFFICES ASSUME at = "returned", via = "http" \/ Len(sends) <= MaxParallel, NEW i \in Urls
                 PROVE  conn[i] = "removed" \/ results[i].error
      BY DEF EveryUrlIsAsked
    <3>1. CASE via = "http"
      BY <3>1 DEF TransportInv, HttpInv, HttpUrl
    <3>2. CASE via = "curl" /\ Len(sends) <= MaxParallel
      <4>1. transfers = Len(sends) /\ CurlUrl(i) /\ conn[i] \in {"none", "removed"}
        BY <3>2 DEF TransportInv, CurlInv, CurlRound
      <4>2. i <= transfers
        BY <2>1, <4>1, UrlFacts
      <4> QED BY <4>1, <4>2 DEF CurlUrl
    <3> QED BY <2>1, <3>1, <3>2 DEF TransportShape
  <2> QED BY <2>2, <2>3, <2>4 DEF UrlsGetTheirAnswers
<1> QED BY <1>1, TransportInvariance, PTL

-----------------------------------------------------------------------------
(* What the contracts said, and what a request of in3_ens knows of it.      *)

Values == {None} \union Resolvers \union Owners \union Accounts
Calls == [question : {"owner", "resolver", "addr"}, at : Registries \union Resolvers,
          state : {"waiting", "done", "failed"}, answer : Values]
Results == {None} \union [how : {"asked", "stored", "hash", "failed"}, value : Values]
Queries == [type : Types, registry : Registries \union {None}, required : Seq(Calls), result : Results]
Sayings == [at : Registries \union Resolvers, question : {"owner", "resolver", "addr"}, answer : Values]

\* What was said so far, as a set: it only grows.
Ever == {p \in Questions \X Values : EverSaid(p[1][1], p[1][2], p[2])}

\* Told, of such a set
Tells(E, R, t, v) ==
  \E r \in R : IF t = "addr" THEN \E s \in Resolvers : <<<<r, "resolver">>, s>> \in E /\ <<<<s, "addr">>, v>> \in E
               ELSE <<<<r, t>>, v>> \in E

RegistryOf(a) == IF a.registry = None THEN MainRegistry ELSE a.registry
FirstQuestion(a) == IF a.type = "owner" THEN "owner" ELSE "resolver"

CallOk(E, c) ==
  /\ c \in Calls /\ <<c.at, c.question>> \in Questions
  /\ c.state = "done" => c.answer \in Answers(<<c.at, c.question>>) /\ <<<<c.at, c.question>>, c.answer>> \in E

\* The calls of a request, the newest first: the registry's, and for an address the resolver's that
\* the registry named.
CallsOk(E, a) ==
  /\ Len(a.required) <= 2 /\ \A k \in DOMAIN a.required : CallOk(E, a.required[k])
  /\ a.required # <<>> => a.required[Len(a.required)].question = FirstQuestion(a)
                          /\ a.required[Len(a.required)].at = RegistryOf(a)
  /\ Len(a.required) = 2 => /\ a.type = "addr" /\ a.required[1].question = "addr"
                            /\ a.required[2].state = "done" /\ a.required[2].answer = a.required[1].at
                            /\ a.required[1].at \in Resolvers

ResultOk(E, a) ==
  a.result # None => /\ a.result.how = "asked" => Tells(E, {RegistryOf(a)}, a.type, a.result.value)
                     /\ a.result.how = "stored" => Tells(E, Registries, a.type, a.result.value)

RequestOk(E, a) == a \in Queries /\ CallsOk(E, a) /\ ResultOk(E, a)

EnsInv ==
  /\ records \in [Questions -> Values] /\ \A q \in Questions : records[q] \in Answers(q)
  /\ was \in Seq(Sayings)
  /\ stored \in [Types -> Values] /\ \A t \in Types : stored[t] # None => Tells(Ever, Registries, t, stored[t])
  /\ asked \in [Requests -> {None} \union Queries]
  /\ \A i \in Requests : asked[i] # None => RequestOk(Ever, asked[i])

\* A question and its answers
LEMMA QuestionParts ==
  /\ \A q \in Questions : /\ q = <<q[1], q[2]>> /\ q[1] \in Registries \union Resolvers
                          /\ q[2] \in {"owner", "resolver", "addr"} /\ Answers(q) \subseteq Values
  /\ \A r \in Registries : <<r, "resolver">> \in Questions /\ <<r, "owner">> \in Questions
  /\ \A s \in Resolvers : <<s, "addr">> \in Questions
  /\ \A r : /\ Answers(<<r, "resolver">>) = {None} \union Resolvers
               /\ Answers(<<r, "owner">>) = {None} \union Owners
               /\ Answers(<<r, "addr">>) = {None} \union Accounts
<1>1. \A q \in Questions : (\E r \in Registries : q = <<r, "resolver">> \/ q = <<r, "owner">>) \/ \E s \in Resolvers : q = <<s, "addr">>
  BY DEF Questions
<1>2. \A r : /\ Answers(<<r, "resolver">>) = {None} \union Resolvers
             /\ Answers(<<r, "owner">>) = {None} \union Owners
             /\ Answers(<<r, "addr">>) = {None} \union Accounts
  BY DEF Answers
<1>3. ASSUME NEW q \in Questions
      PROVE  /\ q = <<q[1], q[2]>> /\ q[1] \in Registries \union Resolvers
             /\ q[2] \in {"owner", "resolver", "addr"} /\ Answers(q) \subseteq Values
  <2>1. CASE \E r \in Registries : q = <<r, "resolver">>
    <3>1. PICK r \in Registries : q = <<r, "resolver">>
      BY <2>1
    <3>2. q[1] = r /\ q[2] = "resolver"
      BY <3>1
    <3>3. Answers(q) \subseteq Values
      BY <1>2, <3>1 DEF Values
    <3> QED BY <3>1, <3>2, <3>3
  <2>2. CASE \E r \in Registries : q = <<r, "owner">>
    <3>1. PICK r \in Registries : q = <<r, "owner">>
      BY <2>2
    <3>2. q[1] = r /\ q[2] = "owner"
      BY <3>1
    <3>3. Answers(q) \subseteq Values
      BY <1>2, <3>1 DEF Values
    <3> QED BY <3>1, <3>2, <3>3
  <2>3. CASE \E s \in Resolvers : q = <<s, "addr">>
    <3>1. PICK s \in Resolvers : q = <<s, "addr">>
      BY <2>3
    <3>2. q[1] = s /\ q[2] = "addr"
      BY <3>1
    <3>3. Answers(q) \subseteq Values
      BY <1>2, <3>1 DEF Values
    <3> QED BY <3>1, <3>2, <3>3
  <2> QED BY <1>1, <2>1, <2>2, <2>3
<1>4. /\ \A r \in Registries : <<r, "resolver">> \in Questions /\ <<r, "owner">> \in Questions
      /\ \A s \in Resolvers : <<s, "addr">> \in Questions
  BY DEF Questions
<1> QED BY <1>2, <1>3, <1>4

\* What was said stays said.
LEMMA TellsMore ==
  ASSUME NEW E, NEW F, E \subseteq F
  PROVE  /\ \A R, t, v : Tells(E, R, t, v) => Tells(F, R, t, v)
         /\ \A a : RequestOk(E, a) => RequestOk(F, a)
<1>1. ASSUME NEW R, NEW t, NEW v, Tells(E, R, t, v) PROVE Tells(F, R, t, v)
  BY <1>1 DEF Tells
<1>2. ASSUME NEW a, CallsOk(E, a) PROVE CallsOk(F, a)
  BY <1>2 DEF CallsOk, CallOk
<1>3. ASSUME NEW a, ResultOk(E, a) PROVE ResultOk(F, a)
  BY <1>1, <1>3 DEF ResultOk
<1> QED BY <1>1, <1>2, <1>3 DEF RequestOk

LEMMA ToldIs ==
  ASSUME NEW R \in SUBSET Registries, NEW t, NEW v, Tells(Ever, R, t, v)
  PROVE  Told(R, t, v)
<1>1. \A p \in Ever : EverSaid(p[1][1], p[1][2], p[2])
  BY DEF Ever
<1>2. \A r, x, y : <<<<r, x>>, y>> \in Ever => EverSaid(r, x, y)
  BY <1>1
<1>3. PICK r \in R : IF t = "addr" THEN \E s \in Resolvers : <<<<r, "resolver">>, s>> \in Ever /\ <<<<s, "addr">>, v>> \in Ever
                     ELSE <<<<r, t>>, v>> \in Ever
  BY DEF Tells
<1> QED BY <1>2, <1>3 DEF Told

\* A record said now is said for good, whether or not it changes.
LEMMA SaidStays ==
  ASSUME EnsInv, UNCHANGED <<records, was>> \/ \E q \in Questions : \E v \in Answers(q) : Change(q, v)
  PROVE  Ever \subseteq Ever'
<1>1. CASE UNCHANGED <<records, was>>
  BY <1>1 DEF Ever, EverSaid
<1>2. ASSUME NEW q \in Questions, NEW v \in Answers(q), Change(q, v) PROVE Ever \subseteq Ever'
  <2>1. /\ records' = [records EXCEPT ![q] = v] /\ was' = Append(was, Said(q[1], q[2], records[q]))
        /\ records \in [Questions -> Values] /\ was \in Seq(Sayings)
    BY <1>2 DEF Change, EnsInv
  <2>2. q = <<q[1], q[2]>> /\ Said(q[1], q[2], records[q]) \in Sayings
    BY <2>1, QuestionParts DEF Said, Sayings
  <2>3. /\ Len(was) \in Nat /\ DOMAIN was = 1 .. Len(was) /\ DOMAIN was' = 1 .. Len(was) + 1
        /\ \A k \in DOMAIN was : was'[k] = was[k] /\ was'[Len(was) + 1] = Said(q[1], q[2], records[q])
        /\ was'[Len(was) + 1] = Said(q[1], q[2], records[q])
    BY <2>1, <2>2, AppendProperties, LenProperties
  <2>4. ASSUME NEW p \in Questions, NEW w \in Values, EverSaid(p[1], p[2], w) PROVE EverSaid(p[1], p[2], w)'
    <3>1. p = <<p[1], p[2]>>
      BY QuestionParts
    <3>2. CASE \E k \in DOMAIN was : was[k] = Said(p[1], p[2], w)
      BY <2>3, <3>2 DEF EverSaid, Said
    <3>3. CASE records[p] = w /\ p # q
      BY <2>1, <3>1, <3>3 DEF EverSaid
    <3>4. CASE records[p] = w /\ p = q
      <4>1. Len(was) + 1 \in DOMAIN was' /\ was'[Len(was) + 1] = Said(p[1], p[2], w)
        BY <2>3, <3>4
      <4> QED BY <4>1 DEF EverSaid, Said
    <3> QED BY <2>4, <3>1, <3>2, <3>3, <3>4 DEF EverSaid
  <2>5. ASSUME NEW e \in Ever PROVE e \in Ever'
    <3>1. PICK p \in Questions, w \in Values : e = <<p, w>> /\ EverSaid(p[1], p[2], w)
      BY <2>5 DEF Ever
    <3>2. EverSaid(p[1], p[2], w)'
      BY <2>4, <3>1
    <3>3. (e \in Ever)'
      <4>1. e \in Questions \X Values /\ e[1] = p /\ e[2] = w
        BY <3>1
      <4> QED BY <3>2, <4>1 DEF Ever
    <3> QED BY <3>3
  <2> QED BY <2>5
<1> QED BY <1>1, <1>2

LEMMA EnsStarts == EnsInit => EnsInv
<1> SUFFICES ASSUME EnsInit PROVE EnsInv
  OBVIOUS
<1>1. PICK s \in Resolvers : records = [q \in Questions |-> IF q[2] = "resolver" THEN s ELSE CHOOSE a \in Answers(q) : a # None]
  BY DEF EnsInit
<1>2. ASSUME NEW q \in Questions PROVE records[q] \in Answers(q)
  <2>1. records[q] = IF q[2] = "resolver" THEN s ELSE CHOOSE a \in Answers(q) : a # None
    BY <1>1
  <2>2. CASE q[2] = "resolver"
    BY <2>1, <2>2 DEF Answers
  <2>3. CASE q[2] # "resolver"
    <3>1. PICK v : v \in Answers(q) /\ v # None
      <4>1. Owners # {} /\ None \notin Owners /\ Accounts # {} /\ None \notin Accounts
        BY EnsAssumption DEF EnsConstants
      <4>2. q[2] = "owner" \/ q[2] = "addr"
        BY <2>3, QuestionParts
      <4>3. q[2] = "owner" => Answers(q) = {None} \union Owners
        BY DEF Answers
      <4>4. q[2] = "addr" => Answers(q) = {None} \union Accounts
        BY DEF Answers
      <4> QED BY <4>1, <4>2, <4>3, <4>4
    <3> QED BY <2>1, <2>3, <3>1
  <2> QED BY <2>2, <2>3
<1>3. records \in [Questions -> Values]
  <2>1. ASSUME NEW q \in Questions PROVE records[q] \in Values
    BY <1>2, QuestionParts
  <2> QED BY <1>1, <2>1
<1>4. was \in Seq(Sayings)
  BY EmptySeq DEF EnsInit
<1>5. stored \in [Types -> Values] /\ \A t \in Types : stored[t] = None
  BY DEF EnsInit, Values
<1>6. asked \in [Requests -> {None} \union Queries] /\ \A i \in Requests : asked[i] = None
  BY DEF EnsInit
<1> QED BY <1>2, <1>3, <1>4, <1>5, <1>6 DEF EnsInv

\* Only the request i changes, and the records and the storage do not.
LEMMA RequestKeeps ==
  ASSUME EnsInv, UNCHANGED <<records, was, stored>>, NEW i \in Requests, NEW r \in Queries,
         asked' = [asked EXCEPT ![i] = r], RequestOk(Ever, r)
  PROVE  EnsInv'
<1>1. Ever' = Ever
  BY DEF Ever, EverSaid
<1>2. asked' \in [Requests -> {None} \union Queries] /\ \A j \in Requests : asked'[j] = IF j = i THEN r ELSE asked[j]
  BY DEF EnsInv
<1>3. ASSUME NEW j \in Requests, asked'[j] # None PROVE RequestOk(Ever', asked'[j])
  BY <1>1, <1>2, <1>3 DEF EnsInv
<1> QED BY <1>1, <1>2, <1>3 DEF EnsInv

LEMMA StartKeeps ==
  ASSUME EnsInv, NEW i \in Requests, NEW type \in Types, NEW registry \in Registries \union {None},
         Start(i, type, registry)
  PROVE  EnsInv'
<1> DEFINE r == [type |-> type, registry |-> registry, required |-> <<>>, result |-> None]
<1>1. r \in Queries /\ r.required = <<>> /\ r.result = None
  BY EmptySeq DEF Queries, Results
<1>2. UNCHANGED <<records, was, stored>> /\ asked' = [asked EXCEPT ![i] = r]
  BY DEF Start
<1> HIDE DEF r
<1>3. Len(r.required) = 0 /\ DOMAIN r.required = {}
  BY <1>1, EmptySeq
<1>4. RequestOk(Ever, r)
  BY <1>1, <1>3 DEF RequestOk, CallsOk, ResultOk
<1> QED BY <1>1, <1>2, <1>4, RequestKeeps

LEMMA ReplyKeeps ==
  ASSUME EnsInv, NEW i \in Requests, asked[i] # None, NEW k \in DOMAIN asked[i].required,
         NEW state \in {"done", "failed"}, Reply(i, k, state)
  PROVE  EnsInv'
<1>1. PICK a : a = asked[i]
  OBVIOUS
<1>2. PICK c : c = a.required[k]
  OBVIOUS
<1>3. PICK v : v = IF state = "done" THEN records[<<c.at, c.question>>] ELSE None
  OBVIOUS
<1> DEFINE d == [[c EXCEPT !.state = state] EXCEPT !.answer = v]
           calls == [a.required EXCEPT ![k] = d]
           r == [a EXCEPT !.required = calls]
<1>4. UNCHANGED <<records, was, stored>> /\ c.state = "waiting"
  BY <1>1, <1>2 DEF Reply
<1>5. asked' = [asked EXCEPT ![i] = r]
  <2>1. asked' = [asked EXCEPT ![i].required[k].state = state,
                               ![i].required[k].answer = IF state = "done" THEN records[<<c.at, c.question>>] ELSE None]
    BY <1>1, <1>2 DEF Reply
  <2>2. asked' = [[asked EXCEPT ![i].required[k].state = state] EXCEPT ![i].required[k].answer = v]
    BY <1>3, <2>1
  <2> QED BY <2>2, <1>1, <1>2 DEF EnsInv
<1>6. /\ a \in Queries /\ CallsOk(Ever, a) /\ ResultOk(Ever, a) /\ a.required \in Seq(Calls) /\ k \in DOMAIN a.required
      /\ Len(a.required) \in Nat /\ DOMAIN a.required = 1 .. Len(a.required)
  BY <1>1, LenProperties DEF EnsInv, RequestOk, Queries
<1>7. c \in Calls /\ CallOk(Ever, c)
  BY <1>2, <1>6 DEF CallsOk, CallOk
<1>8. v \in Values /\ (state = "done" => v \in Answers(<<c.at, c.question>>) /\ <<<<c.at, c.question>>, v>> \in Ever)
  <2>1. <<c.at, c.question>> \in Questions
    BY <1>7 DEF CallOk
  <2>2. records[<<c.at, c.question>>] \in Values /\ records[<<c.at, c.question>>] \in Answers(<<c.at, c.question>>)
    BY <2>1 DEF EnsInv
  <2>3. ASSUME state = "done" PROVE <<<<c.at, c.question>>, v>> \in Ever
    <3>1. v = records[<<c.at, c.question>>]
      BY <1>3, <2>3
    <3>2. EverSaid(c.at, c.question, v)
      BY <3>1 DEF EverSaid
    <3> QED BY <2>1, <2>2, <3>1, <3>2 DEF Ever
  <2> QED BY <1>3, <2>2, <2>3 DEF Values
<1>9. d \in Calls /\ d.at = c.at /\ d.question = c.question /\ d.state = state /\ d.answer = v
  BY <1>7, <1>8 DEF Calls
<1> HIDE DEF d
<1>10. CallOk(Ever, d)
  BY <1>7, <1>8, <1>9 DEF CallOk
<1>11. /\ calls \in Seq(Calls) /\ Len(calls) = Len(a.required) /\ DOMAIN calls = DOMAIN a.required
       /\ \A m \in DOMAIN calls : calls[m] = IF m = k THEN d ELSE a.required[m]
  BY <1>6, <1>9, ExceptSeq
<1> HIDE DEF calls
<1>12. r \in Queries /\ r.required = calls /\ r.type = a.type /\ r.registry = a.registry /\ r.result = a.result
  BY <1>6, <1>11 DEF Queries
<1> HIDE DEF r
<1>13. RegistryOf(r) = RegistryOf(a) /\ FirstQuestion(r) = FirstQuestion(a)
  BY <1>12 DEF RegistryOf, FirstQuestion
<1>14. \A m \in DOMAIN calls : /\ calls[m].question = a.required[m].question /\ calls[m].at = a.required[m].at
                               /\ CallOk(Ever, calls[m])
                               /\ a.required[m].state # "waiting" => calls[m] = a.required[m]
  BY <1>2, <1>4, <1>6, <1>9, <1>10, <1>11 DEF CallsOk
<1>15. CallsOk(Ever, r)
  <2>1. Len(calls) <= 2
    BY <1>6, <1>11 DEF CallsOk
  <2>2. calls # <<>> => calls[Len(calls)].question = FirstQuestion(a) /\ calls[Len(calls)].at = RegistryOf(a)
    <3>1. calls # <<>> => a.required # <<>> /\ Len(a.required) \in DOMAIN calls
      BY <1>6, <1>11, EmptySeq
    <3> QED BY <1>6, <1>11, <1>14, <3>1 DEF CallsOk
  <2>3. Len(calls) = 2 => /\ a.type = "addr" /\ calls[1].question = "addr"
                          /\ calls[2].state = "done" /\ calls[2].answer = calls[1].at
                          /\ calls[1].at \in Resolvers
    <3>1. Len(calls) = 2 => 1 \in DOMAIN calls /\ 2 \in DOMAIN calls
      BY <1>6, <1>11
    <3> QED BY <1>6, <1>11, <1>14, <3>1 DEF CallsOk
  <2> QED BY <1>12, <1>13, <1>14, <2>1, <2>2, <2>3 DEF CallsOk
<1>16. ResultOk(Ever, r)
  BY <1>6, <1>12, <1>13 DEF ResultOk
<1> QED BY <1>4, <1>5, <1>12, <1>15, <1>16, RequestKeeps DEF RequestOk

\* find_pending_ctx finds the first call with the question, and nothing else.
LEMMA FindPendingIs ==
  ASSUME NEW calls \in Seq(Calls), NEW question
  PROVE  /\ (\A k \in DOMAIN calls : calls[k].question # question) => FindPending(calls, question) = 0
         /\ \A k \in DOMAIN calls :
              (\A j \in DOMAIN calls : calls[j].question = question <=> j = k) => FindPending(calls, question) = k
<1>1. DOMAIN calls = 1 .. Len(calls)
  BY LenProperties
<1>2. FindPending(calls, question) = LET I == {k \in 1 .. Len(calls) : calls[k].question = question} IN IF I # {} THEN Min(I) ELSE 0
  BY DEF FindPending, SelectInSeq
<1>3. ASSUME NEW k \in DOMAIN calls, \A j \in DOMAIN calls : calls[j].question = question <=> j = k
      PROVE  FindPending(calls, question) = k
  <2>1. {j \in 1 .. Len(calls) : calls[j].question = question} = {k}
    BY <1>1, <1>3
  <2>2. Min({k}) = k
    BY DEF Min
  <2> QED BY <1>2, <2>1, <2>2
<1>4. (\A k \in DOMAIN calls : calls[k].question # question) => FindPending(calls, question) = 0
  BY <1>1, <1>2
<1> QED BY <1>3, <1>4

\* Where a request's calls are.
LEMMA CallsAre ==
  ASSUME EnsInv, NEW a \in Queries, CallsOk(Ever, a), a.type # "hash"
  PROVE  /\ a.required \in Seq(Calls)
         /\ a.required = <<>> \/ \E k \in DOMAIN a.required :
              /\ FindPending(a.required, FirstQuestion(a)) = k /\ k # 0
              /\ CallOk(Ever, a.required[k]) /\ a.required[k].question = FirstQuestion(a)
              /\ a.required[k].at = RegistryOf(a)
              /\ \/ k = 1 /\ Len(a.required) = 1 /\ FindPending(a.required, "addr") = 0
                 \/ /\ k = 2 /\ FindPending(a.required, "addr") = 1 /\ a.type = "addr"
                    /\ a.required[2].state = "done" /\ a.required[2].answer = a.required[1].at
                    /\ a.required[1].question = "addr" /\ CallOk(Ever, a.required[1])
         /\ a.required = <<>> => FindPending(a.required, FirstQuestion(a)) = 0
<1> DEFINE calls == a.required
<1>1. /\ calls \in Seq(Calls) /\ Len(calls) \in Nat /\ DOMAIN calls = 1 .. Len(calls) /\ Len(calls) <= 2
      /\ \A k \in DOMAIN calls : CallOk(Ever, calls[k])
  BY LenProperties DEF Queries, CallsOk
<1>2. FirstQuestion(a) # "addr"
  BY DEF FirstQuestion
<1>3. CASE calls = <<>>
  <2>1. DOMAIN calls = {}
    BY <1>3
  <2> QED BY <1>1, <1>3, <2>1, FindPendingIs
<1>4. CASE Len(calls) = 1
  <2>1. calls # <<>> /\ 1 \in DOMAIN calls /\ DOMAIN calls = {1}
    BY <1>1, <1>4, EmptySeq
  <2>2. calls[1].question = FirstQuestion(a) /\ calls[1].at = RegistryOf(a)
    BY <1>4, <2>1 DEF CallsOk
  <2>3. FindPending(calls, FirstQuestion(a)) = 1
    BY <1>1, <2>1, <2>2, FindPendingIs
  <2>4. FindPending(calls, "addr") = 0
    BY <1>1, <1>2, <2>1, <2>2, FindPendingIs
  <2> QED BY <1>1, <1>4, <2>1, <2>2, <2>3, <2>4
<1>5. CASE Len(calls) = 2
  <2>1. calls # <<>> /\ 1 \in DOMAIN calls /\ 2 \in DOMAIN calls /\ DOMAIN calls = {1, 2}
    BY <1>1, <1>5, EmptySeq
  <2>2. /\ calls[2].question = FirstQuestion(a) /\ calls[2].at = RegistryOf(a)
        /\ a.type = "addr" /\ calls[1].question = "addr" /\ calls[2].state = "done" /\ calls[2].answer = calls[1].at
    BY <1>5, <2>1 DEF CallsOk
  <2>3. FindPending(calls, FirstQuestion(a)) = 2
    BY <1>1, <1>2, <2>1, <2>2, FindPendingIs
  <2>4. FindPending(calls, "addr") = 1
    BY <1>1, <1>2, <2>1, <2>2, FindPendingIs
  <2> QED BY <1>1, <2>1, <2>2, <2>3, <2>4
<1>6. Len(calls) = 0 => calls = <<>>
  BY <1>1, EmptySeq
<1>7. Len(calls) = 0 \/ Len(calls) = 1 \/ Len(calls) = 2
  <2>1. \A n \in Nat : n <= 2 => n = 0 \/ n = 1 \/ n = 2
    OBVIOUS
  <2>2. Len(calls) \in Nat /\ Len(calls) <= 2
    BY <1>1
  <2> HIDE DEF calls
  <2> QED BY <2>1, <2>2
<1> QED BY <1>3, <1>4, <1>5, <1>6, <1>7

\* A request that ends.
LEMMA EndIsOk ==
  ASSUME NEW a \in Queries, CallsOk(Ever, a), NEW how \in {"asked", "stored", "hash", "failed"}, NEW v \in Values,
         how = "asked" => Tells(Ever, {RegistryOf(a)}, a.type, v),
         how = "stored" => Tells(Ever, Registries, a.type, v)
  PROVE  RequestOk(Ever, [a EXCEPT !.result = Result(how, v)])
<1> DEFINE r == [a EXCEPT !.result = Result(how, v)]
<1>1. Result(how, v) \in Results /\ Result(how, v).how = how /\ Result(how, v).value = v
  BY DEF Result, Results
<1>2. /\ r \in Queries /\ r.required = a.required /\ r.type = a.type /\ r.registry = a.registry
      /\ r.result = Result(how, v)
  BY <1>1 DEF Queries
<1> HIDE DEF r
<1>3. RegistryOf(r) = RegistryOf(a) /\ FirstQuestion(r) = FirstQuestion(a)
  BY <1>2 DEF RegistryOf, FirstQuestion
<1>4. CallsOk(Ever, r)
  BY <1>2, <1>3 DEF CallsOk
<1>5. ResultOk(Ever, r)
  BY <1>1, <1>2, <1>3 DEF ResultOk
<1> QED BY <1>2, <1>4, <1>5 DEF RequestOk, r

\* A call made: what is put before the others.
LEMMA AskIsOk ==
  ASSUME NEW a \in Queries, CallsOk(Ever, a), a.result = None, NEW question \in {"owner", "resolver", "addr"}, NEW to,
         <<to, question>> \in Questions,
         \/ a.required = <<>> /\ question = FirstQuestion(a) /\ to = RegistryOf(a)
         \/ /\ Len(a.required) = 1 /\ question = "addr" /\ a.type = "addr"
            /\ a.required[1].state = "done" /\ a.required[1].answer = to /\ to \in Resolvers
  PROVE  RequestOk(Ever, Ask(a, question, to))
<1> DEFINE c == [question |-> question, at |-> to, state |-> "waiting", answer |-> None]
           old == a.required
           calls == <<c>> \o old
           r == [a EXCEPT !.required = calls]
<1>1. c \in Calls /\ c.question = question /\ c.at = to /\ c.state = "waiting"
  BY QuestionParts DEF Calls, Values
<1>2. Ask(a, question, to) = r
  BY DEF Ask
<1> HIDE DEF c
<1>3. CallOk(Ever, c)
  BY <1>1 DEF CallOk
<1>4. /\ old \in Seq(Calls) /\ Len(old) \in Nat /\ DOMAIN old = 1 .. Len(old)
      /\ \A k \in DOMAIN old : CallOk(Ever, old[k])
  BY LenProperties DEF Queries, CallsOk
<1>5. <<c>> \in Seq(Calls) /\ Len(<<c>>) = 1 /\ <<c>>[1] = c
  BY <1>1
<1>6. /\ calls \in Seq(Calls) /\ Len(calls) = 1 + Len(old) /\ DOMAIN calls = 1 .. 1 + Len(old)
      /\ \A k \in 1 .. Len(<<c>>) + Len(old) : calls[k] = IF k <= Len(<<c>>) THEN <<c>>[k] ELSE old[k - Len(<<c>>)]
  BY <1>4, <1>5, ConcatProperties, LenProperties
<1>7. calls[1] = c /\ \A k \in DOMAIN old : calls[k + 1] = old[k]
  <2>1. calls[1] = c
    BY <1>4, <1>5, <1>6
  <2>2. ASSUME NEW k \in DOMAIN old PROVE calls[k + 1] = old[k]
    <3>1. k + 1 \in 1 .. Len(<<c>>) + Len(old) /\ ~(k + 1 <= Len(<<c>>)) /\ k + 1 - Len(<<c>>) = k
      BY <1>4, <1>5
    <3> QED BY <1>6, <3>1
  <2> QED BY <2>1, <2>2
<1> HIDE DEF calls
<1>8. r \in Queries /\ r.required = calls /\ r.type = a.type /\ r.registry = a.registry /\ r.result = None
  BY <1>6 DEF Queries
<1> HIDE DEF r
<1>9. RegistryOf(r) = RegistryOf(a) /\ FirstQuestion(r) = FirstQuestion(a)
  BY <1>8 DEF RegistryOf, FirstQuestion
<1>10. \A k \in DOMAIN calls : CallOk(Ever, calls[k])
  <2>1. ASSUME NEW k \in DOMAIN calls PROVE k = 1 \/ (k - 1 \in DOMAIN old /\ k - 1 + 1 = k)
    BY <1>4, <1>6
  <2> QED BY <1>3, <1>4, <1>7, <2>1
<1>11. CASE old = <<>>
  <2>1. Len(old) = 0 /\ question = FirstQuestion(a) /\ to = RegistryOf(a)
    BY <1>11
  <2>2. Len(calls) = 1 /\ calls[Len(calls)] = c
    BY <1>6, <1>7, <2>1
  <2>3. CallsOk(Ever, r)
    BY <1>1, <1>8, <1>9, <1>10, <2>1, <2>2 DEF CallsOk
  <2> QED BY <1>2, <1>8, <2>3 DEF RequestOk, ResultOk
<1>12. CASE old # <<>>
  <2>1. /\ Len(old) = 1 /\ question = "addr" /\ a.type = "addr"
        /\ old[1].state = "done" /\ old[1].answer = to /\ to \in Resolvers
    BY <1>12
  <2>2. Len(calls) = 2 /\ 1 \in DOMAIN old /\ 1 + 1 = 2
    BY <1>4, <1>6, <2>1
  <2>3. calls[2] = old[1]
    BY <1>7, <2>2
  <2>4. old[1].question = FirstQuestion(a) /\ old[1].at = RegistryOf(a)
    BY <1>12, <2>1 DEF CallsOk
  <2>5. CallsOk(Ever, r)
    BY <1>1, <1>7, <1>8, <1>9, <1>10, <2>1, <2>2, <2>3, <2>4 DEF CallsOk
  <2> QED BY <1>2, <1>8, <2>5 DEF RequestOk, ResultOk
<1> QED BY <1>11, <1>12

\* What one pass of ens_resolve leaves: a request as it should be, and in the storage what was told.
Kept(e, a) ==
  /\ RequestOk(Ever, e.request) /\ e.request.type = a.type
  /\ e.store => /\ a.type \in Types \ {"hash"} /\ e.request.result.value \in Values
                /\ Tells(Ever, Registries, a.type, e.request.result.value)

LEMMA ResolveKeeps ==
  ASSUME EnsInv, NEW a \in Queries, RequestOk(Ever, a), a.result = None
  PROVE  Kept(Resolve(a), a)
<1> DEFINE calls == a.required
           first == FirstQuestion(a)
           i == FindPending(calls, first)
           j == FindPending(calls, "addr")
           End(e) == [request |-> [a EXCEPT !.result = e.result], store |-> e.store]
           Wait(r) == [request |-> r, store |-> FALSE]
<1>1. Resolve(a) =
        IF a.type # "hash" /\ stored[a.type] # None THEN
          End([result |-> Result("stored", stored[a.type]), store |-> FALSE])
        ELSE IF a.type = "hash" THEN End([result |-> Result("hash", None), store |-> FALSE])
        ELSE IF Registry(a) = None THEN End(Failed)
        ELSE IF i = 0 THEN Wait(Ask(a, first, Registry(a)))
        ELSE IF calls[i].state = "waiting" THEN Wait(a)
        ELSE IF calls[i].state = "failed" \/ calls[i].answer = None THEN End(Failed)
        ELSE IF a.type \in {"resolver", "owner"} THEN End(Found(a.type, calls[i].answer))
        ELSE IF j = 0 THEN Wait(Ask(a, "addr", calls[i].answer))
        ELSE IF calls[j].state = "waiting" THEN Wait(a)
        ELSE IF calls[j].state = "failed" \/ calls[j].answer = None THEN End(Failed)
        ELSE End(Found("addr", calls[j].answer))
  BY DEF Resolve, FirstQuestion, Key
<1>2. CallsOk(Ever, a) /\ a.type \in Types /\ None \in Values
  BY DEF RequestOk, Queries, Values
<1> HIDE DEF i, j, first
<1>3. Kept(Wait(a), a)
  BY DEF Kept
<1>4. Kept(End(Failed), a)
  <2>1. RequestOk(Ever, [a EXCEPT !.result = Result("failed", None)])
    BY <1>2, EndIsOk
  <2> QED BY <2>1 DEF Kept, Failed, Queries
<1>5. ASSUME NEW v \in Values, Tells(Ever, {RegistryOf(a)}, a.type, v), RegistryOf(a) \in Registries, a.type # "hash"
      PROVE  Kept(End(Found(a.type, v)), a)
  <2>1. RequestOk(Ever, [a EXCEPT !.result = Result("asked", v)])
    BY <1>2, <1>5, EndIsOk
  <2>2. [a EXCEPT !.result = Result("asked", v)].result.value = v /\ [a EXCEPT !.result = Result("asked", v)].type = a.type
    BY DEF Result, Queries
  <2>3. Tells(Ever, Registries, a.type, v)
    BY <1>5 DEF Tells
  <2> QED BY <1>2, <1>5, <2>1, <2>2, <2>3 DEF Kept, Found
<1>6. CASE a.type # "hash" /\ stored[a.type] # None
  <2>1. stored[a.type] \in Values /\ Tells(Ever, Registries, a.type, stored[a.type])
    BY <1>2, <1>6 DEF EnsInv
  <2>2. RequestOk(Ever, [a EXCEPT !.result = Result("stored", stored[a.type])])
    BY <1>2, <2>1, EndIsOk
  <2>3. Resolve(a) = End([result |-> Result("stored", stored[a.type]), store |-> FALSE])
    BY <1>1, <1>6
  <2> QED BY <2>2, <2>3 DEF Kept, Queries
<1>7. CASE a.type = "hash"
  <2>1. RequestOk(Ever, [a EXCEPT !.result = Result("hash", None)])
    BY <1>2, EndIsOk
  <2>2. Resolve(a) = End([result |-> Result("hash", None), store |-> FALSE])
    BY <1>1, <1>7
  <2> QED BY <2>1, <2>2 DEF Kept, Queries
<1>8. CASE a.type # "hash" /\ stored[a.type] = None /\ Registry(a) = None
  BY <1>1, <1>4, <1>8
<1>9. CASE a.type # "hash" /\ stored[a.type] = None /\ Registry(a) # None
  <2>1. Registry(a) = RegistryOf(a) /\ RegistryOf(a) \in Registries
    BY <1>9, EnsAssumption DEF Registry, RegistryOf, Queries, EnsConstants
  <2>2. first \in {"owner", "resolver"} /\ <<RegistryOf(a), first>> \in Questions
        /\ first = IF a.type = "owner" THEN "owner" ELSE "resolver"
    BY <2>1, QuestionParts DEF first, FirstQuestion
  <2>3. CASE calls = <<>>
    <3>1. i = 0
      BY <1>2, <1>9, <2>3, CallsAre DEF i, first
    <3>2. RequestOk(Ever, Ask(a, first, RegistryOf(a)))
      BY <1>2, <2>2, <2>3, AskIsOk DEF first
    <3>3. Ask(a, first, RegistryOf(a)).type = a.type
      BY DEF Ask, Queries
    <3>4. Resolve(a) = Wait(Ask(a, first, RegistryOf(a)))
      BY <1>1, <1>9, <2>1, <3>1
    <3> QED BY <3>2, <3>3, <3>4 DEF Kept
  <2>4. CASE calls # <<>>
    <3>1. /\ i \in DOMAIN calls /\ i # 0 /\ CallOk(Ever, calls[i]) /\ calls[i].question = first /\ calls[i].at = RegistryOf(a)
          /\ \/ i = 1 /\ Len(calls) = 1 /\ j = 0
             \/ /\ i = 2 /\ j = 1 /\ a.type = "addr" /\ calls[2].state = "done" /\ calls[2].answer = calls[1].at
                /\ calls[1].question = "addr" /\ CallOk(Ever, calls[1])
      BY <1>2, <1>9, <2>4, CallsAre DEF i, j, first
    <3>2. calls[i].state \in {"waiting", "failed", "done"}
      BY <3>1 DEF CallOk, Calls
    <3>3. CASE calls[i].state = "waiting"
      BY <1>1, <1>3, <1>9, <3>1, <3>3
    <3>4. CASE calls[i].state = "failed" \/ (calls[i].state = "done" /\ calls[i].answer = None)
      BY <1>1, <1>4, <1>9, <3>1, <3>4
    <3>5. CASE calls[i].state = "done" /\ calls[i].answer # None
      <4> DEFINE v == calls[i].answer
      <4>1. <<<<RegistryOf(a), first>>, v>> \in Ever /\ v \in Answers(<<RegistryOf(a), first>>) /\ v \in Values
        BY <3>1, <3>5 DEF CallOk, Calls
      <4> HIDE DEF v
      <4>2. CASE a.type \in {"resolver", "owner"}
        <5>1. Tells(Ever, {RegistryOf(a)}, a.type, v)
          BY <2>2, <4>1, <4>2 DEF Tells
        <5>2. Resolve(a) = End(Found(a.type, v))
          BY <1>1, <1>9, <3>1, <3>5, <4>2 DEF v
        <5> QED BY <1>5, <2>1, <4>1, <4>2, <5>1, <5>2
      <4>3. CASE a.type = "addr"
        <5>1. v \in Resolvers /\ <<v, "addr">> \in Questions /\ first = "resolver"
          BY <2>2, <3>5, <4>1, <4>3, QuestionParts DEF v
        <5>2. CASE j = 0
          <6>1. Resolve(a) = Wait(Ask(a, "addr", v))
            BY <1>1, <1>9, <3>1, <3>5, <4>3, <5>2 DEF v
          <6>2. RequestOk(Ever, Ask(a, "addr", v))
            <7>1. Len(a.required) = 1 /\ a.required[1].state = "done" /\ a.required[1].answer = v
              BY <3>1, <3>5, <5>2 DEF v
            <7> QED BY <1>2, <4>3, <5>1, <7>1, AskIsOk
          <6>3. Ask(a, "addr", v).type = a.type
            BY DEF Ask, Queries
          <6> QED BY <6>1, <6>2, <6>3 DEF Kept
        <5>3. CASE j # 0
          <6>1. j = 1 /\ calls[1].at = v /\ calls[1].question = "addr" /\ CallOk(Ever, calls[1])
            BY <3>1, <5>3 DEF v
          <6>2. calls[1].state \in {"waiting", "failed", "done"} /\ calls[1].answer \in Values
            BY <6>1 DEF CallOk, Calls
          <6>3. CASE calls[1].state = "waiting"
            BY <1>1, <1>3, <1>9, <3>1, <3>5, <4>3, <6>1, <6>3
          <6>4. CASE calls[1].state = "failed" \/ (calls[1].state = "done" /\ calls[1].answer = None)
            BY <1>1, <1>4, <1>9, <3>1, <3>5, <4>3, <6>1, <6>4
          <6>5. CASE calls[1].state = "done" /\ calls[1].answer # None
            <7>1. <<<<v, "addr">>, calls[1].answer>> \in Ever
              BY <6>1, <6>5 DEF CallOk
            <7>2. Tells(Ever, {RegistryOf(a)}, a.type, calls[1].answer)
              BY <4>1, <4>3, <5>1, <7>1 DEF Tells
            <7>3. Resolve(a) = End(Found(a.type, calls[1].answer))
              BY <1>1, <1>9, <3>1, <3>5, <4>3, <6>1, <6>5
            <7> QED BY <1>5, <2>1, <4>3, <6>2, <7>2, <7>3
          <6> QED BY <6>2, <6>3, <6>4, <6>5
        <5> QED BY <5>2, <5>3
      <4> QED BY <1>2, <1>9, <4>2, <4>3 DEF Types
    <3> QED BY <3>2, <3>3, <3>4, <3>5
  <2> QED BY <2>3, <2>4
<1> QED BY <1>6, <1>7, <1>8, <1>9

LEMMA ExecuteKeeps ==
  ASSUME EnsInv, NEW i \in Requests, Execute(i)
  PROVE  EnsInv'
<1>1. PICK a : a = asked[i]
  OBVIOUS
<1>2. a \in Queries /\ RequestOk(Ever, a) /\ a.result = None
  BY <1>1 DEF Execute, Unresolved, EnsInv
<1>3. PICK e : e = Resolve(a)
  OBVIOUS
<1>4. Kept(e, a)
  BY <1>2, <1>3, ResolveKeeps
<1>5. /\ UNCHANGED <<records, was>> /\ asked' = [asked EXCEPT ![i] = e.request]
      /\ stored' = IF e.store THEN [stored EXCEPT ![e.request.type] = e.request.result.value] ELSE stored
  BY <1>1, <1>3 DEF Execute, Key
<1>6. Ever' = Ever
  BY <1>5 DEF Ever, EverSaid
<1>7. stored' \in [Types -> Values] /\ \A t \in Types : stored'[t] # None => Tells(Ever, Registries, t, stored'[t])
  <2>1. stored \in [Types -> Values] /\ \A t \in Types : stored[t] # None => Tells(Ever, Registries, t, stored[t])
    BY DEF EnsInv
  <2>2. CASE e.store
    <3>1. /\ stored' = [stored EXCEPT ![a.type] = e.request.result.value] /\ a.type \in Types
          /\ e.request.result.value \in Values /\ Tells(Ever, Registries, a.type, e.request.result.value)
      BY <1>4, <1>5, <2>2 DEF Kept
    <3>2. \A t \in Types : stored'[t] = IF t = a.type THEN e.request.result.value ELSE stored[t]
      BY <2>1, <3>1
    <3> QED BY <2>1, <3>1, <3>2
  <2>3. CASE ~e.store
    BY <1>5, <2>1, <2>3
  <2> QED BY <2>2, <2>3
<1>8. e.request \in Queries /\ RequestOk(Ever, e.request)
  BY <1>4 DEF Kept, RequestOk
<1>9. asked' \in [Requests -> {None} \union Queries] /\ \A k \in Requests : asked'[k] = IF k = i THEN e.request ELSE asked[k]
  BY <1>5, <1>8 DEF EnsInv
<1>10. ASSUME NEW k \in Requests, asked'[k] # None PROVE RequestOk(Ever', asked'[k])
  BY <1>6, <1>8, <1>9, <1>10 DEF EnsInv
<1> QED BY <1>5, <1>6, <1>7, <1>9, <1>10 DEF EnsInv

\* The records may change, the storage is as it was or empty.
LEMMA OthersKeep ==
  ASSUME EnsInv, UNCHANGED asked, UNCHANGED stored \/ CacheClear,
         UNCHANGED <<records, was>> \/ \E q \in Questions : \E v \in Answers(q) : Change(q, v)
  PROVE  EnsInv'
<1>1. Ever \subseteq Ever'
  BY SaidStays
<1>2. /\ \A R, t, v : Tells(Ever, R, t, v) => Tells(Ever', R, t, v)
      /\ \A a : RequestOk(Ever, a) => RequestOk(Ever', a)
  BY <1>1, TellsMore
<1>3. /\ records' \in [Questions -> Values] /\ \A q \in Questions : records'[q] \in Answers(q)
      /\ was' \in Seq(Sayings)
  <2>1. CASE UNCHANGED <<records, was>>
    BY <2>1 DEF EnsInv
  <2>2. ASSUME NEW q \in Questions, NEW v \in Answers(q), Change(q, v)
        PROVE  /\ records' \in [Questions -> Values] /\ \A x \in Questions : records'[x] \in Answers(x)
               /\ was' \in Seq(Sayings)
    <3>1. /\ records' = [records EXCEPT ![q] = v] /\ was' = Append(was, Said(q[1], q[2], records[q]))
          /\ records \in [Questions -> Values] /\ was \in Seq(Sayings) /\ \A x \in Questions : records[x] \in Answers(x)
      BY <2>2 DEF Change, EnsInv
    <3>2. Said(q[1], q[2], records[q]) \in Sayings /\ v \in Values
      BY <3>1, QuestionParts DEF Said, Sayings
    <3>3. was' \in Seq(Sayings)
      BY <3>1, <3>2, AppendProperties
    <3>4. records' \in [Questions -> Values] /\ \A x \in Questions : records'[x] \in Answers(x)
      BY <3>1, <3>2
    <3> QED BY <3>3, <3>4
  <2> QED BY <2>1, <2>2
<1>4. stored' \in [Types -> Values] /\ \A t \in Types : stored'[t] # None => Tells(Ever', Registries, t, stored'[t])
  <2>1. CASE UNCHANGED stored
    BY <1>2, <2>1 DEF EnsInv
  <2>2. CASE CacheClear
    BY <2>2 DEF CacheClear, Values
  <2> QED BY <2>1, <2>2
<1>5. ASSUME NEW i \in Requests, asked'[i] # None PROVE RequestOk(Ever', asked'[i])
  BY <1>2, <1>5 DEF EnsInv
<1> QED BY <1>3, <1>4, <1>5 DEF EnsInv

\* However a name's records change between the calls of a request, and whatever other requests
\* store in the meantime, what in3_ens answers is what the registry it asked said, for an address
\* what a resolver named by it said, and what it keeps is an address some registry led to: for any
\* contracts, requests and number of changes (ens_resolve).
THEOREM NamesAreFound == EnsSpec => []NamesAreResolved
<1>1. EnsInv /\ [EnsNext]_ensVars => EnsInv'
  <2> SUFFICES ASSUME EnsInv, [EnsNext]_ensVars PROVE EnsInv'
    OBVIOUS
  <2>1. ASSUME NEW i \in Requests, NEW type \in Types, NEW registry \in Registries \union {None}, Start(i, type, registry)
        PROVE  EnsInv'
    BY <2>1, StartKeeps
  <2>2. ASSUME NEW i \in Requests, Execute(i) PROVE EnsInv'
    BY <2>2, ExecuteKeeps
  <2>3. ASSUME NEW i \in Requests, asked[i] # None, NEW k \in DOMAIN asked[i].required, NEW state \in {"done", "failed"},
               Reply(i, k, state)
        PROVE  EnsInv'
    BY <2>3, ReplyKeeps
  <2>4. CASE \E q \in Questions : \E v \in Answers(q) : Change(q, v)
    <3>1. UNCHANGED <<stored, asked>>
      BY <2>4 DEF Change
    <3> QED BY <2>4, <3>1, OthersKeep
  <2>5. CASE \E c \in Chains : Switch(c)
    <3>1. UNCHANGED <<records, was, stored, asked>>
      BY <2>5 DEF Switch
    <3> QED BY <3>1, OthersKeep
  <2>6. CASE CacheClear
    <3>1. UNCHANGED <<records, was, asked>>
      BY <2>6 DEF CacheClear
    <3> QED BY <2>6, <3>1, OthersKeep
  <2>7. CASE UNCHANGED ensVars
    <3>1. UNCHANGED <<records, was, stored, asked>>
      BY <2>7 DEF ensVars
    <3> QED BY <3>1, OthersKeep
  <2> QED BY <2>1, <2>2, <2>3, <2>4, <2>5, <2>6, <2>7 DEF EnsNext
<1>2. EnsInv => NamesAreResolved
  <2> SUFFICES ASSUME EnsInv PROVE NamesAreResolved
    OBVIOUS
  <2>1. EnsTypeOK
    <3>1. ASSUME NEW t \in Types PROVE stored[t] = None \/ stored[t] \in Resolvers \union Owners \union Accounts
      BY DEF EnsInv, Values
    <3>2. ASSUME NEW i \in Requests, asked[i] # None PROVE Len(asked[i].required) <= 2
      BY <3>2 DEF EnsInv, RequestOk, CallsOk
    <3> QED BY <3>1, <3>2 DEF EnsTypeOK
  <2>2. AnswersAreTold
    <3> SUFFICES ASSUME NEW i \in Requests, asked[i] # None, asked[i].result # None
                 PROVE  /\ asked[i].result.how = "asked" => Told({RegistryOf(asked[i])}, asked[i].type, asked[i].result.value)
                        /\ asked[i].result.how = "stored" => Told(Registries, asked[i].type, asked[i].result.value)
      BY DEF AnswersAreTold, RegistryOf
    <3>1. asked[i] \in Queries /\ ResultOk(Ever, asked[i])
      BY DEF EnsInv, RequestOk
    <3>2. {RegistryOf(asked[i])} \in SUBSET Registries /\ Registries \in SUBSET Registries
      BY <3>1, EnsAssumption DEF RegistryOf, Queries, EnsConstants
    <3> QED BY <3>1, <3>2, ToldIs DEF ResultOk
  <2> QED BY <2>1, <2>2 DEF NamesAreResolved
<1> QED BY <1>1, <1>2, EnsStarts, PTL DEF EnsSpec

-----------------------------------------------------------------------------
(* The numbers and hashes of headers that were verified by signatures.      *)

Entries == {Empty} \union {[number |-> Number(h), hash |-> h] : h \in Hashes}

\* No number is kept twice but that of the slots never used, and a header of that number is before
\* them.
CacheOk(cache) ==
  /\ cache \in [Slots -> Entries]
  /\ \A j, k \in Slots : cache[j].number = cache[k].number => j = k \/ cache[j].number = 0
  /\ \A k \in Slots : cache[k].number = 0 /\ cache[k] # Empty => \A j \in 1 .. k - 1 : cache[j].number # 0

Fresh == [k \in Slots |-> Empty]

IsOldest(cache, p) ==
  /\ p \in Slots /\ \A j \in Slots : cache[p].number <= cache[j].number
  /\ \A j \in 1 .. p - 1 : cache[j].number # cache[p].number

OldestOf(cache) ==
  LET lowest == {k \in Slots : \A j \in Slots : cache[k].number <= cache[j].number}
  IN  CHOOSE k \in lowest : \A j \in lowest : k <= j

LEMMA EntriesAre ==
  \A e \in Entries : e.number \in Nat /\ (e # Empty => e.hash \in Hashes /\ e = [number |-> Number(e.hash), hash |-> e.hash] /\ e.hash # None)
<1>1. ASSUME NEW h \in Hashes PROVE h # None /\ Number(h) \in Nat
  BY HeadersAssumption DEF HeadersConstants
<1>2. Empty.number \in Nat
  BY DEF Empty
<1> QED BY <1>1, <1>2 DEF Entries

LEMMA FreshIsOk == CacheOk(Fresh) /\ \A k \in Slots : Fresh[k].number = 0
<1>1. Fresh \in [Slots -> Entries] /\ \A k \in Slots : Fresh[k] = Empty
  BY DEF Fresh, Entries
<1> QED BY <1>1 DEF CacheOk, Empty

LEMMA OldestIs ==
  ASSUME NEW cache \in [Slots -> Entries]
  PROVE  IsOldest(cache, OldestOf(cache))
<1> DEFINE N == {cache[k].number : k \in Slots}
           lowest == {k \in Slots : \A j \in Slots : cache[k].number <= cache[j].number}
<1>1. Slots \subseteq Nat /\ 1 \in Slots /\ \A p \in Slots : \A j \in 1 .. p - 1 : j \in Slots /\ j < p
  BY HeadersAssumption DEF Slots, HeadersConstants
<1>2. \A k \in Slots : cache[k].number \in Nat
  BY EntriesAre
<1>3. \E n \in N : \A m \in N : n <= m
  <2>1. N \subseteq Nat /\ N # {}
    BY <1>1, <1>2
  <2> HIDE DEF N
  <2> QED BY <2>1, LeastOfNaturals
<1>4. lowest # {} /\ lowest \subseteq Nat /\ lowest \subseteq Slots
  <2>1. PICK k \in Slots : \A m \in N : cache[k].number <= m
    BY <1>3
  <2>2. k \in lowest
    BY <2>1
  <2> QED BY <1>1, <2>2
<1>5. \E k \in lowest : \A j \in lowest : k <= j
  <2> HIDE DEF lowest
  <2> QED BY <1>4, LeastOfNaturals
<1>6. PICK p : p = OldestOf(cache)
  OBVIOUS
<1>7. p \in lowest /\ \A j \in lowest : p <= j
  BY <1>5, <1>6 DEF OldestOf
<1>8. p \in Slots /\ \A j \in Slots : cache[p].number <= cache[j].number
  BY <1>7
<1>9. ASSUME NEW j \in 1 .. p - 1, cache[j].number = cache[p].number PROVE FALSE
  <2>1. j \in Slots /\ j < p /\ j \in Nat /\ p \in Nat
    BY <1>1, <1>8
  <2>2. j \in lowest
    BY <1>8, <1>9, <2>1
  <2>3. p <= j
    BY <1>7, <2>2
  <2> QED BY <2>1, <2>3
<1> QED BY <1>6, <1>8, <1>9 DEF IsOldest

Put(cache, p, b) == [cache EXCEPT ![p] = [number |-> Number(b), hash |-> b]]

\* A header whose number is not there, or the first of all, takes the oldest place.
LEMMA AddKeeps ==
  ASSUME NEW cache, CacheOk(cache), NEW b \in Hashes, NEW p, IsOldest(cache, p),
         cache = Fresh \/ \A k \in Slots : cache[k].number # Number(b)
  PROVE  /\ CacheOk(Put(cache, p, b)) /\ Put(cache, p, b)[p] = [number |-> Number(b), hash |-> b]
         /\ \A k \in Slots : k # p => Put(cache, p, b)[k] = cache[k]
<1> DEFINE new == Put(cache, p, b)
<1>1. cache \in [Slots -> Entries] /\ p \in Slots /\ [number |-> Number(b), hash |-> b] \in Entries
  BY DEF CacheOk, IsOldest, Entries
<1>2. /\ new \in [Slots -> Entries] /\ new[p] = [number |-> Number(b), hash |-> b]
      /\ \A k \in Slots : k # p => new[k] = cache[k]
  BY <1>1 DEF Put
<1> HIDE DEF new
<1>3. \A k \in Slots : cache[k].number \in Nat
  BY <1>1, EntriesAre
<1>4. Number(b) \in Nat
  BY HeadersAssumption DEF HeadersConstants
<1>5. ASSUME NEW j \in Slots, NEW k \in Slots, new[j].number = new[k].number PROVE j = k \/ new[j].number = 0
  <2>1. CASE j # p /\ k # p
    BY <1>2, <1>5, <2>1 DEF CacheOk
  <2>2. CASE cache = Fresh /\ j # k /\ (j = p \/ k = p)
    BY <1>2, <1>5, <2>2, FreshIsOk
  <2>3. CASE (\A i \in Slots : cache[i].number # Number(b)) /\ j # k /\ (j = p \/ k = p)
    BY <1>2, <1>5, <2>3
  <2> QED BY <2>1, <2>2, <2>3
<1>6. MaxHashes \in Nat
  BY HeadersAssumption DEF HeadersConstants
<1>7. ASSUME NEW k \in Slots, new[k].number = 0, new[k] # Empty, NEW j \in 1 .. k - 1 PROVE new[j].number # 0
  <2>1. j \in Slots /\ j # k
    BY <1>6 DEF Slots
  <2>2. CASE k = p
    <3>1. cache[j].number # cache[p].number /\ new[j] = cache[j] /\ cache[p].number <= cache[j].number
      BY <1>2, <2>1, <2>2 DEF IsOldest
    <3> QED BY <1>1, <1>3, <2>1, <3>1
  <2>3. CASE k # p
    <3>1. cache[k].number = 0 /\ cache[k] # Empty /\ \A i \in 1 .. k - 1 : cache[i].number # 0
      BY <1>2, <1>7, <2>3 DEF CacheOk
    <3>2. cache[p].number = 0
      BY <1>1, <1>3, <3>1 DEF IsOldest
    <3>3. p \notin 1 .. k - 1 /\ k \notin 1 .. p - 1
      BY <3>1, <3>2 DEF IsOldest
    <3>4. p = k
      BY <1>1, <1>6, <3>3 DEF Slots
    <3> QED BY <2>3, <3>4
  <2> QED BY <2>2, <2>3
<1> QED BY <1>2, <1>5, <1>7 DEF CacheOk, new

-----------------------------------------------------------------------------
(* Which headers are accepted.                                              *)

OverSigned(h) == \E s \in signed : s.over = h
Hows == {"cached", "signed", "sealed", "unsealed", "error", "crash"}

CacheInv ==
  verified = None \/ (CacheOk(verified) /\ \A k \in Slots : verified[k] # Empty => OverSigned(verified[k].hash))

HeadersInv ==
  /\ signed \subseteq Signatures
  /\ CacheInv
  /\ history = None \/ history.last \in Nat
  /\ rewritten \in BOOLEAN
  /\ outcome = None \/ outcome.how \in Hows
  /\ AcceptedIsSigned

LEMMA CachedIs ==
  ASSUME CacheInv, NEW b \in Hashes
  PROVE  /\ Cached(b) # None /\ Cached(b).hash = b => OverSigned(b)
         /\ Cached(b) = None => verified = None \/ \A k \in Slots : verified[k].number # Number(b)
<1> DEFINE ks == IF verified = None THEN {} ELSE {k \in Slots : verified[k].number = Number(b)}
<1>1. Cached(b) = IF ks = {} THEN None ELSE verified[CHOOSE k \in ks : \A j \in ks : k <= j]
  BY Zenon DEF Cached
<1>2. CASE verified = None
  BY <1>1, <1>2
<1>3. CASE verified # None /\ ks = {}
  BY <1>1, <1>3
<1>4. CASE verified # None /\ ks # {}
  <2>1. ks \subseteq Nat /\ ks # {} /\ ks \subseteq Slots
    BY <1>4 DEF Slots
  <2>2. Cached(b) = verified[CHOOSE k \in ks : \A j \in ks : k <= j]
    BY <1>1, <1>4
  <2> HIDE DEF ks
  <2>3. \E k \in ks : \A j \in ks : k <= j
    BY <2>1, LeastOfNaturals
  <2>4. PICK k \in Slots : Cached(b) = verified[k]
    BY <2>1, <2>2, <2>3
  <2>5. verified[k] \in Entries /\ (verified[k] # Empty => OverSigned(verified[k].hash))
    BY <1>4 DEF CacheInv, CacheOk
  <2>6. Empty.hash # b
    BY HeadersAssumption DEF Empty, HeadersConstants
  <2>7. verified[k] # None
    BY <2>5, HeadersAssumption DEF Entries, HeadersConstants
  <2> QED BY <2>4, <2>5, <2>6, <2>7
<1> QED BY <1>2, <1>3, <1>4

LEMMA HistoriesHaveLast ==
  ASSUME NEW states \in {SpecStates} \union (ValidatorAnswers \ {None})
  PROVE  HistoryOf(states).last \in Nat
<1>1. states \in Seq(Range(states)) /\ \A k \in DOMAIN states : states[k].block \in Nat
  BY HeadersAssumption DEF HeadersConstants
<1>2. Len(states) \in Nat /\ DOMAIN states = 1 .. Len(states) /\ (Len(states) = 0 => states = <<>>)
  BY <1>1, LenProperties, EmptySeq
<1>3. states # <<>> => Last(states).block \in Nat
  BY <1>1, <1>2 DEF Last
<1> QED BY <1>3 DEF HistoryOf

LEMMA EngineGives ==
  ASSUME history = None \/ history.last \in Nat, rewritten \in BOOLEAN,
         NEW b, NEW lastChange, NEW answer \in ValidatorAnswers, NEW e \in GetEngine(b, lastChange, answer)
  PROVE  e.history.last \in Nat /\ e.rewritten \in BOOLEAN
<1>1. Known.last \in Nat
  BY HistoriesHaveLast DEF Known
<1>2. CASE lastChange <= Known.last
  BY <1>1, <1>2 DEF GetEngine
<1>3. CASE ~(lastChange <= Known.last)
  <2>1. PICK r \in AddAuraValidators(Known, answer) :
          e \in (IF r.res = "ok" THEN {[engine |-> g, history |-> r.history,
                                        rewritten |-> rewritten \/ Rewritten(Known, answer)] : g \in Engines(r.history, Number(b))}
                 ELSE {[engine |-> r.res, history |-> Known, rewritten |-> rewritten]})
    BY <1>3 DEF GetEngine
  <2>2. CASE r.res = "ok"
    <3>1. answer # None /\ r.history = HistoryOf(answer)
      BY <2>1, <2>2 DEF AddAuraValidators
    <3>2. e.history = r.history /\ e.rewritten = (rewritten \/ Rewritten(Known, answer))
      BY <2>1, <2>2
    <3>3. e.rewritten \in BOOLEAN
      BY <3>2
    <3> QED BY <3>1, <3>2, <3>3, HistoriesHaveLast
  <2>3. CASE r.res # "ok"
    BY <1>1, <2>1, <2>3
  <2> QED BY <2>2, <2>3
<1> QED BY <1>2, <1>3

\* A signature over another header, or from another signer, confirms nothing, whatever is claimed.
LEMMA AllSignedAreSigned ==
  ASSUME signed \subseteq Signatures, NEW b, NEW signers \in Askable, NEW sigs \in [DOMAIN signers -> Tokens(b)], AllSigned(b, signers, sigs)
  PROVE  \A i \in DOMAIN signers : [by |-> signers[i], over |-> b] \in signed
<1> SUFFICES ASSUME NEW i \in DOMAIN signers PROVE [by |-> signers[i], over |-> b] \in signed
  OBVIOUS
<1>1. PICK k \in DOMAIN sigs : sigs[k].over = b /\ sigs[k].by = signers[i]
  BY DEF AllSigned, Confirmed
<1>2. sigs[k] \in Tokens(b) /\ signers[i] # None
  BY ElementOfSeq, LenProperties, HeadersAssumption DEF HeadersConstants
<1>3. PICK s \in signed : sigs[k].by = s.by /\ sigs[k].over = s.over
  BY <1>1, <1>2 DEF Tokens
<1>4. s \in [by : Signers, over : Hashes]
  BY HeadersAssumption DEF HeadersConstants
<1>5. s = [by |-> s.by, over |-> s.over]
  BY <1>4
<1> QED BY <1>1, <1>3, <1>5

LEMMA HeadersStart == HeadersInit => HeadersInv
  BY DEF HeadersInit, HeadersInv, CacheInv, AcceptedIsSigned

\* A step that leaves the cache and what was signed as they are.
LEMMA SameCacheKeeps ==
  ASSUME HeadersInv, UNCHANGED <<signed, verified>>,
         history' = None \/ history'.last \in Nat, rewritten' \in BOOLEAN,
         outcome' = None \/ (outcome'.how \in Hows \ {"cached", "signed"})
           \/ (outcome'.how = "cached" /\ OverSigned(outcome'.header))
  PROVE  HeadersInv'
<1>1. CacheInv'
  BY DEF HeadersInv, CacheInv, OverSigned
<1>2. AcceptedIsSigned'
  BY DEF AcceptedIsSigned, OverSigned
<1> QED BY <1>1, <1>2 DEF HeadersInv, Hows

LEMMA WrongHashKeeps ==
  ASSUME HeadersInv, UNCHANGED signed, NEW b \in Hashes, NEW expected, NEW signers, WrongHash(b, expected, signers)
  PROVE  HeadersInv'
<1>1. UNCHANGED <<verified, history, rewritten>> /\ outcome' = Outcome(b, signers, "error", TRUE)
  BY DEF WrongHash
<1>2. outcome'.how = "error"
  BY <1>1 DEF Outcome
<1>3. outcome'.how \in Hows \ {"cached", "signed"} /\ (history' = None \/ history'.last \in Nat) /\ rewritten' \in BOOLEAN
  BY <1>1, <1>2 DEF Hows, HeadersInv
<1> QED BY <1>1, <1>3, SameCacheKeeps

LEMMA VerifyCachedKeeps ==
  ASSUME HeadersInv, UNCHANGED signed, NEW b \in Hashes, NEW expected, NEW signers, VerifyCached(b, expected, signers)
  PROVE  HeadersInv'
<1>1. /\ UNCHANGED <<verified, history, rewritten>> /\ Cached(b) # None
      /\ outcome' = IF Cached(b).hash = b THEN Outcome(b, signers, "cached", FALSE) ELSE Outcome(b, signers, "error", TRUE)
  BY DEF VerifyCached
<1>2. (history' = None \/ history'.last \in Nat) /\ rewritten' \in BOOLEAN /\ CacheInv
  BY <1>1 DEF HeadersInv
<1>3. CASE Cached(b).hash = b
  <2>1. outcome'.how = "cached" /\ outcome'.header = b
    BY <1>1, <1>3 DEF Outcome
  <2>2. OverSigned(b)
    BY <1>1, <1>2, <1>3, CachedIs
  <2> QED BY <1>1, <1>2, <2>1, <2>2, SameCacheKeeps
<1>4. CASE Cached(b).hash # b
  <2>1. outcome'.how = "error"
    BY <1>1, <1>4 DEF Outcome
  <2>2. outcome'.how \in Hows \ {"cached", "signed"}
    BY <2>1 DEF Hows
  <2> QED BY <1>1, <1>2, <2>2, SameCacheKeeps
<1> QED BY <1>3, <1>4

\* What the cache is after a header was put into it.
LEMMA AddIs ==
  ASSUME HeadersInv, NEW b \in Hashes, Cached(b) = None
  PROVE  LET cache == IF verified = None THEN Fresh ELSE verified
         IN  /\ CacheOk(cache) /\ IsOldest(cache, OldestOf(cache))
             /\ AddVerified(b) = Put(cache, OldestOf(cache), b)
             /\ cache = Fresh \/ \A k \in Slots : cache[k].number # Number(b)
<1> DEFINE cache == IF verified = None THEN Fresh ELSE verified
<1>1. AddVerified(b) = Put(cache, OldestOf(cache), b)
  BY DEF AddVerified, OldestOf, Fresh, Put
<1>2. CacheOk(cache)
  BY FreshIsOk DEF HeadersInv, CacheInv
<1>3. cache = Fresh \/ \A k \in Slots : cache[k].number # Number(b)
  BY CachedIs DEF HeadersInv
<1>4. cache \in [Slots -> Entries]
  BY <1>2 DEF CacheOk
<1> HIDE DEF cache
<1>5. IsOldest(cache, OldestOf(cache))
  BY <1>4, OldestIs
<1> QED BY <1>1, <1>2, <1>3, <1>5 DEF cache

LEMMA VerifySignedKeeps ==
  ASSUME HeadersInv, UNCHANGED signed, NEW b \in Hashes, NEW expected, NEW signers \in Askable,
         NEW sigs \in [DOMAIN signers -> Tokens(b)], VerifySigned(b, expected, signers, sigs)
  PROVE  HeadersInv'
<1>1. /\ UNCHANGED <<history, rewritten>> /\ Cached(b) = None /\ signers # <<>>
  BY DEF VerifySigned
<1>2. (history' = None \/ history'.last \in Nat) /\ rewritten' \in BOOLEAN /\ CacheInv /\ signed \subseteq Signatures
  BY <1>1 DEF HeadersInv
<1>3. CASE ~AllSigned(b, signers, sigs)
  <2>1. outcome'.how = "error" /\ UNCHANGED verified
    BY <1>3 DEF VerifySigned, Outcome
  <2>2. outcome'.how \in Hows \ {"cached", "signed"}
    BY <2>1 DEF Hows
  <2> QED BY <1>2, <2>1, <2>2, SameCacheKeeps
<1>4. CASE AllSigned(b, signers, sigs)
  <2>1. PICK complaint : outcome' = Outcome(b, signers, "signed", complaint)
    BY <1>4 DEF VerifySigned
  <2>2. outcome'.how = "signed" /\ outcome'.header = b /\ outcome'.asked = signers
    BY <2>1 DEF Outcome
  <2>3. \A i \in DOMAIN signers : [by |-> signers[i], over |-> b] \in signed
    BY <1>2, <1>4, AllSignedAreSigned
  <2>4. OverSigned(b)
    <3>1. signers \in Seq(Signers)
      BY HeadersAssumption DEF HeadersConstants
    <3>2. 1 \in DOMAIN signers
      BY <1>1, <3>1, LenProperties, EmptySeq
    <3> QED BY <2>3, <3>2 DEF OverSigned
  <2>5. verified' = AddVerified(b)
    BY <1>4 DEF VerifySigned
  <2> DEFINE cache == IF verified = None THEN Fresh ELSE verified
  <2>6. PICK p : p = OldestOf(cache)
    OBVIOUS
  <2>7. /\ CacheOk(cache) /\ IsOldest(cache, p) /\ verified' = Put(cache, p, b)
        /\ cache = Fresh \/ \A k \in Slots : cache[k].number # Number(b)
    BY <1>1, <2>5, <2>6, AddIs
  <2>8. \A k \in Slots : cache[k] # Empty => OverSigned(cache[k].hash)
    BY <1>2 DEF CacheInv, Fresh
  <2> HIDE DEF cache
  <2>9. CacheOk(verified') /\ verified'[p] = [number |-> Number(b), hash |-> b] /\ \A k \in Slots : k # p => verified'[k] = cache[k]
    BY <2>7, AddKeeps
  <2>10. \A k \in Slots : verified'[k] # Empty => OverSigned(verified'[k].hash)
    BY <2>4, <2>8, <2>9
  <2>11. CacheInv'
    BY <2>9, <2>10 DEF CacheInv, CacheOk, OverSigned
  <2>12. AcceptedIsSigned'
    BY <2>2, <2>3 DEF AcceptedIsSigned
  <2> QED BY <1>2, <2>2, <2>11, <2>12 DEF HeadersInv, Hows
<1> QED BY <1>3, <1>4

LEMMA AuthorityAnswers == \A h, blocks : VerifyAuthority(h, blocks) \in {"ok", "error", "crash"}
  BY DEF VerifyAuthority

\* The process has ended, or the client is made again: only the cache is lost.
LEMMA LostCacheKeeps ==
  ASSUME HeadersInv, UNCHANGED signed, verified' = None,
         history' = None \/ history'.last \in Nat, rewritten' \in BOOLEAN,
         outcome' = None \/ outcome'.how = "crash"
  PROVE  HeadersInv'
<1>1. CacheInv'
  BY DEF CacheInv
<1>2. AcceptedIsSigned'
  BY DEF AcceptedIsSigned
<1> QED BY <1>1, <1>2 DEF HeadersInv, Hows

\* A header is never put into the cache for its seal.
LEMMA SealedKeepsOrEnds ==
  ASSUME NEW b, NEW expected, NEW finality, NEW lastChange, NEW answer,
         VerifySealed(b, expected, finality, lastChange, answer)
  PROVE  UNCHANGED verified \/ Crash(b)
<1>1. PICK e \in GetEngine(b, lastChange, answer) :
        IF e.engine = "crash" THEN Crash(b)
        ELSE IF e.engine = "aura"
        THEN LET res == VerifyAuthority(e.history, Merged(b, finality))
             IN  CASE res = "crash" -> Crash(b)
                   [] res = "ok" -> /\ outcome' = [Outcome(b, <<>>, "sealed", FALSE) EXCEPT !.seals = Merged(b, finality)]
                                    /\ UNCHANGED verified
                   [] res = "error" -> outcome' = Outcome(b, <<>>, "error", TRUE) /\ UNCHANGED verified
        ELSE outcome' = Outcome(b, <<>>, "unsealed", e.engine = "error") /\ UNCHANGED verified
  BY DEF VerifySealed
<1>2. VerifyAuthority(e.history, Merged(b, finality)) \in {"ok", "error", "crash"}
  BY AuthorityAnswers
<1>3. CASE e.engine # "crash" /\ e.engine # "aura"
  BY <1>1, <1>3, Zenon
<1>4. CASE e.engine = "crash"
  BY <1>1, <1>4
<1>5. CASE e.engine = "aura"
  BY <1>1, <1>2, <1>5
<1> QED BY <1>3, <1>4, <1>5

LEMMA VerifySealedKeeps ==
  ASSUME HeadersInv, UNCHANGED signed, NEW b \in Hashes, NEW expected, NEW finality, NEW lastChange,
         NEW answer \in ValidatorAnswers, VerifySealed(b, expected, finality, lastChange, answer)
  PROVE  HeadersInv'
<1>1. PICK e \in GetEngine(b, lastChange, answer) :
        /\ history' = e.history /\ rewritten' = e.rewritten
        /\ IF e.engine = "crash" THEN Crash(b)
           ELSE IF e.engine = "aura"
           THEN LET res == VerifyAuthority(e.history, Merged(b, finality))
                IN  CASE res = "crash" -> Crash(b)
                      [] res = "ok" -> /\ outcome' = [Outcome(b, <<>>, "sealed", FALSE) EXCEPT !.seals = Merged(b, finality)]
                                       /\ UNCHANGED verified
                      [] res = "error" -> outcome' = Outcome(b, <<>>, "error", TRUE) /\ UNCHANGED verified
           ELSE outcome' = Outcome(b, <<>>, "unsealed", e.engine = "error") /\ UNCHANGED verified
  BY DEF VerifySealed
<1>2. history'.last \in Nat /\ rewritten' \in BOOLEAN
  BY <1>1, EngineGives DEF HeadersInv
<1>3. CASE Crash(b)
  <2>1. verified' = None /\ outcome'.how = "crash"
    BY <1>3 DEF Crash, Outcome
  <2> QED BY <1>2, <2>1, LostCacheKeeps
<1>4. CASE UNCHANGED verified /\ outcome'.how \in {"sealed", "unsealed", "error"}
  <2>1. outcome'.how \in Hows \ {"cached", "signed"}
    BY <1>4 DEF Hows
  <2> QED BY <1>2, <1>4, <2>1, SameCacheKeeps
<1>5. Crash(b) \/ (UNCHANGED verified /\ outcome'.how \in {"sealed", "unsealed", "error"})
  <2>1. CASE e.engine = "crash"
    BY <1>1, <2>1
  <2>2. CASE e.engine = "aura"
    <3>1. CASE VerifyAuthority(e.history, Merged(b, finality)) = "crash"
      BY <1>1, <2>2, <3>1
    <3>2. CASE VerifyAuthority(e.history, Merged(b, finality)) = "ok"
      <4>1. UNCHANGED verified /\ outcome' = [Outcome(b, <<>>, "sealed", FALSE) EXCEPT !.seals = Merged(b, finality)]
        BY <1>1, <2>2, <3>2
      <4>2. outcome'.how = "sealed"
        BY <4>1 DEF Outcome
      <4> QED BY <4>1, <4>2
    <3>3. CASE VerifyAuthority(e.history, Merged(b, finality)) = "error"
      BY <1>1, <2>2, <3>3 DEF Outcome
    <3> QED BY <3>1, <3>2, <3>3, AuthorityAnswers
  <2>3. CASE e.engine \notin {"crash", "aura"}
    <3>1. e.engine # "crash" /\ e.engine # "aura"
      BY <2>3
    <3>2. UNCHANGED verified /\ outcome' = Outcome(b, <<>>, "unsealed", e.engine = "error")
      BY <1>1, <3>1, Zenon
    <3>3. PICK complaint : complaint = (e.engine = "error")
      OBVIOUS
    <3>4. outcome' = Outcome(b, <<>>, "unsealed", complaint)
      BY <3>2, <3>3, Zenon
    <3>5. outcome'.how = "unsealed"
      <4> HIDE <3>2, <3>3
      <4> QED BY <3>4 DEF Outcome
    <3> QED BY <3>2, <3>5, Zenon
  <2> QED BY <2>1, <2>2, <2>3
<1> QED BY <1>3, <1>4, <1>5

LEMMA SignHeaderKeeps ==
  ASSUME HeadersInv, SignHeader
  PROVE  HeadersInv'
<1>1. UNCHANGED <<verified, history, rewritten, outcome>> /\ outcome = None /\ signed \subseteq signed' /\ signed' \subseteq Signatures
  BY DEF SignHeader, HeadersInv
<1>2. \A h : OverSigned(h) => OverSigned(h)'
  BY <1>1 DEF OverSigned
<1>3. CacheInv'
  <2>1. verified # None => CacheOk(verified) /\ \A k \in Slots : verified[k] # Empty => OverSigned(verified[k].hash)
    BY DEF HeadersInv, CacheInv
  <2>2. \A h : (\E s \in signed : s.over = h) => \E s \in signed' : s.over = h
    BY <1>1
  <2>3. verified # None => \A k \in Slots : verified[k] # Empty => \E s \in signed' : s.over = verified[k].hash
    BY <2>1, <2>2 DEF OverSigned
  <2> QED BY <1>1, <2>1, <2>3 DEF CacheInv, OverSigned
<1> QED BY <1>1, <1>3 DEF HeadersInv, AcceptedIsSigned

LEMMA HeadersInvariance == HeadersSpec => []HeadersInv
<1>1. HeadersInv /\ [HeadersNext]_headerVars => HeadersInv'
  <2> SUFFICES ASSUME HeadersInv, [HeadersNext]_headerVars PROVE HeadersInv'
    OBVIOUS
  <2>1. CASE SignHeader
    BY <2>1, SignHeaderKeeps
  <2>2. CASE AnsweredSigned
    <3>1. PICK b \in SignedHeads, signers \in Askable :
            \/ \E expected \in SignedHeads : WrongHash(b, expected, signers)
            \/ VerifyCached(b, None, signers)
            \/ \E sigs \in [DOMAIN signers -> Tokens(b)] : VerifySigned(b, b, signers, sigs)
      BY <2>2 DEF AnsweredSigned
    <3>2. b \in Hashes /\ UNCHANGED signed
      BY <2>2, HeadersAssumption DEF AnsweredSigned, HeadersConstants
    <3>3. ASSUME NEW expected \in SignedHeads, WrongHash(b, expected, signers) PROVE HeadersInv'
      BY <3>2, <3>3, WrongHashKeeps
    <3>4. CASE VerifyCached(b, None, signers)
      BY <3>2, <3>4, VerifyCachedKeeps
    <3>5. ASSUME NEW sigs \in [DOMAIN signers -> Tokens(b)], VerifySigned(b, b, signers, sigs) PROVE HeadersInv'
      BY <3>2, <3>5, VerifySignedKeeps
    <3> QED BY <3>1, <3>3, <3>4, <3>5
  <2>3. CASE AnsweredSealed
    <3>1. PICK a \in HeaderAnswers, v \in ValidatorAnswers, lastChange \in LastChanges :
            VerifyCached(a.header, None, <<>>) \/ VerifySealed(a.header, None, a.finality, lastChange, v)
      BY <2>3 DEF AnsweredSealed
    <3>2. a.header \in Hashes /\ UNCHANGED signed
      BY <2>3, HeadersAssumption DEF AnsweredSealed, HeadersConstants
    <3>3. CASE VerifyCached(a.header, None, <<>>)
      BY <3>2, <3>3, VerifyCachedKeeps
    <3>4. CASE VerifySealed(a.header, None, a.finality, lastChange, v)
      BY <3>2, <3>4, VerifySealedKeeps
    <3> QED BY <3>1, <3>3, <3>4
  <2>4. CASE TakeOutcome
    <3>1. UNCHANGED <<signed, verified, history, rewritten>> /\ outcome' = None
      BY <2>4 DEF TakeOutcome
    <3>2. (history' = None \/ history'.last \in Nat) /\ rewritten' \in BOOLEAN
      BY <3>1 DEF HeadersInv
    <3> QED BY <3>1, <3>2, SameCacheKeeps
  <2>5. CASE Restart
    <3>1. UNCHANGED <<signed, history, rewritten>> /\ outcome' = None /\ verified' = None
      BY <2>5 DEF Restart
    <3>2. (history' = None \/ history'.last \in Nat) /\ rewritten' \in BOOLEAN
      BY <3>1 DEF HeadersInv
    <3> QED BY <3>1, <3>2, LostCacheKeeps
  <2>6. CASE UNCHANGED headerVars
    BY <2>6 DEF headerVars, HeadersInv, CacheInv, OverSigned, AcceptedIsSigned
  <2> QED BY <2>1, <2>2, <2>3, <2>4, <2>5, <2>6 DEF HeadersNext
<1> QED BY <1>1, HeadersStart, PTL DEF HeadersSpec

\* Whatever signatures a node passes on and whatever it says they are for, and however often
\* verified hashes are overwritten, lost and found again: a header is accepted for its signatures
\* only if each signer that was asked signed it, and from the cache only if some signer did
\* (eth_verify_blockheader, add_verified).
THEOREM AcceptedAreSigned == HeadersSpec => []AcceptedIsSigned
<1>1. HeadersInv => AcceptedIsSigned
  BY DEF HeadersInv
<1> QED BY <1>1, HeadersInvariance, PTL

\* The variables of the header checks keep their types, and an entry of verified_hashes is a
\* header's number with its hash.
THEOREM HeadersTypeCorrect == HeadersSpec => []HeadersTypeOK
<1>1. HeadersInv => HeadersTypeOK
  <2> SUFFICES ASSUME HeadersInv PROVE HeadersTypeOK
    OBVIOUS
  <2>1. ASSUME verified # None, NEW k \in Slots
        PROVE  verified[k] = Empty \/ verified[k] = [number |-> Number(verified[k].hash), hash |-> verified[k].hash]
    <3>1. verified[k] \in Entries
      BY <2>1 DEF HeadersInv, CacheInv, CacheOk
    <3> QED BY <3>1, EntriesAre
  <2> QED BY <2>1 DEF HeadersInv, HeadersTypeOK, Hows
<1> QED BY <1>1, HeadersInvariance, PTL

\* The cache after a header was put into one that had room for two and not its number.
LEMMA PutKeepsNewest ==
  ASSUME MaxHashes >= 2, NEW cache, CacheOk(cache), NEW b \in Hashes, NEW p, IsOldest(cache, p),
         \A k \in Slots : cache[k].number # Number(b), NEW new, new = Put(cache, p, b)
  PROVE  /\ \A k \in Slots : (\A j \in Slots : cache[j].number <= cache[k].number) =>
              \E j \in Slots : new[j].number >= cache[k].number
         /\ \A j, k \in Slots : new[j].number = new[k].number => (j = k \/ new[j] = Empty)
<1>1. CacheOk(new) /\ new[p] = [number |-> Number(b), hash |-> b] /\ \A k \in Slots : k # p => new[k] = cache[k]
  BY AddKeeps
<1>2. p \in Slots /\ MaxHashes \in Nat /\ \A k \in Slots : cache[k].number \in Nat
  BY EntriesAre, HeadersAssumption DEF IsOldest, CacheOk, HeadersConstants
<1>3. ASSUME NEW k \in Slots, \A j \in Slots : cache[j].number <= cache[k].number
      PROVE  \E j \in Slots : new[j].number >= cache[k].number
  <2>1. CASE k # p
    BY <1>1, <1>2, <2>1
  <2>2. CASE k = p
    <3>1. PICK j \in Slots : j # p
      BY <1>2 DEF Slots
    <3>2. new[j] = cache[j] /\ cache[p].number <= cache[j].number
      BY <1>1, <3>1 DEF IsOldest
    <3> QED BY <2>2, <3>2
  <2> QED BY <2>1, <2>2
<1>4. ASSUME NEW j \in Slots, NEW k \in Slots, new[j].number = new[k].number, j # k, new[j] # Empty PROVE FALSE
  <2>1. new[j].number = 0 /\ new[k].number = 0
    BY <1>1, <1>4 DEF CacheOk
  <2>2. j # p /\ k # p
    BY <1>1, <1>4
  <2>3. cache[j].number = 0 /\ cache[j] # Empty
    BY <1>1, <1>4, <2>1, <2>2
  <2>4. \A i \in 1 .. j - 1 : cache[i].number # 0
    BY <2>3 DEF CacheOk
  <2>5. cache[p].number = 0
    BY <1>2, <2>3 DEF IsOldest
  <2>6. p \notin 1 .. j - 1 /\ j \notin 1 .. p - 1
    BY <2>3, <2>4, <2>5 DEF IsOldest
  <2>7. p = j
    BY <1>2, <2>6 DEF Slots
  <2> QED BY <2>2, <2>7
<1> QED BY <1>3, <1>4

\* In a cache with room for two or more, a newly verified header never takes the place of the
\* highest number that was verified, and no number is kept twice but that of the slots never used
\* (add_verified).
THEOREM NewestStaysKept ==
  ASSUME MaxHashes >= 2
  PROVE  HeadersSpec => NewestIsKept
<1> DEFINE Step == (verified # verified' /\ verified # None /\ verified' # None) =>
       /\ \A k \in Slots : (\A j \in Slots : verified[j].number <= verified[k].number) =>
            \E j \in Slots : verified'[j].number >= verified[k].number
       /\ \A j, k \in Slots : verified'[j].number = verified'[k].number => (j = k \/ verified'[j] = Empty)
<1>1. HeadersInv /\ [HeadersNext]_headerVars => Step
  <2> SUFFICES ASSUME HeadersInv, HeadersNext, verified # verified', verified # None, verified' # None
               PROVE  /\ \A k \in Slots : (\A j \in Slots : verified[j].number <= verified[k].number) =>
                           \E j \in Slots : verified'[j].number >= verified[k].number
                      /\ \A j, k \in Slots : verified'[j].number = verified'[k].number => (j = k \/ verified'[j] = Empty)
    BY DEF headerVars
  <2>1. AnsweredSigned \/ AnsweredSealed
    BY DEF HeadersNext, SignHeader, TakeOutcome, Restart
  <2>2. ~AnsweredSealed
    <3> SUFFICES ASSUME AnsweredSealed PROVE FALSE
      OBVIOUS
    <3>1. PICK a \in HeaderAnswers, v \in ValidatorAnswers, lastChange \in LastChanges :
            VerifySealed(a.header, None, a.finality, lastChange, v)
      BY DEF AnsweredSealed, VerifyCached
    <3>2. UNCHANGED verified \/ Crash(a.header)
      BY <3>1, SealedKeepsOrEnds
    <3> QED BY <3>2 DEF Crash
  <2>3. PICK b \in SignedHeads, signers \in Askable :
          \E sigs \in [DOMAIN signers -> Tokens(b)] : VerifySigned(b, b, signers, sigs)
    BY <2>1, <2>2 DEF AnsweredSigned, VerifyCached, WrongHash
  <2>4. b \in Hashes /\ Cached(b) = None /\ verified' = AddVerified(b)
    BY <2>3, HeadersAssumption DEF VerifySigned, HeadersConstants
  <2>5. PICK p : p = OldestOf(verified)
    OBVIOUS
  <2>6. CacheOk(verified) /\ IsOldest(verified, p) /\ verified' = Put(verified, p, b)
    BY <2>4, <2>5, AddIs
  <2>7. \A k \in Slots : verified[k].number # Number(b)
    BY <2>4, CachedIs DEF HeadersInv
  <2>8. PICK new : new = verified'
    OBVIOUS
  <2>9. /\ \A k \in Slots : (\A j \in Slots : verified[j].number <= verified[k].number) =>
             \E j \in Slots : new[j].number >= verified[k].number
        /\ \A j, k \in Slots : new[j].number = new[k].number => (j = k \/ new[j] = Empty)
    BY <2>4, <2>6, <2>7, <2>8, PutKeepsNewest
  <2> QED BY <2>8, <2>9
<1> QED BY <1>1, HeadersInvariance, PTL DEF HeadersSpec, NewestIsKept
-----------------------------------------------------------------------------
(* In3Usn: lists of bookings.                                              *)

Rentals == [from : Nat, until : Nat, who : Users]
LogEntries == [kind : {"rented", "returned"}, device : Devices, from : Nat, until : Nat, who : Users]

\* No two bookings of a list begin at the same time.
Apart(s) == \A n, m \in DOMAIN s : s[n].from = s[m].from => n = m

LEMMA BookingList ==
  ASSUME NEW s \in Seq(Rentals)
  PROVE  /\ Len(s) \in Nat /\ DOMAIN s = 1 .. Len(s)
         /\ \A n \in DOMAIN s : s[n] \in Rentals /\ s[n].from \in Nat /\ s[n].until \in Nat /\ n \in Nat
<1>1. Len(s) \in Nat /\ DOMAIN s = 1 .. Len(s)
  BY LenProperties
<1>2. \A n \in DOMAIN s : s[n] \in Rentals
  BY <1>1, ElementOfSeq
<1> QED BY <1>1, <1>2 DEF Rentals

\* usn_add_booking and usn_event_handled take the first booking that fits.
First(I) == IF I # {} THEN Min(I) ELSE 0
FirstFrom(s, f) == First({n \in 1 .. Len(s) : s[n].from = f})
FirstUntil(s, u) == First({n \in 1 .. Len(s) : s[n].until = u})

LEMMA FirstFitting ==
  ASSUME NEW I, I \subseteq Nat \ {0}, NEW i, i = First(I)
  PROVE  IF I = {} THEN i = 0 ELSE i \in I
<1>1. CASE I # {}
  <2>1. \E x \in I : \A y \in I : x <= y
    BY <1>1, LeastOfNaturals
  <2>2. i = Min(I)
    BY <1>1 DEF First
  <2>3. Min(I) \in I
    BY <2>1 DEF Min
  <2> QED BY <1>1, <2>2, <2>3
<1> QED BY <1>1 DEF First

LEMMA FromOfList ==
  ASSUME NEW s \in Seq(Rentals), NEW f, NEW i, i = FirstFrom(s, f)
  PROVE  \/ i = 0 /\ \A n \in DOMAIN s : s[n].from # f
         \/ i \in DOMAIN s /\ s[i].from = f
<1> DEFINE I == {n \in 1 .. Len(s) : s[n].from = f}
<1>1. i = First(I)
  BY DEF FirstFrom
<1>2. I \subseteq Nat \ {0}
  BY BookingList
<1>3. \A n : n \in I <=> n \in DOMAIN s /\ s[n].from = f
  BY BookingList
<1> HIDE DEF I
<1>4. IF I = {} THEN i = 0 ELSE i \in I
  BY <1>1, <1>2, FirstFitting
<1> QED BY <1>3, <1>4

LEMMA UntilOfList ==
  ASSUME NEW s \in Seq(Rentals), NEW u, NEW i, i = FirstUntil(s, u),
         \E n \in DOMAIN s : s[n].until = u
  PROVE  i \in DOMAIN s /\ s[i].until = u
<1> DEFINE I == {n \in 1 .. Len(s) : s[n].until = u}
<1>1. i = First(I)
  BY DEF FirstUntil
<1>2. I \subseteq Nat \ {0}
  BY BookingList
<1>3. \A n : n \in I <=> n \in DOMAIN s /\ s[n].until = u
  BY BookingList
<1> HIDE DEF I
<1>4. IF I = {} THEN i = 0 ELSE i \in I
  BY <1>1, <1>2, FirstFitting
<1> QED BY <1>3, <1>4

\* One booking is taken out of a list, the others stay.
LEMMA RemovedFromList ==
  ASSUME NEW s \in Seq(Rentals), NEW i \in DOMAIN s, NEW t, t = RemoveAt(s, i)
  PROVE  /\ t \in Seq(Rentals)
         /\ \A n \in DOMAIN t : \E m \in DOMAIN s : t[n] = s[m]
         /\ \A m \in DOMAIN s : m = i \/ \E n \in DOMAIN t : t[n] = s[m]
         /\ Apart(s) => Apart(t)
<1> DEFINE a == SubSeq(s, 1, i - 1)
           b == SubSeq(s, i + 1, Len(s))
<1>1. PICK k \in Nat : k = Len(s) /\ i \in 1 .. k /\ DOMAIN s = 1 .. k
  BY BookingList
<1>2. \A n \in 1 .. k : s[n] \in Rentals
  BY <1>1, BookingList
<1>3. /\ a \in Seq(Rentals) /\ Len(a) = i - 1
      /\ \A n \in 1 .. i - 1 : a[n] = s[n]
  <2>1. 1 \in Int /\ i - 1 \in Int /\ \A n \in 1 .. i - 1 : s[n] \in Rentals
    BY <1>1, <1>2
  <2>2. /\ a \in Seq(Rentals) /\ Len(a) = IF 1 <= i - 1 THEN i - 1 - 1 + 1 ELSE 0
        /\ \A n \in 1 .. i - 1 - 1 + 1 : a[n] = s[1 + n - 1]
    BY <2>1, SubSeqProperties
  <2> HIDE DEF a
  <2>3. \A n \in 1 .. i - 1 : n \in 1 .. i - 1 - 1 + 1 /\ 1 + n - 1 = n
    BY <1>1
  <2> QED BY <1>1, <2>2, <2>3
<1>4. /\ b \in Seq(Rentals) /\ Len(b) = k - i
      /\ \A n \in 1 .. k - i : b[n] = s[i + n]
  <2>1. i + 1 \in Int /\ k \in Int /\ \A n \in i + 1 .. k : s[n] \in Rentals
    BY <1>1, <1>2
  <2>2. /\ b \in Seq(Rentals) /\ Len(b) = IF i + 1 <= k THEN k - (i + 1) + 1 ELSE 0
        /\ \A n \in 1 .. k - (i + 1) + 1 : b[n] = s[i + 1 + n - 1]
    BY <1>1, <2>1, SubSeqProperties
  <2> HIDE DEF b
  <2>3. \A n \in 1 .. k - i : n \in 1 .. k - (i + 1) + 1 /\ i + 1 + n - 1 = i + n
    BY <1>1
  <2> QED BY <1>1, <2>2, <2>3
<1>5. t = a \o b
  BY DEF RemoveAt
<1> HIDE DEF a, b
<1>6. /\ a \o b \in Seq(Rentals) /\ Len(a \o b) = Len(a) + Len(b)
      /\ \A n \in 1 .. Len(a) + Len(b) : (a \o b)[n] = IF n <= Len(a) THEN a[n] ELSE b[n - Len(a)]
  BY <1>3, <1>4, ConcatProperties
<1>7. /\ t \in Seq(Rentals) /\ Len(t) = k - 1 /\ DOMAIN t = 1 .. k - 1
      /\ \A n \in 1 .. k - 1 : t[n] = IF n <= i - 1 THEN a[n] ELSE b[n - (i - 1)]
  <2>0. (i - 1) + (k - i) = k - 1
    BY <1>1
  <2>1. Len(a) + Len(b) = k - 1 /\ Len(a) = i - 1
    BY <1>3, <1>4, <2>0
  <2>2. /\ t \in Seq(Rentals) /\ Len(t) = k - 1
        /\ \A n \in 1 .. k - 1 : t[n] = IF n <= i - 1 THEN a[n] ELSE b[n - (i - 1)]
    BY <1>5, <1>6, <2>1
  <2>3. DOMAIN t = 1 .. Len(t)
    BY <2>2, BookingList
  <2> QED BY <2>2, <2>3
<1>8. ASSUME NEW n \in 1 .. k - 1
      PROVE  t[n] = s[IF n < i THEN n ELSE n + 1]
  <2>1. t[n] = IF n <= i - 1 THEN a[n] ELSE b[n - (i - 1)]
    BY <1>7
  <2>2. CASE n < i
    BY <1>1, <1>3, <2>1, <2>2
  <2>3. CASE ~(n < i)
    <3>1. n - (i - 1) \in 1 .. k - i /\ i + (n - (i - 1)) = n + 1 /\ ~(n <= i - 1)
      BY <1>1, <2>3
    <3>2. b[n - (i - 1)] = s[n + 1]
      BY <1>4, <3>1
    <3> QED BY <2>1, <2>3, <3>1, <3>2
  <2> QED BY <2>2, <2>3
<1>9. \A n \in DOMAIN t : \E m \in DOMAIN s : t[n] = s[m]
  <2>1. ASSUME NEW n \in 1 .. k - 1 PROVE (IF n < i THEN n ELSE n + 1) \in 1 .. k
    BY <1>1
  <2> QED BY <1>1, <1>7, <1>8, <2>1
<1>10. ASSUME NEW m \in DOMAIN s, m # i PROVE \E n \in DOMAIN t : t[n] = s[m]
  <2>1. CASE m < i
    <3>1. m \in 1 .. k - 1
      BY <1>1, <2>1
    <3> QED BY <1>7, <1>8, <2>1, <3>1
  <2>2. CASE m > i
    <3>1. m - 1 \in 1 .. k - 1 /\ ~(m - 1 < i) /\ m - 1 + 1 = m
      BY <1>1, <2>2
    <3>2. t[m - 1] = s[m]
      BY <1>8, <3>1
    <3> QED BY <1>7, <3>1, <3>2
  <2> QED BY <1>1, <1>10, <2>1, <2>2
<1>11. ASSUME Apart(s) PROVE Apart(t)
  <2>1. ASSUME NEW n \in DOMAIN t, NEW m \in DOMAIN t, t[n].from = t[m].from PROVE n = m
    <3>1. PICK p, q : p = (IF n < i THEN n ELSE n + 1) /\ q = (IF m < i THEN m ELSE m + 1)
      OBVIOUS
    <3>2. p \in DOMAIN s /\ q \in DOMAIN s
      BY <1>1, <1>7, <3>1
    <3>3. t[n] = s[p] /\ t[m] = s[q]
      BY <1>7, <1>8, <3>1
    <3>4. p = q
      BY <1>11, <2>1, <3>2, <3>3 DEF Apart
    <3> QED BY <1>1, <1>7, <3>1, <3>4
  <2> QED BY <2>1 DEF Apart
<1> QED BY <1>7, <1>9, <1>10, <1>11

\* usn_add_booking: the event's booking is in the list afterwards, with its end, and every other
\* booking as it was.
BookingAdded(s, t, f, u) ==
  /\ t \in Seq(Rentals)
  /\ Apart(t)
  /\ \A n \in DOMAIN t : \/ t[n].from = f /\ t[n].until = u
                         \/ t[n].from # f /\ \E m \in DOMAIN s : t[n] = s[m]
  /\ \A m \in DOMAIN s : s[m].from = f \/ \E n \in DOMAIN t : t[n] = s[m]
  /\ \E n \in DOMAIN t : t[n].from = f /\ t[n].until = u

LEMMA AddedToList ==
  ASSUME NEW s \in Seq(Rentals), NEW e \in LogEntries, NEW f \in Nat, NEW u \in Nat, f = e.from, u = e.until, Apart(s),
         NEW t, t = AddBooking(s, e)
  PROVE  BookingAdded(s, t, f, u)
<1>1. PICK k \in Nat : k = Len(s) /\ DOMAIN s = 1 .. k
  BY BookingList
<1>2. \A n \in 1 .. k : s[n] \in Rentals
  BY <1>1, BookingList
<1>3. PICK i : i = FirstFrom(s, f)
  OBVIOUS
<1>4. \/ i = 0 /\ \A n \in DOMAIN s : s[n].from # f
      \/ i \in DOMAIN s /\ s[i].from = f
  BY <1>3, FromOfList
<1>5. t = IF i # 0 THEN [s EXCEPT ![i].until = u] ELSE Append(s, Booking(f, u, e.who))
  BY <1>3 DEF AddBooking, SelectInSeq, FirstFrom, First
<1>6. PICK b : b = Booking(f, u, e.who)
  OBVIOUS
<1>7. b \in Rentals /\ b.from = f /\ b.until = u
  BY <1>6 DEF Rentals, Booking, LogEntries
<1>8. CASE i = 0 /\ \A n \in DOMAIN s : s[n].from # f
  <2>1. t = Append(s, b)
    BY <1>5, <1>6, <1>8
  <2>2. /\ t \in Seq(Rentals) /\ Len(t) = k + 1
        /\ \A n \in 1 .. k : t[n] = s[n]
        /\ t[k + 1] = b
    BY <1>1, <1>7, <2>1, AppendProperties
  <2>3. DOMAIN t = 1 .. k + 1
    BY <2>2, BookingList
  <2>4. \A n \in 1 .. k + 1 : n \in 1 .. k \/ n = k + 1
    OBVIOUS
  <2>5. \A n \in 1 .. k : n \in 1 .. k + 1 /\ n # k + 1 /\ t[n].from # f
    BY <1>1, <1>8, <2>2
  <2>6. k + 1 \in 1 .. k + 1
    OBVIOUS
  <2>7. Apart(t)
    <3>1. ASSUME NEW n \in 1 .. k + 1, NEW m \in 1 .. k + 1, t[n].from = t[m].from PROVE n = m
      <4>1. CASE n = k + 1
        BY <1>7, <2>2, <2>4, <2>5, <3>1, <4>1
      <4>2. CASE m = k + 1
        BY <1>7, <2>2, <2>4, <2>5, <3>1, <4>2
      <4>3. CASE n \in 1 .. k /\ m \in 1 .. k
        <5>1. s[n].from = s[m].from
          BY <2>2, <3>1, <4>3
        <5> QED BY <1>1, <4>3, <5>1 DEF Apart
      <4> QED BY <2>4, <4>1, <4>2, <4>3
    <3> QED BY <2>3, <3>1, Zenon DEF Apart
  <2>8. ASSUME NEW n \in DOMAIN t
        PROVE  \/ t[n].from = f /\ t[n].until = u
               \/ t[n].from # f /\ \E m \in DOMAIN s : t[n] = s[m]
    BY <1>1, <1>7, <2>2, <2>3, <2>4, <2>5, <2>8
  <2> QED BY <1>1, <1>7, <2>2, <2>3, <2>5, <2>6, <2>7, <2>8 DEF BookingAdded
<1>9. CASE i \in DOMAIN s /\ s[i].from = f
  <2>1. t = [s EXCEPT ![i].until = u]
    BY <1>1, <1>5, <1>9
  <2>2. PICK r : r = [s[i] EXCEPT !.until = u]
    OBVIOUS
  <2>3. r \in Rentals /\ r.from = f /\ r.until = u
    BY <1>1, <1>2, <1>9, <2>2 DEF Rentals
  <2>4. t = [s EXCEPT ![i] = r]
    BY <2>1, <2>2
  <2>5. DOMAIN t = 1 .. k /\ \A n \in 1 .. k : t[n] = IF n = i THEN r ELSE s[n]
    BY <1>1, <2>4
  <2>6. t \in Seq(Rentals)
    <3>1. t \in [1 .. k -> Rentals]
      BY <1>1, <1>2, <2>3, <2>4
    <3> QED BY <3>1 DEF Seq
  <2>7. \A n \in 1 .. k : t[n].from = s[n].from
    BY <1>9, <2>3, <2>5
  <2>8. Apart(t)
    <3>1. \A n, m \in 1 .. k : s[n].from = s[m].from => n = m
      BY <1>1 DEF Apart
    <3>2. \A n, m \in 1 .. k : t[n].from = t[m].from => n = m
      BY <2>7, <3>1
    <3> QED BY <2>5, <3>2 DEF Apart
  <2>9. \A n \in 1 .. k : n # i => s[n].from # f
    BY <1>1, <1>9 DEF Apart
  <2> QED BY <1>1, <1>9, <2>3, <2>5, <2>6, <2>8, <2>9 DEF BookingAdded
<1> QED BY <1>4, <1>8, <1>9

\* Which times a list of bookings holds, and what each change of a list makes of them.
Has(s, f, u) == \E n \in DOMAIN s : s[n].from = f /\ s[n].until = u

LEMMA HasOne ==
  ASSUME NEW s \in Seq(Rentals), NEW f, NEW u, Has(s, f, u)
  PROVE  /\ f \in Nat /\ u \in Nat
         /\ Apart(s) => \A v : Has(s, f, v) => v = u
<1>1. f \in Nat /\ u \in Nat
  BY BookingList DEF Has
<1>2. ASSUME Apart(s), NEW v, Has(s, f, v) PROVE v = u
  BY <1>2 DEF Has, Apart
<1> QED BY <1>1, <1>2

LEMMA HasAdded ==
  ASSUME NEW s \in Seq(Rentals), NEW e \in LogEntries, NEW f \in Nat, NEW u \in Nat, f = e.from, u = e.until, Apart(s),
         NEW t, t = AddBooking(s, e)
  PROVE  /\ t \in Seq(Rentals) /\ Apart(t) /\ Has(t, f, u)
         /\ \A g, v : Has(t, g, v) => (g = f /\ v = u) \/ (g # f /\ Has(s, g, v))
         /\ \A g, v : Has(s, g, v) => g = f \/ Has(t, g, v)
<1>1. BookingAdded(s, t, f, u)
  BY AddedToList
<1>2. ASSUME NEW g, NEW v, Has(t, g, v) PROVE (g = f /\ v = u) \/ (g # f /\ Has(s, g, v))
  <2>1. PICK n \in DOMAIN t : t[n].from = g /\ t[n].until = v
    BY <1>2 DEF Has
  <2> QED BY <1>1, <2>1 DEF Has, BookingAdded
<1>3. ASSUME NEW g, NEW v, Has(s, g, v) PROVE g = f \/ Has(t, g, v)
  <2>1. PICK n \in DOMAIN s : s[n].from = g /\ s[n].until = v
    BY <1>3 DEF Has
  <2> QED BY <1>1, <2>1 DEF Has, BookingAdded
<1> QED BY <1>1, <1>2, <1>3 DEF Has, BookingAdded

LEMMA HasRemoved ==
  ASSUME NEW s \in Seq(Rentals), NEW i \in DOMAIN s, NEW u, s[i].until = u, NEW t, t = RemoveAt(s, i)
  PROVE  /\ t \in Seq(Rentals) /\ (Apart(s) => Apart(t))
         /\ \A g, v : Has(t, g, v) => Has(s, g, v)
         /\ \A g, v : Has(s, g, v) => v = u \/ Has(t, g, v)
<1>1. /\ t \in Seq(Rentals)
      /\ \A n \in DOMAIN t : \E m \in DOMAIN s : t[n] = s[m]
      /\ \A m \in DOMAIN s : m = i \/ \E n \in DOMAIN t : t[n] = s[m]
      /\ Apart(s) => Apart(t)
  BY RemovedFromList
<1>2. ASSUME NEW g, NEW v, Has(t, g, v) PROVE Has(s, g, v)
  <2>1. PICK n \in DOMAIN t : t[n].from = g /\ t[n].until = v
    BY <1>2 DEF Has
  <2> QED BY <1>1, <2>1 DEF Has
<1>3. ASSUME NEW g, NEW v, Has(s, g, v) PROVE v = u \/ Has(t, g, v)
  <2>1. PICK n \in DOMAIN s : s[n].from = g /\ s[n].until = v
    BY <1>3 DEF Has
  <2> QED BY <1>1, <2>1 DEF Has
<1> QED BY <1>1, <1>2, <1>3

LEMMA HasAppended ==
  ASSUME NEW s \in Seq(Rentals), NEW b \in Rentals, NEW t, t = Append(s, b)
  PROVE  /\ t \in Seq(Rentals)
         /\ \A g, v : Has(t, g, v) <=> Has(s, g, v) \/ (g = b.from /\ v = b.until)
         /\ Apart(s) /\ (\A g, v : Has(s, g, v) => g # b.from) => Apart(t)
<1>1. PICK k \in Nat : k = Len(s) /\ DOMAIN s = 1 .. k
  BY BookingList
<1>2. t \in Seq(Rentals) /\ Len(t) = k + 1 /\ t[k + 1] = b /\ \A n \in 1 .. k : t[n] = s[n]
  BY <1>1, AppendProperties
<1>3. DOMAIN t = 1 .. k + 1
  BY <1>2, BookingList
<1>4. \A n : n \in 1 .. k + 1 <=> n \in 1 .. k \/ n = k + 1
  OBVIOUS
<1>5. ASSUME NEW g, NEW v PROVE Has(t, g, v) <=> Has(s, g, v) \/ (g = b.from /\ v = b.until)
  <2>1. Has(t, g, v) <=> \E n \in 1 .. k + 1 : t[n].from = g /\ t[n].until = v
    BY <1>3 DEF Has
  <2>2. Has(s, g, v) <=> \E n \in 1 .. k : s[n].from = g /\ s[n].until = v
    BY <1>1 DEF Has
  <2> QED BY <1>2, <1>4, <2>1, <2>2
<1>6. ASSUME Apart(s), \A g, v : Has(s, g, v) => g # b.from PROVE Apart(t)
  <2>1. \A n \in 1 .. k : s[n].from # b.from
    BY <1>1, <1>6 DEF Has
  <2>2. ASSUME NEW n \in 1 .. k + 1, NEW m \in 1 .. k + 1, t[n].from = t[m].from PROVE n = m
    <3>1. CASE n \in 1 .. k /\ m \in 1 .. k
      <4>1. s[n].from = s[m].from
        BY <1>2, <2>2, <3>1
      <4> QED BY <1>1, <1>6, <3>1, <4>1 DEF Apart
    <3>2. CASE n = k + 1 \/ m = k + 1
      BY <1>2, <1>4, <2>1, <2>2, <3>2
    <3> QED BY <1>4, <3>1, <3>2
  <2> QED BY <1>3, <2>2, Zenon DEF Apart
<1> QED BY <1>2, <1>5, <1>6

Replaced(s, i, r) == [s EXCEPT ![i] = r]

LEMMA HasEnded ==
  ASSUME NEW s \in Seq(Rentals), NEW i \in DOMAIN s, NEW f, s[i].from = f, NEW u, Apart(s),
         NEW r \in Rentals, r.from = f, r.until = u, NEW t, t = Replaced(s, i, r)
  PROVE  /\ t \in Seq(Rentals) /\ Apart(t) /\ Has(t, f, u)
         /\ \A g, v : Has(t, g, v) => (g = f /\ v = u) \/ (g # f /\ Has(s, g, v))
         /\ \A g, v : Has(s, g, v) => g = f \/ Has(t, g, v)
<1>1. PICK k \in Nat : k = Len(s) /\ DOMAIN s = 1 .. k
  BY BookingList
<1>2. \A n \in 1 .. k : s[n] \in Rentals
  BY <1>1, BookingList
<1>3. DOMAIN t = 1 .. k /\ \A n \in 1 .. k : t[n] = IF n = i THEN r ELSE s[n]
  BY <1>1 DEF Replaced
<1>4. t \in Seq(Rentals)
  <2>1. t \in [1 .. k -> Rentals]
    BY <1>1, <1>2 DEF Replaced
  <2> QED BY <2>1 DEF Seq
<1>5. \A n \in 1 .. k : t[n].from = s[n].from
  BY <1>3
<1>6. Apart(t)
  <2>1. ASSUME NEW n \in 1 .. k, NEW m \in 1 .. k, t[n].from = t[m].from PROVE n = m
    BY <1>1, <1>5, <2>1 DEF Apart
  <2>2. DOMAIN t = 1 .. k
    BY <1>3
  <2>3. \A n, m \in DOMAIN t : t[n].from = t[m].from => n = m
    BY <2>1, <2>2, Zenon
  <2> QED BY <2>3, Zenon DEF Apart
<1>7. \A n \in 1 .. k : n # i => s[n].from # f
  BY <1>1 DEF Apart
<1>8. Has(t, f, u)
  BY <1>1, <1>3 DEF Has
<1>9. ASSUME NEW g, NEW v, Has(t, g, v) PROVE (g = f /\ v = u) \/ (g # f /\ Has(s, g, v))
  <2>1. PICK n \in 1 .. k : t[n].from = g /\ t[n].until = v
    BY <1>3, <1>9 DEF Has
  <2> QED BY <1>1, <1>3, <1>7, <2>1 DEF Has
<1>10. ASSUME NEW g, NEW v, Has(s, g, v) PROVE g = f \/ Has(t, g, v)
  <2>1. PICK n \in 1 .. k : s[n].from = g /\ s[n].until = v
    BY <1>1, <1>10 DEF Has
  <2> QED BY <1>3, <1>7, <2>1 DEF Has
<1> QED BY <1>4, <1>6, <1>8, <1>9, <1>10

LEMMA HasPrefix ==
  ASSUME NEW s \in Seq(Rentals), NEW n \in 0 .. Len(s), NEW t, t = SubSeq(s, 1, n)
  PROVE  /\ t \in Seq(Rentals) /\ (Apart(s) => Apart(t))
         /\ \A g, v : Has(t, g, v) => Has(s, g, v)
         /\ n = Len(s) => t = s
<1>1. PICK k \in Nat : k = Len(s) /\ DOMAIN s = 1 .. k
  BY BookingList
<1>2. 1 \in Int /\ n \in Int /\ \A m \in 1 .. n : s[m] \in Rentals
  BY <1>1, BookingList
<1>3. /\ t \in Seq(Rentals) /\ Len(t) = IF 1 <= n THEN n - 1 + 1 ELSE 0
      /\ \A m \in 1 .. n - 1 + 1 : t[m] = s[1 + m - 1]
  BY <1>2, SubSeqProperties
<1>4. Len(t) = n
  BY <1>1, <1>3
<1>5. DOMAIN t = 1 .. n
  BY <1>3, <1>4, BookingList
<1>6. ASSUME NEW m \in 1 .. n PROVE t[m] = s[m] /\ m \in 1 .. k
  <2>1. m \in 1 .. n - 1 + 1 /\ 1 + m - 1 = m /\ m \in 1 .. k
    BY <1>1
  <2> QED BY <1>3, <2>1
<1>7. ASSUME Apart(s) PROVE Apart(t)
  <2>1. ASSUME NEW m \in 1 .. n, NEW p \in 1 .. n, t[m].from = t[p].from PROVE m = p
    BY <1>1, <1>6, <1>7, <2>1 DEF Apart
  <2> QED BY <1>5, <2>1, Zenon DEF Apart
<1>8. \A g, v : Has(t, g, v) => Has(s, g, v)
  BY <1>1, <1>5, <1>6, Zenon DEF Has
<1>9. ASSUME n = Len(s) PROVE t = s
  <2>1. Len(t) = Len(s)
    BY <1>4, <1>9
  <2>2. \A m \in 1 .. Len(t) : t[m] = s[m]
    BY <1>4, <1>6
  <2> QED BY <1>3, <2>1, <2>2, SeqEqual
<1> QED BY <1>3, <1>7, <1>8, <1>9

-----------------------------------------------------------------------------
(* What the program knows of the bookings follows what the contract said     *)

UsnConstants == Devices \subseteq Nat /\ Horizon \in Nat \ {0} /\ MaxLog \in Nat

Phases == {"idle", "before", "load", "logs", "events", "after"}

UsnTypes ==
  /\ now \in 1 .. Horizon
  /\ onChain \in [Devices -> Seq(Rentals)] /\ bookings \in [Devices -> Seq(Rentals)]
  /\ log \in Seq(LogEntries)
  /\ current \in [Devices -> Nat]
  /\ checked \in 0 .. Block
  /\ update \in [at : Phases, number : 0 .. Block, left : SUBSET Devices, next : Nat]
  /\ update.next <= update.number

\* An event of the log, from the p-th on, is about the booking of d that begins at f.
LoggedFrom(d, f, p) == \E k \in DOMAIN log : k >= p /\ log[k].device = d /\ log[k].from = f

\* A device's bookings begin at different times, and what an event says of one holds until the
\* next event about it.
ContractInv ==
  /\ \A d \in Devices : /\ Apart(onChain[d])
                        /\ \A f, u : Has(onChain[d], f, u) => f < u
  /\ \A k \in DOMAIN log :
       LET e == log[k]
       IN  /\ \E u : Has(onChain[e.device], e.from, u)
           /\ LoggedFrom(e.device, e.from, k + 1) \/ Has(onChain[e.device], e.from, e.until)

\* The bookings of d are those of the contract, but for those that are over and those of
\* which events from the p-th on tell.
Follows(d, p) ==
  /\ \A f, u : Has(bookings[d], f, u) => LoggedFrom(d, f, p) \/ Has(onChain[d], f, u)
  /\ \A f, u : Has(onChain[d], f, u) => u <= now \/ LoggedFrom(d, f, p) \/ Has(bookings[d], f, u)
  /\ current[d] # 0 => \E f, u : Has(bookings[d], f, u) /\ f <= now

\* The first event that was not added yet
Level == IF update.at = "events" THEN update.next ELSE checked

DeviceInv(d) ==
  /\ Apart(bookings[d])
  /\ \A f, u : Has(bookings[d], f, u) => \E v : Has(onChain[d], f, v)
  /\ current[d] # 0 => \E f, u : Has(onChain[d], f, u) /\ f <= now
  /\ checked # 0 => \A p : p = Level => Follows(d, p)
  /\ update.at = "load" /\ d \notin update.left => \A p : p = update.number => Follows(d, p)

\* No booking of d ends or begins now.
Quiet(d) ==
  \A n \in DOMAIN bookings[d] :
    bookings[d][n].until > now /\ (current[d] = 0 => bookings[d][n].from > now)

StepInv ==
  /\ update.at = "load" => checked = 0 /\ update.number # 0
  /\ update.at = "logs" => checked # 0 /\ update.next = checked
  /\ update.at = "events" => checked # 0 /\ update.next # 0
  /\ fresh => checked = Block /\ update.at \in {"idle", "before", "after"} /\ \A d \in Devices : Quiet(d)

GrantedInv ==
  granted # None =>
    \/ granted.event = 0
    \/ /\ granted.event \in DOMAIN log
       /\ LET e == log[granted.event] IN granted.who = e.who /\ e.from <= granted.at /\ granted.at <= e.until

UsnInv == UsnTypes /\ ContractInv /\ (\A d \in Devices : DeviceInv(d)) /\ StepInv /\ GrantedInv

-----------------------------------------------------------------------------
(* The next event                                                          *)

EventShapes == [ts : Nat, device : Nat, n : Nat, kind : {"stop", "start"}]

LEMMA EventsAre ==
  ASSUME UsnConstants, UsnTypes, NEW e \in Events
  PROVE  /\ e \in EventShapes /\ e.device \in Devices /\ e.n \in DOMAIN bookings[e.device]
         /\ \/ e.kind = "stop" /\ e.ts = bookings[e.device][e.n].until
            \/ /\ e.kind = "start" /\ e.ts = bookings[e.device][e.n].from
               /\ \/ bookings[e.device][e.n].from > now
                  \/ current[e.device] = 0 /\ bookings[e.device][e.n].until > now
<1>1. PICK d \in Devices : e \in Stops(d) \/ e \in Starts(d)
  BY DEF Events
<1>2. PICK s \in Seq(Rentals) : s = bookings[d]
  BY DEF UsnTypes
<1>3. \A n \in DOMAIN s : n \in Nat /\ s[n].from \in Nat /\ s[n].until \in Nat
  BY BookingList
<1>4. d \in Nat
  BY DEF UsnConstants
<1>5. CASE e \in Stops(d)
  <2>1. PICK n \in DOMAIN s : e = [ts |-> s[n].until, device |-> d, n |-> n, kind |-> "stop"]
    BY <1>2, <1>5 DEF Stops
  <2> QED BY <1>2, <1>3, <1>4, <2>1 DEF EventShapes
<1>6. CASE e \in Starts(d)
  <2>1. PICK n \in DOMAIN s : /\ Begins(s[n], current[d] = 0)
                              /\ e = [ts |-> s[n].from, device |-> d, n |-> n, kind |-> "start"]
    BY <1>2, <1>6 DEF Starts
  <2> QED BY <1>2, <1>3, <1>4, <2>1 DEF EventShapes, Begins
<1> QED BY <1>1, <1>5, <1>6

\* In a set of events one comes before every other.
LEMMA OneIsFirst ==
  ASSUME NEW E, E \subseteq EventShapes, E # {}
  PROVE  \E e \in E : \A f \in E \ {e} : Earlier(e, f)
<1>1. \A e \in E : e.ts \in Nat /\ e.device \in Nat /\ e.n \in Nat /\ e.kind \in {"stop", "start"}
  BY DEF EventShapes
<1>2. PICK a \in E : \A f \in E : a.ts <= f.ts
  <2> DEFINE T == {f.ts : f \in E}
  <2>1. T \subseteq Nat /\ T # {}
    BY <1>1
  <2>2. \E x \in T : \A y \in T : x <= y
    BY <2>1, LeastOfNaturals
  <2> QED BY <2>2
<1>3. PICK b \in E : b.ts = a.ts /\ \A f \in E : f.ts = a.ts => b.device <= f.device
  <2> DEFINE T == {f.device : f \in {g \in E : g.ts = a.ts}}
  <2>1. T \subseteq Nat /\ T # {}
    BY <1>1
  <2>2. \E x \in T : \A y \in T : x <= y
    BY <2>1, LeastOfNaturals
  <2> QED BY <2>2
<1>4. PICK c \in E : c.ts = a.ts /\ c.device = b.device /\ \A f \in E : f.ts = a.ts /\ f.device = b.device => c.n <= f.n
  <2> DEFINE T == {f.n : f \in {g \in E : g.ts = a.ts /\ g.device = b.device}}
  <2>1. T \subseteq Nat /\ T # {}
    BY <1>1, <1>3
  <2>2. \E x \in T : \A y \in T : x <= y
    BY <2>1, LeastOfNaturals
  <2> QED BY <2>2
<1> DEFINE Same(f) == f.ts = a.ts /\ f.device = b.device /\ f.n = c.n
<1>5. PICK e \in E : Same(e) /\ (e.kind = "stop" \/ \A f \in E : Same(f) => f.kind = "start")
  BY <1>1, <1>4
<1>6. ASSUME NEW f \in E \ {e} PROVE Earlier(e, f)
  <2>1. ~Same(f) \/ f.kind # e.kind
    BY <1>5 DEF EventShapes
  <2>2. a.ts <= f.ts /\ (f.ts = a.ts => b.device <= f.device) /\ (f.ts = a.ts /\ f.device = b.device => c.n <= f.n)
    BY <1>2, <1>3, <1>4
  <2>3. Same(f) => e.kind = "stop" /\ f.kind = "start"
    BY <1>1, <1>5, <2>1
  <2> QED BY <1>1, <1>5, <2>2, <2>3 DEF Earlier
<1> QED BY <1>6

\* usn_get_next_event: what it takes is asked for, and nothing is asked for sooner.
LEMMA NextIsFirst ==
  ASSUME UsnConstants, UsnTypes, Events # {}
  PROVE  NextEvent \in Events /\ \A f \in Events : NextEvent.ts <= f.ts
<1>1. Events \subseteq EventShapes
  BY EventsAre
<1>2. \E e \in Events : \A f \in Events \ {e} : Earlier(e, f)
  BY <1>1, OneIsFirst
<1>3. PICK e : e = NextEvent
  OBVIOUS
<1>4. e \in Events /\ \A f \in Events \ {e} : Earlier(e, f)
  BY <1>2, <1>3 DEF NextEvent
<1>5. ASSUME NEW f \in Events PROVE e.ts <= f.ts
  <2>1. e.ts \in Nat /\ f.ts \in Nat
    BY <1>1, <1>4 DEF EventShapes
  <2> QED BY <1>4, <2>1 DEF Earlier
<1> QED BY <1>3, <1>4, <1>5

\* check_actions returns when no booking ends or begins now.
LEMMA DoneIsQuiet ==
  ASSUME UsnConstants, UsnTypes
  PROVE  ~Due <=> \A d \in Devices : Quiet(d)
<1>1. now \in Nat
  BY DEF UsnTypes
<1>2. \A e \in Events : e.ts \in Nat
  BY EventsAre DEF EventShapes
<1>3. ~Due <=> \A e \in Events : e.ts > now
  <2>1. CASE Events = {}
    BY <2>1 DEF Due
  <2>2. CASE Events # {}
    BY <1>1, <1>2, <2>2, NextIsFirst DEF Due
  <2> QED BY <2>1, <2>2
<1>4. ASSUME \A e \in Events : e.ts > now, NEW d \in Devices, NEW n \in DOMAIN bookings[d]
      PROVE  bookings[d][n].until > now /\ (current[d] = 0 => bookings[d][n].from > now)
  <2>1. bookings[d][n].from \in Nat /\ bookings[d][n].until \in Nat
    BY BookingList DEF UsnTypes
  <2>2. PICK e : e = [ts |-> bookings[d][n].until, device |-> d, n |-> n, kind |-> "stop"]
    OBVIOUS
  <2>3. e \in Stops(d)
    BY <2>2 DEF Stops
  <2>4. bookings[d][n].until > now
    BY <1>4, <2>2, <2>3 DEF Events
  <2>5. ASSUME current[d] = 0 PROVE bookings[d][n].from > now
    <3>1. PICK g : g = [ts |-> bookings[d][n].from, device |-> d, n |-> n, kind |-> "start"]
      OBVIOUS
    <3>2. g \in Starts(d)
      BY <2>4, <2>5, <3>1 DEF Starts, Begins
    <3> QED BY <1>4, <3>1, <3>2 DEF Events
  <2> QED BY <2>4, <2>5
<1>5. ASSUME \A d \in Devices : Quiet(d), NEW e \in Events PROVE e.ts > now
  <2>1. /\ e.device \in Devices /\ e.n \in DOMAIN bookings[e.device]
        /\ \/ e.kind = "stop" /\ e.ts = bookings[e.device][e.n].until
           \/ /\ e.kind = "start" /\ e.ts = bookings[e.device][e.n].from
              /\ \/ bookings[e.device][e.n].from > now
                 \/ current[e.device] = 0 /\ bookings[e.device][e.n].until > now
    BY EventsAre
  <2> QED BY <1>5, <2>1 DEF Quiet
<1> QED BY <1>3, <1>4, <1>5 DEF Quiet

-----------------------------------------------------------------------------
(* The contract's steps                                                     *)

\* A step of the contract: it changes no more than the bookings an event tells of.
ChainGrows ==
  \A d \in Devices :
    /\ \A f, p : LoggedFrom(d, f, p) => LoggedFrom(d, f, p)'
    /\ \A f, u : Has(onChain[d], f, u) =>
         /\ \E v : Has(onChain[d], f, v)'
         /\ Has(onChain[d], f, u)' \/ \A p \in 0 .. Block : LoggedFrom(d, f, p)'
    /\ \A f, u : Has(onChain[d], f, u)' => Has(onChain[d], f, u) \/ \A p \in 0 .. Block : LoggedFrom(d, f, p)'

LEMMA LogGrows ==
  ASSUME UsnTypes, NEW e \in LogEntries, log' = Append(log, e)
  PROVE  /\ log' \in Seq(LogEntries) /\ Block' = Block + 1
         /\ \A k \in DOMAIN log : k \in DOMAIN log' /\ log'[k] = log[k]
         /\ \A k \in DOMAIN log' : k \in DOMAIN log \/ (k = Block /\ log'[k] = e)
         /\ \A d, f, p : LoggedFrom(d, f, p) => LoggedFrom(d, f, p)'
         /\ \A p \in 0 .. Block : LoggedFrom(e.device, e.from, p)'
<1>1. log \in Seq(LogEntries)
  BY DEF UsnTypes
<1>2. PICK k \in Nat : k = Len(log) /\ DOMAIN log = 1 .. k
  BY <1>1, LenProperties
<1>3. log' \in Seq(LogEntries) /\ Len(log') = k + 1 /\ log'[k + 1] = e /\ \A n \in 1 .. k : log'[n] = log[n]
  BY <1>1, <1>2, AppendProperties
<1>4. DOMAIN log' = 1 .. k + 1
  BY <1>3, LenProperties
<1>5. Block = k + 1 /\ Block' = k + 2
  BY <1>2, <1>3 DEF Block
<1>6. \A n : n \in 1 .. k + 1 <=> n \in 1 .. k \/ n = k + 1
  BY <1>2
<1>7. ASSUME NEW d, NEW f, NEW p, LoggedFrom(d, f, p) PROVE LoggedFrom(d, f, p)'
  BY <1>2, <1>3, <1>4, <1>6, <1>7, Zenon DEF LoggedFrom
<1>8. ASSUME NEW p \in 0 .. Block PROVE LoggedFrom(e.device, e.from, p)'
  <2>1. k + 1 \in DOMAIN log' /\ k + 1 >= p
    BY <1>4, <1>5, <1>6
  <2> QED BY <1>3, <2>1, Zenon DEF LoggedFrom
<1> QED BY <1>2, <1>3, <1>4, <1>5, <1>6, <1>7, <1>8

\* A contract that changed one booking of d and logged it
LEMMA LoggedGrows ==
  ASSUME UsnTypes, ContractInv, NEW d \in Devices, NEW f \in Nat, NEW u \in Nat, f < u,
         NEW t \in Seq(Rentals), Apart(t), Has(t, f, u), onChain' = [onChain EXCEPT ![d] = t],
         \A g, v : Has(t, g, v) => (g = f /\ v = u) \/ (g # f /\ Has(onChain[d], g, v)),
         \A g, v : Has(onChain[d], g, v) => g = f \/ Has(t, g, v),
         NEW e \in LogEntries, e.device = d, e.from = f, e.until = u, log' = Append(log, e)
  PROVE  ChainGrows /\ ContractInv'
<1>1. PICK oc : oc = onChain'
  OBVIOUS
<1>2. oc[d] = t /\ \A x \in Devices : x # d => oc[x] = onChain[x]
  BY <1>1 DEF UsnTypes
<1>3. /\ log' \in Seq(LogEntries) /\ Block' = Block + 1
      /\ \A k \in DOMAIN log : k \in DOMAIN log' /\ log'[k] = log[k]
      /\ \A k \in DOMAIN log' : k \in DOMAIN log \/ (k = Block /\ log'[k] = e)
      /\ \A x, g, p : LoggedFrom(x, g, p) => LoggedFrom(x, g, p)'
      /\ \A p \in 0 .. Block : LoggedFrom(e.device, e.from, p)'
  BY LogGrows
<1>4. \A p \in 0 .. Block : LoggedFrom(d, f, p)'
  BY <1>3
<1>5. ASSUME NEW x \in Devices, NEW g, NEW v, Has(onChain[x], g, v)
      PROVE  (\E w : Has(oc[x], g, w)) /\ (Has(oc[x], g, v) \/ (x = d /\ g = f))
  BY <1>2, <1>5, Zenon
<1>6. ASSUME NEW x \in Devices, NEW g, NEW v, Has(oc[x], g, v)
      PROVE  Has(onChain[x], g, v) \/ (x = d /\ g = f)
  BY <1>2, <1>6, Zenon
<1>7. ChainGrows
  <2>1. ASSUME NEW x \in Devices, NEW g, NEW v, Has(onChain[x], g, v)
        PROVE  (\E w : Has(oc[x], g, w)) /\ (Has(oc[x], g, v) \/ \A p \in 0 .. Block : LoggedFrom(x, g, p)')
    BY <1>4, <1>5, <2>1, Zenon
  <2>2. ASSUME NEW x \in Devices, NEW g, NEW v, Has(oc[x], g, v)
        PROVE  Has(onChain[x], g, v) \/ \A p \in 0 .. Block : LoggedFrom(x, g, p)'
    BY <1>4, <1>6, <2>2, Zenon
  <2> QED BY <1>1, <1>3, <2>1, <2>2, Zenon DEF ChainGrows
<1>8. ASSUME NEW x \in Devices PROVE Apart(oc[x]) /\ \A g, v : Has(oc[x], g, v) => g < v
  <2>1. CASE x = d
    BY <1>2, <2>1 DEF ContractInv
  <2>2. CASE x # d
    BY <1>2, <2>2 DEF ContractInv
  <2> QED BY <2>1, <2>2
<1>9. ASSUME NEW k \in DOMAIN log', NEW r, r = log'[k]
      PROVE  /\ \E v : Has(oc[r.device], r.from, v)
             /\ LoggedFrom(r.device, r.from, k + 1)' \/ Has(oc[r.device], r.from, r.until)
  <2>1. CASE r = e
    BY <1>2, <2>1
  <2>2. CASE k \in DOMAIN log /\ r = log[k]
    <3>1. k + 1 \in 0 .. Block /\ r.device \in Devices
      <4>1. PICK n \in Nat : n = Len(log) /\ DOMAIN log = 1 .. n
        BY LenProperties DEF UsnTypes
      <4>2. r \in LogEntries
        BY <2>2, <4>1, ElementOfSeq DEF UsnTypes
      <4> QED BY <2>2, <4>1, <4>2 DEF Block, LogEntries
    <3>2. /\ \E v : Has(onChain[r.device], r.from, v)
          /\ LoggedFrom(r.device, r.from, k + 1) \/ Has(onChain[r.device], r.from, r.until)
      BY <2>2 DEF ContractInv
    <3> QED BY <1>3, <1>4, <1>5, <3>1, <3>2, Zenon
  <2> QED BY <1>3, <1>9, <2>1, <2>2
<1>10. ContractInv'
  BY <1>1, <1>8, <1>9, Zenon DEF ContractInv
<1> QED BY <1>7, <1>10

\* A booking that was rented begins when no other does.
LEMMA RentGrows ==
  ASSUME UsnConstants, UsnTypes, ContractInv, NEW d \in Devices, NEW b \in Rentals, b.from < b.until, Rent(d, b)
  PROVE  ChainGrows /\ ContractInv' /\ onChain' \in [Devices -> Seq(Rentals)]
<1>1. PICK s \in Seq(Rentals) : s = onChain[d]
  BY DEF UsnTypes
<1>2. PICK t : t = Append(s, b)
  OBVIOUS
<1>3. /\ t \in Seq(Rentals)
      /\ \A g, v : Has(t, g, v) <=> Has(s, g, v) \/ (g = b.from /\ v = b.until)
      /\ Apart(s) /\ (\A g, v : Has(s, g, v) => g # b.from) => Apart(t)
  BY <1>2, HasAppended
<1>4. b.from \in Nat /\ b.until \in Nat
  BY DEF Rentals
<1>5. ASSUME NEW g, NEW v, Has(s, g, v) PROVE g # b.from
  <2>1. PICK n \in DOMAIN s : s[n].from = g /\ s[n].until = v
    BY <1>5 DEF Has
  <2>2. v <= b.from \/ b.until <= g
    BY <1>1, <2>1 DEF Rent
  <2>3. g < v /\ g \in Nat /\ v \in Nat
    BY <1>1, <1>5, HasOne DEF ContractInv
  <2> QED BY <1>4, <2>2, <2>3
<1>6. Apart(s)
  BY <1>1 DEF ContractInv
<1>7. PICK e : e = [kind |-> "rented", device |-> d, from |-> b.from, until |-> b.until, who |-> b.who]
  OBVIOUS
<1>8. e \in LogEntries /\ e.device = d /\ e.from = b.from /\ e.until = b.until
  BY <1>7 DEF LogEntries, Rentals
<1>9. log' = Append(log, e) /\ onChain' = [onChain EXCEPT ![d] = t]
  BY <1>1, <1>2, <1>7 DEF Rent, Logged
<1>10. Has(t, b.from, b.until) /\ Apart(t)
  BY <1>3, <1>5, <1>6, Zenon
<1>11. /\ \A g, v : Has(t, g, v) => (g = b.from /\ v = b.until) \/ (g # b.from /\ Has(onChain[d], g, v))
       /\ \A g, v : Has(onChain[d], g, v) => g = b.from \/ Has(t, g, v)
  BY <1>1, <1>3, <1>5, Zenon
<1>12. ChainGrows /\ ContractInv'
  BY <1>3, <1>4, <1>8, <1>9, <1>10, <1>11, LoggedGrows
<1> QED BY <1>3, <1>9, <1>12 DEF UsnTypes

\* A booking that was returned ends now, and an event says so.
LEMMA ReturnGrows ==
  ASSUME UsnConstants, UsnTypes, ContractInv, NEW d \in Devices, NEW i \in DOMAIN onChain[d], Return(d, i)
  PROVE  ChainGrows /\ ContractInv' /\ onChain' \in [Devices -> Seq(Rentals)] /\ log' \in Seq(LogEntries)
<1>1. PICK s \in Seq(Rentals) : s = onChain[d]
  BY DEF UsnTypes
<1>2. PICK t : t = [s EXCEPT ![i].until = now]
  OBVIOUS
<1>3. PICK b : b = s[i]
  OBVIOUS
<1>4. b \in Rentals /\ b.from \in Nat /\ now \in Nat
  BY <1>1, <1>3, BookingList DEF UsnTypes
<1>5. Apart(s)
  BY <1>1 DEF ContractInv
<1>6. /\ t \in Seq(Rentals) /\ Apart(t) /\ Has(t, b.from, now)
      /\ \A g, v : Has(t, g, v) => (g = b.from /\ v = now) \/ (g # b.from /\ Has(s, g, v))
      /\ \A g, v : Has(s, g, v) => g = b.from \/ Has(t, g, v)
  <2>1. i \in DOMAIN s /\ s[i].from = b.from
    BY <1>1, <1>3
  <2>2. PICK r : r = [b EXCEPT !.until = now]
    OBVIOUS
  <2>3. r \in Rentals /\ r.from = b.from /\ r.until = now
    BY <1>4, <2>2 DEF Rentals
  <2>4. t = Replaced(s, i, r)
    BY <1>2, <1>3, <2>2 DEF Replaced
  <2>5. PICK f, u : f = b.from /\ u = now
    OBVIOUS
  <2>6. s[i].from = f /\ r.from = f /\ r.until = u
    BY <2>1, <2>3, <2>5
  <2>7. /\ t \in Seq(Rentals) /\ Apart(t) /\ Has(t, f, u)
        /\ \A g, v : Has(t, g, v) => (g = f /\ v = u) \/ (g # f /\ Has(s, g, v))
        /\ \A g, v : Has(s, g, v) => g = f \/ Has(t, g, v)
    BY <1>5, <2>1, <2>3, <2>4, <2>6, HasEnded
  <2> QED BY <2>5, <2>7
<1>7. PICK e : e = [kind |-> "returned", device |-> d, from |-> b.from, until |-> now, who |-> b.who]
  OBVIOUS
<1>8. e \in LogEntries /\ e.device = d /\ e.from = b.from /\ e.until = now
  BY <1>4, <1>7 DEF LogEntries, Rentals
<1>9. b.from < now /\ log' = Append(log, e) /\ onChain' = [onChain EXCEPT ![d] = t]
  <2>1. b.from < now /\ onChain' = [onChain EXCEPT ![d] = t]
    BY <1>1, <1>2, <1>3 DEF Return
  <2>2. PICK r : r = [b EXCEPT !.until = now]
    OBVIOUS
  <2>3. r.from = b.from /\ r.until = now /\ r.who = b.who
    BY <1>4, <2>2 DEF Rentals
  <2>4. log' = Logged("returned", d, r)
    BY <1>1, <1>3, <2>2 DEF Return
  <2> QED BY <1>7, <2>1, <2>3, <2>4 DEF Logged
<1>10. ChainGrows /\ ContractInv'
  BY <1>1, <1>4, <1>6, <1>8, <1>9, LoggedGrows
<1> QED BY <1>6, <1>8, <1>9, <1>10, LogGrows DEF UsnTypes

LEMMA FollowsGrows ==
  ASSUME ChainGrows, UNCHANGED <<now, bookings, current>>, NEW d \in Devices, NEW p \in 0 .. Block, Follows(d, p)
  PROVE  Follows(d, p)'
<1>1. PICK n, s, c, bs, oc, new : n = now /\ c = current /\ bs = bookings /\ oc = onChain /\ new = onChain' /\ s = bs[d]
  OBVIOUS
<1>2. /\ \A f : LoggedFrom(d, f, p) => LoggedFrom(d, f, p)'
      /\ \A f, u : Has(oc[d], f, u) => Has(new[d], f, u) \/ LoggedFrom(d, f, p)'
      /\ \A f, u : Has(new[d], f, u) => Has(oc[d], f, u) \/ LoggedFrom(d, f, p)'
  BY <1>1, Zenon DEF ChainGrows
<1>3. /\ \A f, u : Has(s, f, u) => LoggedFrom(d, f, p) \/ Has(oc[d], f, u)
      /\ \A f, u : Has(oc[d], f, u) => u <= n \/ LoggedFrom(d, f, p) \/ Has(s, f, u)
      /\ c[d] # 0 => \E f, u : Has(s, f, u) /\ f <= n
  BY <1>1, Zenon DEF Follows
<1>4. now' = n /\ bookings' = bs /\ current' = c
  BY <1>1
<1> QED BY <1>1, <1>2, <1>3, <1>4, Zenon DEF Follows

\* Follows depends on the log, the contract's bookings of the device and what is known of them.
LEMMA FollowsStays ==
  ASSUME UsnTypes, UNCHANGED <<onChain, log>>, now' \in Nat, now <= now', NEW d \in Devices,
         bookings'[d] = bookings[d], current'[d] = current[d], NEW p, Follows(d, p)
  PROVE  Follows(d, p)'
<1>1. PICK n, m, s, c, oc : n = now /\ m = now' /\ c = current[d] /\ s = bookings[d] /\ oc = onChain[d]
  OBVIOUS
<1>2. n \in Nat /\ m \in Nat /\ n <= m /\ s \in Seq(Rentals) /\ oc \in Seq(Rentals)
  BY <1>1 DEF UsnTypes
<1>3. \A f : LoggedFrom(d, f, p)' = LoggedFrom(d, f, p)
  BY DEF LoggedFrom
<1>4. /\ \A f, u : Has(s, f, u) => LoggedFrom(d, f, p) \/ Has(oc, f, u)
      /\ \A f, u : Has(oc, f, u) => u <= n \/ LoggedFrom(d, f, p) \/ Has(s, f, u)
      /\ c # 0 => \E f, u : Has(s, f, u) /\ f <= n
  BY <1>1, Zenon DEF Follows
<1>5. \A f, u : Has(oc, f, u) /\ u <= n => u <= m
  BY <1>2, HasOne
<1>6. \A f, u : Has(s, f, u) /\ f <= n => f <= m
  BY <1>2, HasOne
<1>7. bookings'[d] = s /\ current'[d] = c /\ onChain'[d] = oc /\ now' = m
  BY <1>1
<1> QED BY <1>3, <1>4, <1>5, <1>6, <1>7, Zenon DEF Follows

LEMMA DeviceStays ==
  ASSUME UsnTypes, UNCHANGED <<onChain, log>>, now' \in Nat, now <= now', NEW d \in Devices,
         bookings'[d] = bookings[d], current'[d] = current[d], DeviceInv(d),
         \A p : checked' # 0 /\ p = Level' => Follows(d, p),
         \A p : update'.at = "load" /\ d \notin update'.left /\ p = update'.number => Follows(d, p)
  PROVE  DeviceInv(d)'
<1>1. PICK n, m, s, c, oc : n = now /\ m = now' /\ c = current[d] /\ s = bookings[d] /\ oc = onChain[d]
  OBVIOUS
<1>2. n \in Nat /\ m \in Nat /\ n <= m /\ oc \in Seq(Rentals)
  BY <1>1 DEF UsnTypes
<1>3. \A p : Follows(d, p) => Follows(d, p)'
  BY FollowsStays
<1>4. /\ Apart(s) /\ \A f, u : Has(s, f, u) => \E v : Has(oc, f, v)
      /\ c # 0 => \E f, u : Has(oc, f, u) /\ f <= n
  BY <1>1, Zenon DEF DeviceInv
<1>5. \A f, u : Has(oc, f, u) /\ f <= n => f <= m
  BY <1>2, HasOne
<1>6. bookings'[d] = s /\ current'[d] = c /\ onChain'[d] = oc /\ now' = m
  BY <1>1
<1> QED BY <1>3, <1>4, <1>5, <1>6, Zenon DEF DeviceInv

LEMMA GrantedStays ==
  ASSUME GrantedInv, granted' = granted, \A k \in DOMAIN log : k \in DOMAIN log' /\ log'[k] = log[k]
  PROVE  GrantedInv'
BY Zenon DEF GrantedInv

LEMMA QuietStays ==
  ASSUME UNCHANGED <<now, bookings, current>>, \A d \in Devices : Quiet(d)
  PROVE  \A d \in Devices : Quiet(d)'
BY DEF Quiet

\* rent and returnObject
LEMMA ChainKeeps ==
  ASSUME UsnConstants, UsnInv, NEW d \in Devices,
         \/ \E from, until \in 1 .. Horizon, who \in Users : Rent(d, Booking(from, until, who))
         \/ \E i \in DOMAIN onChain[d] : Return(d, i)
  PROVE  UsnInv'
<1> USE DEF UsnInv
<1> DEFINE Grown ==
             /\ ChainGrows /\ ContractInv' /\ onChain' \in [Devices -> Seq(Rentals)]
             /\ \E e \in LogEntries : log' = Append(log, e)
             /\ fresh' = FALSE /\ UNCHANGED <<now, bookings, current, checked, update, receipt, granted>>
<1>1. Grown
  <2>1. ASSUME NEW from \in 1 .. Horizon, NEW until \in 1 .. Horizon, NEW who \in Users,
               Rent(d, Booking(from, until, who))
        PROVE  Grown
    <3>1. PICK b : b = Booking(from, until, who)
      OBVIOUS
    <3>2. b \in Rentals /\ Rent(d, b)
      BY <2>1, <3>1 DEF Booking, Rentals, UsnConstants
    <3>3. b.from < b.until
      BY <3>2 DEF Rent
    <3>4. [kind |-> "rented", device |-> d, from |-> b.from, until |-> b.until, who |-> b.who] \in LogEntries
      BY <3>2 DEF LogEntries, Rentals
    <3> QED BY <3>2, <3>3, <3>4, RentGrows DEF Rent, Logged
  <2>2. ASSUME NEW i \in DOMAIN onChain[d], Return(d, i) PROVE Grown
    <3>1. PICK b : b = [onChain[d][i] EXCEPT !.until = now]
      OBVIOUS
    <3>2. b \in Rentals
      <4>1. onChain[d] \in Seq(Rentals) /\ now \in Nat
        BY DEF UsnTypes
      <4>2. onChain[d][i] \in Rentals
        BY <4>1, BookingList
      <4> QED BY <3>1, <4>1, <4>2 DEF Rentals
    <3>3. [kind |-> "returned", device |-> d, from |-> b.from, until |-> b.until, who |-> b.who] \in LogEntries
      BY <3>2 DEF LogEntries, Rentals
    <3> QED BY <2>2, <3>1, <3>3, ReturnGrows DEF Return, Logged
  <2> QED BY <2>1, <2>2
<1>2. PICK e \in LogEntries : log' = Append(log, e)
  BY <1>1
<1>3. /\ log' \in Seq(LogEntries) /\ Block' = Block + 1
      /\ \A k \in DOMAIN log : k \in DOMAIN log' /\ log'[k] = log[k]
  BY <1>2, LogGrows
<1>4. Block \in Nat
  BY LenProperties DEF Block, UsnTypes
<1>5. UsnTypes'
  BY <1>1, <1>3, <1>4 DEF UsnTypes
<1>6. ASSUME NEW x \in Devices PROVE DeviceInv(x)'
  <2>1. \A p \in 0 .. Block : Follows(x, p) => Follows(x, p)'
    BY <1>1, FollowsGrows
  <2>2. /\ \A f, u : Has(onChain[x], f, u) => \E v : Has(onChain[x], f, v)'
        /\ UNCHANGED <<bookings, current, now, update, checked>>
    BY <1>1 DEF ChainGrows
  <2>3. Level' = Level /\ Level \in 0 .. Block /\ update.number \in 0 .. Block
    BY <1>4, <2>2 DEF Level, UsnTypes
  <2> QED BY <2>1, <2>2, <2>3, Zenon DEF DeviceInv
<1>7. StepInv'
  BY <1>1 DEF StepInv
<1>8. GrantedInv'
  BY <1>1, <1>3, GrantedStays
<1> QED BY <1>1, <1>5, <1>6, <1>7, <1>8

\* Steps that leave what is known of the bookings: the program's calls, the clock
LEMMA KnownStays ==
  ASSUME UsnInv, UNCHANGED <<onChain, log, bookings, current, granted>>, UsnTypes', StepInv', now <= now',
         \A d \in Devices : \A p : checked' # 0 /\ p = Level' => Follows(d, p),
         \A d \in Devices : \A p : update'.at = "load" /\ d \notin update'.left /\ p = update'.number => Follows(d, p)
  PROVE  UsnInv'
<1> USE DEF UsnInv
<1>1. \A d \in Devices : DeviceInv(d)'
  BY DeviceStays DEF UsnTypes
<1>2. ContractInv'
  BY DEF ContractInv, LoggedFrom
<1>3. GrantedInv'
  BY GrantedStays
<1> QED BY <1>1, <1>2, <1>3

-----------------------------------------------------------------------------
(* usn_update_state                                                         *)

\* A booking that begins: the device is rented by one that has begun.
LEMMA BookingBegins ==
  ASSUME UsnConstants, UsnInv, Act, NextEvent.kind = "start"
  PROVE  UsnInv'
<1> USE DEF UsnInv
<1>1. PICK e : e = NextEvent
  OBVIOUS
<1>2. /\ update.at \in {"before", "after"} /\ Due /\ current' = Started(e)
      /\ UNCHANGED <<now, onChain, log, bookings, checked, update, fresh, receipt, granted>>
  BY <1>1 DEF Act
<1>3. e \in Events /\ e.ts <= now
  BY <1>1, <1>2, NextIsFirst DEF Due
<1>4. e.device \in Devices /\ e.n \in DOMAIN bookings[e.device] /\ e.ts = bookings[e.device][e.n].from
  BY <1>1, <1>3, EventsAre
<1>5. PICK d \in Devices, s \in Seq(Rentals) : d = e.device /\ s = bookings[d]
  BY <1>4 DEF UsnTypes
<1>6. PICK n \in DOMAIN s : e.ts = s[n].from
  BY <1>4, <1>5
<1>7. s[n].from \in Nat /\ s[n].until \in Nat
  BY <1>5, <1>6, BookingList
<1>8. Has(s, e.ts, s[n].until)
  BY <1>5, <1>6 DEF Has
<1>9. PICK i : i = FirstFrom(s, e.ts)
  OBVIOUS
<1>10. i \in Nat
  <2>1. i = 0 \/ i \in DOMAIN s
    BY <1>9, FromOfList
  <2> QED BY <2>1, BookingList
<1>11. current' = [current EXCEPT ![d] = i]
  BY <1>2, <1>5, <1>6, <1>9 DEF Started, SelectInSeq, FirstFrom, First
<1>12. UsnTypes'
  BY <1>2, <1>10, <1>11 DEF UsnTypes, Block
<1>13. PICK v : Has(onChain[d], e.ts, v)
  BY <1>5, <1>6, <1>8 DEF DeviceInv
<1>14. ASSUME NEW p, Follows(d, p) PROVE Follows(d, p)'
  <2>1. \A f : LoggedFrom(d, f, p)' = LoggedFrom(d, f, p)
    BY <1>2 DEF LoggedFrom
  <2>2. PICK m, bs, oc : m = now /\ bs = bookings /\ oc = onChain /\ now' = m /\ bookings' = bs /\ onChain' = oc
    BY <1>2
  <2>3. Has(bs[d], e.ts, s[n].until) /\ e.ts <= m
    BY <1>3, <1>5, <1>6, <1>8, <2>2
  <2> QED BY <1>14, <2>1, <2>2, <2>3, Zenon DEF Follows
<1>15. Level' = Level
  BY <1>2 DEF Level
<1>16. ASSUME NEW x \in Devices PROVE DeviceInv(x)'
  <2>1. CASE x = d
    <3>1. PICK m, bs, oc : m = now /\ bs = bookings /\ oc = onChain /\ now' = m /\ bookings' = bs /\ onChain' = oc
      BY <1>2
    <3>2. Has(oc[d], e.ts, v) /\ e.ts <= m
      BY <1>3, <1>13, <3>1
    <3>3. update' = update /\ checked' = checked /\ update.at # "load"
      BY <1>2
    <3>4. \A f, u : Has(bs[d], f, u) => \E w : Has(oc[d], f, w)
      BY <3>1, Zenon DEF DeviceInv
    <3> QED BY <1>14, <1>15, <2>1, <3>1, <3>2, <3>3, <3>4, Zenon DEF DeviceInv
  <2>2. CASE x # d
    <3>1. current'[x] = current[x] /\ bookings'[x] = bookings[x] /\ now <= now' /\ now' \in Nat
      <4>1. current'[x] = current[x]
        BY <1>11, <2>2 DEF UsnTypes
      <4>2. bookings'[x] = bookings[x]
        BY <1>2, <1>11, <2>2 DEF UsnTypes
      <4>3. now <= now' /\ now' \in Nat
        BY <1>2 DEF UsnTypes
      <4> QED BY <4>1, <4>2, <4>3
    <3>2. \A p : checked' # 0 /\ p = Level' => Follows(x, p)
      BY <1>2, <1>15 DEF DeviceInv
    <3>3. ~(update'.at = "load")
      BY <1>2
    <3> QED BY <1>2, <3>1, <3>2, <3>3, DeviceStays
  <2> QED BY <2>1, <2>2
<1>17. ContractInv' /\ GrantedInv'
  BY <1>2, GrantedStays DEF ContractInv, LoggedFrom
<1>18. ~fresh
  BY <1>2, DoneIsQuiet DEF StepInv
<1>19. StepInv'
  BY <1>2, <1>18 DEF StepInv
<1> QED BY <1>12, <1>16, <1>17, <1>19

\* A booking that ends is forgotten: it is over.
LEMMA BookingEnds ==
  ASSUME UsnConstants, UsnInv, Act, NextEvent.kind # "start"
  PROVE  UsnInv'
<1> USE DEF UsnInv
<1>1. PICK e : e = NextEvent
  OBVIOUS
<1>2. /\ update.at \in {"before", "after"} /\ Due /\ bookings' = Stopped(e)
      /\ current' = [current EXCEPT ![e.device] = 0]
      /\ UNCHANGED <<now, onChain, log, checked, update, fresh, receipt, granted>>
  BY <1>1 DEF Act
<1>3. e \in Events /\ e.ts <= now
  BY <1>1, <1>2, NextIsFirst DEF Due
<1>4. e.device \in Devices /\ e.n \in DOMAIN bookings[e.device] /\ e.ts = bookings[e.device][e.n].until
  BY <1>1, <1>3, EventsAre
<1>5. PICK d \in Devices, s \in Seq(Rentals) : d = e.device /\ s = bookings[d]
  BY <1>4 DEF UsnTypes
<1>6. PICK n \in DOMAIN s : e.ts = s[n].until
  BY <1>4, <1>5
<1>7. PICK i : i = FirstUntil(s, e.ts)
  OBVIOUS
<1>8. i \in DOMAIN s /\ s[i].until = e.ts
  BY <1>5, <1>6, <1>7, UntilOfList
<1>9. PICK t : t = RemoveAt(s, i)
  OBVIOUS
<1>10. /\ t \in Seq(Rentals) /\ (Apart(s) => Apart(t))
       /\ \A g, v : Has(t, g, v) => Has(s, g, v)
       /\ \A g, v : Has(s, g, v) => v = e.ts \/ Has(t, g, v)
  BY <1>8, <1>9, HasRemoved
<1>11. bookings' = [bookings EXCEPT ![d] = t] /\ current' = [current EXCEPT ![d] = 0]
  BY <1>2, <1>5, <1>6, <1>7, <1>9 DEF Stopped, SelectInSeq, FirstUntil, First
<1>12. UsnTypes'
  <2>1. bookings' \in [Devices -> Seq(Rentals)]
    BY <1>10, <1>11, Zenon DEF UsnTypes
  <2>2. current' \in [Devices -> Nat]
    BY <1>11 DEF UsnTypes
  <2> QED BY <1>2, <2>1, <2>2 DEF UsnTypes, Block
<1>13. bookings'[d] = t /\ current'[d] = 0
  BY <1>11 DEF UsnTypes
<1>14. ASSUME NEW p, Follows(d, p) PROVE Follows(d, p)'
  <2>1. \A f : LoggedFrom(d, f, p)' = LoggedFrom(d, f, p)
    BY <1>2 DEF LoggedFrom
  <2>2. PICK m, oc : m = now /\ oc = onChain /\ now' = m /\ onChain' = oc
    BY <1>2
  <2>3. \A g, v : Has(s, g, v) => v <= m \/ Has(t, g, v)
    <3>1. e.ts <= m
      BY <1>3, <2>2
    <3> QED BY <1>10, <3>1
  <2>4. /\ \A f, u : Has(s, f, u) => LoggedFrom(d, f, p) \/ Has(oc[d], f, u)
        /\ \A f, u : Has(oc[d], f, u) => u <= m \/ LoggedFrom(d, f, p) \/ Has(s, f, u)
    BY <1>5, <1>6, <1>14, <2>2, Zenon DEF Follows
  <2> QED BY <1>10, <1>13, <2>1, <2>2, <2>3, <2>4, Zenon DEF Follows
<1>15. Level' = Level
  BY <1>2 DEF Level
<1>16. ASSUME NEW x \in Devices PROVE DeviceInv(x)'
  <2>1. CASE x = d
    <3>1. PICK oc : oc = onChain /\ onChain' = oc
      BY <1>2
    <3>2. update' = update /\ checked' = checked /\ update.at # "load"
      BY <1>2
    <3>3. Apart(s) /\ \A f, u : Has(s, f, u) => \E w : Has(oc[d], f, w)
      BY <1>5, <1>6, <3>1, Zenon DEF DeviceInv
    <3> QED BY <1>10, <1>13, <1>14, <1>15, <2>1, <3>1, <3>2, <3>3, Zenon DEF DeviceInv
  <2>2. CASE x # d
    <3>1. current'[x] = current[x] /\ bookings'[x] = bookings[x] /\ now <= now' /\ now' \in Nat
      <4>1. current'[x] = current[x]
        BY <1>11, <2>2 DEF UsnTypes
      <4>2. bookings'[x] = bookings[x]
        BY <1>2, <1>11, <2>2 DEF UsnTypes
      <4>3. now <= now' /\ now' \in Nat
        BY <1>2 DEF UsnTypes
      <4> QED BY <4>1, <4>2, <4>3
    <3>2. \A p : checked' # 0 /\ p = Level' => Follows(x, p)
      BY <1>2, <1>15 DEF DeviceInv
    <3>3. ~(update'.at = "load")
      BY <1>2
    <3> QED BY <1>2, <3>1, <3>2, <3>3, DeviceStays
  <2> QED BY <2>1, <2>2
<1>17. ContractInv' /\ GrantedInv'
  BY <1>2, GrantedStays DEF ContractInv, LoggedFrom
<1>18. ~fresh
  BY <1>2, DoneIsQuiet DEF StepInv
<1>19. StepInv'
  BY <1>2, <1>18 DEF StepInv
<1> QED BY <1>12, <1>16, <1>17, <1>19

\* What a device's bookings become when those of one device change and nothing else does
LEMMA OneDeviceKeeps ==
  ASSUME UsnConstants, UsnInv, NEW d \in Devices, NEW t \in Seq(Rentals), Apart(t),
         bookings' = [bookings EXCEPT ![d] = t], UNCHANGED <<now, onChain, log, current, checked, fresh, granted>>,
         update' \in [at : Phases, number : 0 .. Block, left : SUBSET Devices, next : Nat],
         update'.next <= update'.number, StepInv',
         \A f, u : Has(t, f, u) => \E v : Has(onChain[d], f, v),
         \A p : checked' # 0 /\ p = Level' => Follows(d, p)',
         \A p : update'.at = "load" /\ d \notin update'.left /\ p = update'.number => Follows(d, p)',
         \A x \in Devices \ {d} : \A p : checked' # 0 /\ p = Level' => Follows(x, p),
         \A x \in Devices \ {d} : \A p : update'.at = "load" /\ x \notin update'.left /\ p = update'.number => Follows(x, p)
  PROVE  UsnInv'
<1> USE DEF UsnInv
<1>1. UsnTypes'
  <2>1. bookings' \in [Devices -> Seq(Rentals)]
    BY Zenon DEF UsnTypes
  <2> QED BY <2>1 DEF UsnTypes, Block
<1>2. bookings'[d] = t /\ \A x \in Devices \ {d} : bookings'[x] = bookings[x]
  BY DEF UsnTypes
<1>3. ContractInv' /\ GrantedInv'
  BY GrantedStays DEF ContractInv, LoggedFrom
<1>4. DeviceInv(d)'
  <2>1. PICK m, c, oc : m = now /\ c = current[d] /\ oc = onChain[d] /\ now' = m /\ onChain'[d] = oc /\ current'[d] = c
    BY Zenon
  <2>2. c # 0 => \E f, u : Has(oc, f, u) /\ f <= m
    BY <2>1, Zenon DEF DeviceInv
  <2>3. \A f, u : Has(t, f, u) => \E v : Has(oc, f, v)
    BY <2>1, Zenon
  <2> QED BY <1>2, <2>1, <2>2, <2>3, Zenon DEF DeviceInv
<1>5. ASSUME NEW x \in Devices \ {d} PROVE DeviceInv(x)'
  <2>1. now <= now' /\ now' \in Nat /\ DeviceInv(x) /\ UNCHANGED <<onChain, log>> /\ current'[x] = current[x]
    BY DEF UsnTypes
  <2>2. bookings'[x] = bookings[x] /\ x \in Devices
    BY <1>2
  <2>3. /\ \A p : checked' # 0 /\ p = Level' => Follows(x, p)
        /\ \A p : update'.at = "load" /\ x \notin update'.left /\ p = update'.number => Follows(x, p)
    BY Zenon
  <2> QED BY <2>1, <2>2, <2>3, DeviceStays
<1> QED BY <1>1, <1>3, <1>4, <1>5

\* The bookings of a device, as the contract has them at this moment, or as many of them as were asked for
LEMMA LoadKeeps ==
  ASSUME UsnConstants, UsnInv, Load
  PROVE  UsnInv'
<1> USE DEF UsnInv
<1>1. PICK d : d = CHOOSE x \in update.left : \A e \in update.left : x <= e
  OBVIOUS
<1>2. d \in update.left /\ d \in Devices /\ update.at = "load" /\ checked = 0 /\ ~fresh
  <2>1. update.left \subseteq Devices /\ update.left \subseteq Nat /\ update.left # {}
    BY DEF Load, UsnTypes, UsnConstants
  <2>2. \E x \in update.left : \A e \in update.left : x <= e
    BY <2>1, LeastOfNaturals
  <2>3. update.at = "load" /\ checked = 0 /\ ~fresh
    BY DEF Load, StepInv
  <2> QED BY <1>1, <2>1, <2>2, <2>3
<1>3. PICK oc \in Seq(Rentals) : oc = onChain[d]
  BY <1>2 DEF UsnTypes
<1>4. /\ \/ /\ bookings' = [bookings EXCEPT ![d] = SubSeq(oc, 1, Len(oc))]
            /\ update' = [update EXCEPT !.left = @ \ {d}]
         \/ /\ \/ bookings' = bookings
               \/ \E n \in 0 .. Len(oc) - 1 : bookings' = [bookings EXCEPT ![d] = SubSeq(oc, 1, n)]
            /\ update' = [Idle EXCEPT !.at = "after"]
      /\ UNCHANGED <<now, onChain, log, current, checked, fresh, receipt, granted>>
  BY <1>1, <1>3 DEF Load
<1>5. Len(oc) \in Nat /\ Block \in Nat
  <2>1. Len(log) \in Nat
    BY LenProperties DEF UsnTypes
  <2> QED BY <2>1, LenProperties DEF Block
<1>6. Apart(oc)
  BY <1>2, <1>3 DEF ContractInv
<1>7. CASE bookings' = [bookings EXCEPT ![d] = SubSeq(oc, 1, Len(oc))] /\ update' = [update EXCEPT !.left = @ \ {d}]
  <2>1. SubSeq(oc, 1, Len(oc)) = oc
    <3>1. Len(oc) \in 0 .. Len(oc)
      BY <1>5
    <3> QED BY <3>1, HasPrefix
  <2>2. bookings' = [bookings EXCEPT ![d] = oc]
    BY <1>7, <2>1
  <2>3. /\ update' \in [at : Phases, number : 0 .. Block, left : SUBSET Devices, next : Nat]
        /\ update'.at = "load" /\ update'.number = update.number /\ update'.left = update.left \ {d}
        /\ update'.next = update.next /\ update.next <= update.number
    BY <1>2, <1>7 DEF UsnTypes
  <2>4. StepInv'
    BY <1>2, <1>4, <2>3 DEF StepInv
  <2>5. ASSUME NEW p PROVE Follows(d, p)'
    <3>1. bookings'[d] = oc /\ onChain'[d] = oc
      BY <1>2, <1>3, <1>4, <2>2 DEF UsnTypes
    <3>2. PICK m, c : m = now /\ c = current[d] /\ now' = m /\ current'[d] = c
      BY <1>4
    <3>3. c # 0 => \E f, u : Has(oc, f, u) /\ f <= m
      BY <1>2, <1>3, <3>2, Zenon DEF DeviceInv
    <3> QED BY <3>1, <3>2, <3>3, Zenon DEF Follows
  <2>6. ASSUME NEW x \in Devices \ {d}, NEW p, x \notin update'.left, p = update'.number PROVE Follows(x, p)
    <3>1. x \notin update.left /\ p = update.number
      BY <2>3, <2>6
    <3> QED BY <1>2, <3>1 DEF DeviceInv
  <2>7. checked' = 0 /\ \A f, u : Has(oc, f, u) => \E v : Has(onChain[d], f, v)
    BY <1>2, <1>3, <1>4
  <2> QED BY <1>2, <1>4, <1>6, <2>2, <2>3, <2>4, <2>5, <2>6, <2>7, OneDeviceKeeps
<1>8. ASSUME update' = [Idle EXCEPT !.at = "after"],
             NEW t \in Seq(Rentals), bookings' = [bookings EXCEPT ![d] = t], Apart(t),
             \A f, u : Has(t, f, u) => \E v : Has(onChain[d], f, v)
      PROVE  UsnInv'
  <2>1. /\ update' \in [at : Phases, number : 0 .. Block, left : SUBSET Devices, next : Nat]
        /\ update'.at = "after" /\ update'.next <= update'.number
    BY <1>5, <1>8 DEF Idle, Phases
  <2>2. StepInv'
    BY <1>2, <1>4, <2>1 DEF StepInv
  <2>3. checked' = 0
    BY <1>2, <1>4
  <2> QED BY <1>2, <1>4, <1>8, <2>1, <2>2, <2>3, OneDeviceKeeps
<1>9. CASE bookings' = bookings /\ update' = [Idle EXCEPT !.at = "after"]
  <2>1. PICK t \in Seq(Rentals) : t = bookings[d]
    BY <1>2 DEF UsnTypes
  <2>2. bookings' = [bookings EXCEPT ![d] = t]
    BY <1>2, <1>9, <2>1 DEF UsnTypes
  <2>3. Apart(t) /\ \A f, u : Has(t, f, u) => \E v : Has(onChain[d], f, v)
    BY <1>2, <2>1, Zenon DEF DeviceInv
  <2> QED BY <1>8, <1>9, <2>2, <2>3
<1>10. ASSUME NEW n \in 0 .. Len(oc) - 1, bookings' = [bookings EXCEPT ![d] = SubSeq(oc, 1, n)],
              update' = [Idle EXCEPT !.at = "after"]
       PROVE  UsnInv'
  <2>1. PICK t : t = SubSeq(oc, 1, n)
    OBVIOUS
  <2>2. n \in 0 .. Len(oc)
    BY <1>5
  <2>3. t \in Seq(Rentals) /\ (Apart(oc) => Apart(t)) /\ \A g, v : Has(t, g, v) => Has(oc, g, v)
    BY <2>1, <2>2, HasPrefix
  <2>4. Apart(t) /\ \A f, u : Has(t, f, u) => \E v : Has(onChain[d], f, v)
    BY <1>3, <1>6, <2>3, Zenon
  <2>5. bookings' = [bookings EXCEPT ![d] = t]
    BY <1>10, <2>1
  <2> QED BY <1>8, <1>10, <2>3, <2>4, <2>5
<1> QED BY <1>4, <1>7, <1>9, <1>10

\* An event that is added tells what the contract said; what it said since is still to come.
LEMMA TakeEventKeeps ==
  ASSUME UsnConstants, UsnInv, TakeEvent
  PROVE  UsnInv'
<1> USE DEF UsnInv
<1>1. PICK q : q = update.next
  OBVIOUS
<1>2. PICK e : e = log[q]
  OBVIOUS
<1>3. PICK k \in Nat : k = Len(log) /\ DOMAIN log = 1 .. k /\ Block = k + 1
  BY LenProperties DEF UsnTypes, Block
<1>4. /\ update.at = "events" /\ q < update.number /\ q \in Nat /\ q # 0 /\ checked # 0 /\ ~fresh
      /\ update.number \in 0 .. Block
  BY <1>1 DEF TakeEvent, UsnTypes, StepInv
<1>5. q \in DOMAIN log /\ e \in LogEntries
  <2>1. q \in 1 .. k
    BY <1>3, <1>4
  <2> QED BY <1>2, <1>3, <2>1, ElementOfSeq DEF UsnTypes
<1>6. PICK d \in Devices, f \in Nat, u \in Nat : d = e.device /\ f = e.from /\ u = e.until
  BY <1>5 DEF LogEntries
<1>7. PICK s \in Seq(Rentals) : s = bookings[d]
  BY DEF UsnTypes
<1>8. PICK t : t = AddBooking(s, e)
  OBVIOUS
<1>9. Apart(s) /\ Follows(d, q)
  BY <1>1, <1>4, <1>7 DEF DeviceInv, Level
<1>10. /\ t \in Seq(Rentals) /\ Apart(t) /\ Has(t, f, u)
       /\ \A g, v : Has(t, g, v) => (g = f /\ v = u) \/ (g # f /\ Has(s, g, v))
       /\ \A g, v : Has(s, g, v) => g = f \/ Has(t, g, v)
  BY <1>5, <1>6, <1>8, <1>9, HasAdded
<1>11. /\ bookings' = [bookings EXCEPT ![d] = t]
       /\ update' = [update EXCEPT !.next = q + 1]
       /\ UNCHANGED <<now, onChain, log, current, checked, fresh, receipt, granted>>
  BY <1>1, <1>2, <1>6, <1>7, <1>8 DEF TakeEvent
<1>12. /\ update' \in [at : Phases, number : 0 .. Block, left : SUBSET Devices, next : Nat]
       /\ update'.at = "events" /\ update'.next = q + 1 /\ update'.next <= update'.number
  <2>1. update \in [at : Phases, number : 0 .. Block, left : SUBSET Devices, next : Nat]
    BY DEF UsnTypes
  <2>2. q + 1 \in Nat /\ q + 1 <= update.number
    BY <1>3, <1>4
  <2>3. /\ update'.at = update.at /\ update'.number = update.number /\ update'.next = q + 1
        /\ update' \in [at : Phases, number : 0 .. Block, left : SUBSET Devices, next : Nat]
    BY <1>11, <2>1, <2>2
  <2> QED BY <1>4, <2>2, <2>3
<1>13. StepInv'
  BY <1>4, <1>11, <1>12 DEF StepInv
<1>14. /\ \E v : Has(onChain[d], f, v)
       /\ LoggedFrom(d, f, q + 1) \/ Has(onChain[d], f, u)
  BY <1>2, <1>5, <1>6 DEF ContractInv
<1>15. \A x, g : LoggedFrom(x, g, q) => LoggedFrom(x, g, q + 1) \/ (x = d /\ g = f)
  <2>1. ASSUME NEW x, NEW g, NEW n \in DOMAIN log, n >= q, log[n].device = x, log[n].from = g
        PROVE  LoggedFrom(x, g, q + 1) \/ (x = d /\ g = f)
    <3>1. CASE n = q
      BY <1>2, <1>6, <2>1, <3>1
    <3>2. CASE n # q
      <4>1. n >= q + 1
        BY <1>3, <1>4, <2>1, <3>2
      <4> QED BY <2>1, <4>1 DEF LoggedFrom
    <3> QED BY <3>1, <3>2
  <2> QED BY <2>1 DEF LoggedFrom
<1>16. \A v : Has(onChain[d], f, v) /\ Has(onChain[d], f, u) => v = u
  <2>1. onChain[d] \in Seq(Rentals) /\ Apart(onChain[d])
    BY DEF UsnTypes, ContractInv
  <2> QED BY <2>1, HasOne
<1>17. Follows(d, q + 1)'
  <2>1. PICK m, c, oc : /\ m = now /\ c = current[d] /\ oc = onChain[d]
                        /\ now' = m /\ onChain'[d] = oc /\ current'[d] = c /\ bookings'[d] = t
    <3>1. bookings'[d] = t
      BY <1>11 DEF UsnTypes
    <3> QED BY <1>11, <3>1
  <2>2. /\ \A g, v : Has(s, g, v) => LoggedFrom(d, g, q) \/ Has(oc, g, v)
        /\ \A g, v : Has(oc, g, v) => v <= m \/ LoggedFrom(d, g, q) \/ Has(s, g, v)
        /\ c # 0 => \E g, v : Has(s, g, v) /\ g <= m
    BY <1>7, <1>9, <2>1, Zenon DEF Follows
  <2>3. \A g : LoggedFrom(d, g, q + 1)' = LoggedFrom(d, g, q + 1)
    BY <1>11 DEF LoggedFrom
  <2>4. LoggedFrom(d, f, q + 1) \/ Has(oc, f, u)
    BY <1>14, <2>1
  <2>5. \A g, v : Has(t, g, v) => LoggedFrom(d, g, q + 1) \/ Has(oc, g, v)
    BY <1>10, <1>15, <2>2, <2>4, Zenon
  <2>6. ASSUME NEW g, NEW v, Has(oc, g, v) PROVE v <= m \/ LoggedFrom(d, g, q + 1) \/ Has(t, g, v)
    <3>1. CASE g # f
      BY <1>10, <1>15, <2>2, <2>6, <3>1, Zenon
    <3>2. CASE g = f
      BY <1>10, <1>16, <2>1, <2>4, <2>6, <3>2, Zenon
    <3> QED BY <3>1, <3>2
  <2>7. c # 0 => \E g, v : Has(t, g, v) /\ g <= m
    BY <1>10, <2>2, Zenon
  <2> QED BY <2>1, <2>3, <2>5, <2>6, <2>7, Zenon DEF Follows
<1>18. ASSUME NEW x \in Devices \ {d} PROVE Follows(x, q + 1)
  <2>1. Follows(x, q)
    BY <1>1, <1>4 DEF DeviceInv, Level
  <2>2. \A g : LoggedFrom(x, g, q) => LoggedFrom(x, g, q + 1)
    BY <1>15
  <2> QED BY <2>1, <2>2, Zenon DEF Follows
<1>19. Level' = q + 1
  BY <1>12 DEF Level
<1>20. \A g, v : Has(t, g, v) => \E z : Has(onChain[d], g, z)
  BY <1>7, <1>10, <1>14, Zenon DEF DeviceInv
<1>21. /\ \A p : checked' # 0 /\ p = Level' => Follows(d, p)'
       /\ \A x \in Devices \ {d} : \A p : checked' # 0 /\ p = Level' => Follows(x, p)
       /\ \A p : update'.at = "load" /\ d \notin update'.left /\ p = update'.number => Follows(d, p)'
       /\ \A x \in Devices \ {d} : \A p : update'.at = "load" /\ x \notin update'.left /\ p = update'.number => Follows(x, p)
  BY <1>12, <1>17, <1>18, <1>19
<1> QED BY <1>10, <1>11, <1>12, <1>13, <1>20, <1>21, OneDeviceKeeps

\* The calls of usn_update_state: what is asked for next, and where the program is then
LEMMA CallKeeps ==
  ASSUME UsnConstants, UsnInv, Update \/ BlockNumber \/ Logs \/ Checked \/ Updated
  PROVE  UsnInv'
<1> USE DEF UsnInv
<1> DEFINE Records == [at : Phases, number : 0 .. Block, left : SUBSET Devices, next : Nat]
<1>1. Block \in Nat /\ checked \in 0 .. Block /\ update \in Records /\ update.next <= update.number /\ now \in Nat
  <2>1. Len(log) \in Nat
    BY LenProperties DEF UsnTypes
  <2> QED BY <2>1 DEF Block, UsnTypes
<1>2. /\ UNCHANGED <<onChain, log, bookings, current, granted, now>>
      /\ Block' = Block /\ \A x \in Devices : Quiet(x) => Quiet(x)'
  BY DEF Update, BlockNumber, UpdateFailed, Logs, Checked, Updated, Block, Quiet
<1>3. ASSUME update' \in Records, update'.next <= update'.number, checked' \in 0 .. Block, StepInv',
             \A d \in Devices : \A p : checked' # 0 /\ p = Level' => Follows(d, p), update'.at # "load" \/ update'.left = Devices
      PROVE  UsnInv'
  <2>1. UsnTypes'
    BY <1>2, <1>3 DEF UsnTypes
  <2>2. now <= now'
    BY <1>1, <1>2
  <2>3. \A d \in Devices : \A p : update'.at = "load" /\ d \notin update'.left /\ p = update'.number => Follows(d, p)
    BY <1>3
  <2> QED BY <1>2, <1>3, <2>1, <2>2, <2>3, KnownStays
<1>4. ASSUME NEW d \in Devices, NEW p, checked # 0, p = Level PROVE Follows(d, p)
  BY <1>4 DEF DeviceInv
<1>5. CASE Update
  <2>1. update' = [Idle EXCEPT !.at = "before"] /\ UNCHANGED <<checked, fresh>> /\ update.at = "idle"
    BY <1>5 DEF Update, Idle
  <2>2. update' \in Records /\ update'.at = "before" /\ update'.next <= update'.number
    BY <1>1, <2>1 DEF Idle, Phases
  <2>3. StepInv'
    BY <1>2, <2>1, <2>2 DEF StepInv
  <2>4. Level' = Level
    BY <2>1, <2>2 DEF Level
  <2> QED BY <1>1, <1>3, <1>4, <2>1, <2>2, <2>3, <2>4
<1>6. ASSUME UpdateFailed, update.at \in {"before", "logs"} PROVE UsnInv'
  <2>1. update' = [Idle EXCEPT !.at = "after"] /\ UNCHANGED <<checked, fresh>>
    BY <1>6 DEF UpdateFailed
  <2>2. update' \in Records /\ update'.at = "after" /\ update'.next <= update'.number
    BY <1>1, <2>1 DEF Idle, Phases
  <2>3. StepInv'
    BY <1>2, <2>1, <2>2 DEF StepInv
  <2>4. Level' = Level
    BY <1>6, <2>1, <2>2 DEF Level
  <2> QED BY <1>1, <1>3, <1>4, <2>1, <2>2, <2>3, <2>4
<1>7. ASSUME BlockNumber, ~UpdateFailed PROVE UsnInv'
  <2>1. /\ update.at = "before" /\ UNCHANGED <<checked, fresh>>
        /\ update' = [at |-> IF checked = Block THEN "after" ELSE IF checked = 0 THEN "load" ELSE "logs",
                      number |-> Block, left |-> IF checked = 0 THEN Devices ELSE {}, next |-> checked]
    BY <1>7 DEF BlockNumber
  <2>2. /\ update' \in Records /\ update'.at \in {"after", "load", "logs"} /\ update'.next = checked /\ update'.number = Block
        /\ update'.next <= update'.number
        /\ update'.at = "load" => checked = 0 /\ update'.left = Devices
        /\ update'.at = "logs" => checked # 0
        /\ checked = Block => update'.at = "after"
    BY <1>1, <2>1 DEF Phases
  <2>3. Block # 0
    BY LenProperties DEF Block, UsnTypes
  <2>4. StepInv'
    BY <1>2, <2>1, <2>2, <2>3 DEF StepInv
  <2>5. Level' = Level
    BY <2>1, <2>2 DEF Level
  <2> QED BY <1>1, <1>3, <1>4, <2>1, <2>2, <2>4, <2>5
<1>8. ASSUME Logs, ~UpdateFailed PROVE UsnInv'
  <2>1. update.at = "logs" /\ update' = [update EXCEPT !.at = "events"] /\ UNCHANGED <<checked, fresh>>
    BY <1>8 DEF Logs
  <2>2. /\ update' \in Records /\ update'.at = "events" /\ update'.next = update.next
        /\ update'.next <= update'.number
    BY <1>1, <2>1 DEF Phases
  <2>3. checked # 0 /\ update.next = checked /\ ~fresh
    BY <2>1 DEF StepInv
  <2>4. StepInv'
    BY <2>1, <2>2, <2>3 DEF StepInv
  <2>5. Level' = Level
    BY <2>1, <2>2, <2>3 DEF Level
  <2> QED BY <1>1, <1>3, <1>4, <2>1, <2>2, <2>4, <2>5
<1>9. CASE Checked
  <2>1. /\ \/ update.at = "load" /\ update.left = {}
           \/ update.at = "events" /\ update.next = update.number
        /\ checked' = update.number /\ update' = [update EXCEPT !.at = "after"]
        /\ UNCHANGED fresh
    BY <1>9 DEF Checked
  <2>2. /\ update' \in Records /\ update'.at = "after" /\ update'.next <= update'.number
        /\ checked' \in 0 .. Block
    BY <1>1, <2>1 DEF Phases
  <2>3. ~fresh
    BY <2>1 DEF StepInv
  <2>4. StepInv'
    BY <2>1, <2>2, <2>3 DEF StepInv
  <2>5. ASSUME NEW d \in Devices, NEW p, p = Level' PROVE Follows(d, p)
    <3>1. p = update.number
      BY <2>1, <2>2, <2>5 DEF Level
    <3>2. CASE update.at = "load" /\ update.left = {}
      BY <3>1, <3>2 DEF DeviceInv
    <3>3. CASE update.at = "events" /\ update.next = update.number
      <4>1. checked # 0 /\ p = Level
        BY <3>1, <3>3 DEF StepInv, Level
      <4> QED BY <1>4, <4>1
    <3> QED BY <2>1, <3>2, <3>3
  <2> QED BY <1>3, <2>1, <2>2, <2>4, <2>5
<1>10. CASE Updated
  <2>1. update.at = "after" /\ ~Due /\ update' = Idle /\ fresh' = (checked = Block) /\ checked' = checked
    BY <1>10 DEF Updated
  <2>2. update' \in Records /\ update'.at = "idle" /\ update'.next <= update'.number
    BY <1>1, <2>1 DEF Idle, Phases
  <2>3. \A x \in Devices : Quiet(x)'
    BY <1>2, <2>1, DoneIsQuiet
  <2>4. StepInv'
    BY <1>2, <2>1, <2>2, <2>3 DEF StepInv
  <2>5. Level' = Level
    BY <2>1, <2>2 DEF Level
  <2> QED BY <1>1, <1>3, <1>4, <2>1, <2>2, <2>4, <2>5
<1> QED BY <1>5, <1>6, <1>7, <1>8, <1>9, <1>10 DEF BlockNumber, Logs

LEMMA TickKeeps ==
  ASSUME UsnConstants, UsnInv, Tick
  PROVE  UsnInv'
<1> USE DEF UsnInv
<1>1. /\ UNCHANGED <<onChain, log, bookings, current, checked, update, granted>>
      /\ now' = now + 1 /\ now < Horizon /\ fresh' = FALSE /\ update.at = "idle"
  BY DEF Tick, Idle
<1>2. now' \in 1 .. Horizon /\ now <= now'
  BY <1>1 DEF UsnTypes, UsnConstants
<1>3. UsnTypes' /\ StepInv' /\ Level' = Level
  BY <1>1, <1>2 DEF UsnTypes, StepInv, Block, Level
<1>4. \A d \in Devices : \A p : checked # 0 /\ p = Level => Follows(d, p)
  BY DEF DeviceInv
<1> QED BY <1>1, <1>2, <1>3, <1>4, KnownStays

\* usn_verify_message
LEMMA VerifyKeeps ==
  ASSUME UsnConstants, UsnInv, NEW d \in Devices, NEW who \in Users,
         VerifyAccess(d, who) \/ \E k \in DOMAIN log : VerifyBooked(d, who, k)
  PROVE  UsnInv'
<1> USE DEF UsnInv
<1>1. UNCHANGED <<now, onChain, log, bookings, current, checked, update, fresh>>
  BY DEF VerifyAccess, VerifyBooked
<1>2. UsnTypes' /\ StepInv' /\ ContractInv'
  BY <1>1 DEF UsnTypes, StepInv, ContractInv, Block, LoggedFrom, Quiet
<1>3. \A x \in Devices : DeviceInv(x)'
  <2>1. ASSUME NEW x, NEW p, Follows(x, p) PROVE Follows(x, p)'
    BY <1>1, <2>1 DEF Follows, LoggedFrom
  <2>2. Level' = Level
    BY <1>1 DEF Level
  <2> QED BY <1>1, <2>1, <2>2 DEF DeviceInv
<1>4. GrantedInv'
  <2>1. CASE VerifyAccess(d, who)
    <3>1. granted'.event = 0
      BY <2>1 DEF VerifyAccess
    <3> QED BY <3>1 DEF GrantedInv
  <2>2. ASSUME NEW k \in DOMAIN log, VerifyBooked(d, who, k) PROVE GrantedInv'
    <3>1. granted' = IF InTime(log[k], k, who) THEN [device |-> d, who |-> who, event |-> k, at |-> now] ELSE granted
      BY <2>2 DEF VerifyBooked
    <3>2. CASE InTime(log[k], k, who)
      <4>1. granted'.event = k /\ granted'.who = who /\ granted'.at = now
        BY <3>1, <3>2
      <4> QED BY <1>1, <3>2, <4>1 DEF GrantedInv, InTime
    <3>3. CASE ~InTime(log[k], k, who)
      BY <1>1, <3>1, <3>3, GrantedStays
    <3> QED BY <3>2, <3>3
  <2> QED BY <2>1, <2>2
<1> QED BY <1>2, <1>3, <1>4

LEMMA UsnStarts == UsnConstants /\ UsnInit => UsnInv
<1> SUFFICES ASSUME UsnConstants, UsnInit PROVE UsnInv
  OBVIOUS
<1>1. /\ now = 1 /\ log = <<>> /\ checked = 0 /\ fresh = FALSE /\ granted = None
      /\ update = [at |-> "idle", number |-> 0, left |-> {}, next |-> 0]
      /\ onChain = [d \in Devices |-> <<>>] /\ bookings = onChain /\ current = [d \in Devices |-> 0]
  BY DEF UsnInit, Idle
<1>2. <<>> \in Seq(Rentals) /\ <<>> \in Seq(LogEntries) /\ Len(log) = 0 /\ DOMAIN log = {}
  BY <1>1
<1>3. UsnTypes
  BY <1>1, <1>2 DEF UsnTypes, UsnConstants, Phases, Block
<1>4. \A d \in Devices : onChain[d] = <<>> /\ bookings[d] = <<>> /\ current[d] = 0
  BY <1>1
<1>5. \A f, u : ~Has(<<>>, f, u)
  BY DEF Has
<1>6. Apart(<<>>)
  BY DEF Apart
<1>7. ContractInv /\ \A d \in Devices : DeviceInv(d)
  BY <1>1, <1>2, <1>4, <1>5, <1>6 DEF ContractInv, DeviceInv
<1>8. StepInv /\ GrantedInv
  BY <1>1 DEF StepInv, GrantedInv
<1> QED BY <1>3, <1>7, <1>8 DEF UsnInv

LEMMA UsnKeeps == UsnConstants /\ UsnInv /\ [UsnNext]_usnVars => UsnInv'
<1> SUFFICES ASSUME UsnConstants, UsnInv, [UsnNext]_usnVars PROVE UsnInv'
  OBVIOUS
<1>1. CASE UNCHANGED usnVars
  BY <1>1 DEF usnVars, UsnInv, UsnTypes, ContractInv, DeviceInv, StepInv, GrantedInv, Block, LoggedFrom, Follows, Level, Quiet
<1>2. CASE Act
  BY <1>2, BookingBegins, BookingEnds
<1>3. CASE Load
  BY <1>3, LoadKeeps
<1>4. CASE TakeEvent
  BY <1>4, TakeEventKeeps
<1>5. CASE Update \/ BlockNumber \/ Logs \/ Checked \/ Updated
  BY <1>5, CallKeeps
<1>6. CASE Tick
  BY <1>6, TickKeeps
<1>7. ASSUME NEW d \in Devices,
             \/ \E from, until \in 1 .. Horizon, who \in Users : Rent(d, Booking(from, until, who))
             \/ \E i \in DOMAIN onChain[d] : Return(d, i)
             \/ \E who \in Users : VerifyAccess(d, who) \/ \E k \in DOMAIN log : VerifyBooked(d, who, k)
      PROVE  UsnInv'
  BY <1>7, ChainKeeps, VerifyKeeps
<1> QED BY <1>1, <1>2, <1>3, <1>4, <1>5, <1>6, <1>7 DEF UsnNext, UpdateStep

\* After a complete update nothing is left to tell, and every booking that is known goes on.
LEMMA FreshFollows ==
  ASSUME UsnConstants, UsnInv
  PROVE  RentedAsBooked
<1> USE DEF UsnInv
<1> SUFFICES ASSUME fresh, NEW d \in Devices
             PROVE  /\ current[d] # 0 <=> \E i \in DOMAIN onChain[d] : Covers(onChain[d][i], now)
                    /\ {<<b.from, b.until>> : b \in {c \in Range(onChain[d]) : c.until > now}}
                         = {<<b.from, b.until>> : b \in Range(bookings[d])}
  BY DEF RentedAsBooked
<1>1. checked = Block /\ update.at # "events" /\ Quiet(d)
  BY DEF StepInv
<1>2. PICK k \in Nat : k = Len(log) /\ DOMAIN log = 1 .. k /\ Block = k + 1
  BY LenProperties DEF UsnTypes, Block
<1>3. Follows(d, Block)
  BY <1>1, <1>2 DEF DeviceInv, Level
<1>4. \A f : ~LoggedFrom(d, f, Block)
  BY <1>2 DEF LoggedFrom
<1>5. PICK m \in Nat, s \in Seq(Rentals), oc \in Seq(Rentals) : m = now /\ s = bookings[d] /\ oc = onChain[d]
  BY DEF UsnTypes
<1>6. \A f, u : Has(s, f, u) => u > m /\ (current[d] = 0 => f > m)
  BY <1>1, <1>5 DEF Has, Quiet
<1>7. \A f, u : Has(s, f, u) <=> Has(oc, f, u) /\ u > m
  <2>1. \A f, u : Has(oc, f, u) => u \in Nat
    BY HasOne
  <2>2. /\ \A f, u : Has(s, f, u) => Has(oc, f, u)
        /\ \A f, u : Has(oc, f, u) => u <= m \/ Has(s, f, u)
    BY <1>3, <1>4, <1>5, Zenon DEF Follows
  <2>3. \A f, u : Has(oc, f, u) /\ u > m => ~(u <= m)
    BY <2>1
  <2> QED BY <1>6, <2>2, <2>3, Zenon
<1>8. (\E i \in DOMAIN oc : Covers(oc[i], m)) <=> \E f, u : Has(oc, f, u) /\ f <= m /\ m < u
  BY DEF Has, Covers
<1>9. current[d] # 0 <=> \E f, u : Has(oc, f, u) /\ f <= m /\ m < u
  <2>1. ASSUME current[d] # 0 PROVE \E f, u : Has(oc, f, u) /\ f <= m /\ m < u
    <3>1. PICK f, u : Has(s, f, u) /\ f <= m
      BY <1>3, <1>5, <2>1 DEF Follows
    <3> QED BY <1>7, <3>1
  <2>2. ASSUME NEW f, NEW u, Has(oc, f, u), f <= m, m < u PROVE current[d] # 0
    <3>1. Has(s, f, u) /\ f \in Nat
      BY <1>7, <2>2, HasOne
    <3> QED BY <1>6, <2>2, <3>1
  <2> QED BY <2>1, <2>2
<1>10. \A t \in Seq(Rentals) : \A x : x \in Range(t) <=> \E n \in DOMAIN t : x = t[n]
  BY DEF Range
<1>11. {<<b.from, b.until>> : b \in {c \in Range(oc) : c.until > m}} = {<<b.from, b.until>> : b \in Range(s)}
  <2>1. ASSUME NEW b \in Range(oc), b.until > m PROVE \E c \in Range(s) : b.from = c.from /\ b.until = c.until
    <3>1. Has(s, b.from, b.until)
      <4>1. PICK n \in DOMAIN oc : b = oc[n]
        BY <1>10, <2>1
      <4>2. Has(oc, b.from, b.until)
        BY <4>1 DEF Has
      <4> QED BY <1>7, <2>1, <4>2
    <3> QED BY <1>10, <3>1 DEF Has
  <2>2. ASSUME NEW b \in Range(s) PROVE \E c \in Range(oc) : c.until > m /\ b.from = c.from /\ b.until = c.until
    <3>1. Has(s, b.from, b.until)
      BY <1>10 DEF Has
    <3>2. b.until > m /\ \E n \in DOMAIN oc : oc[n].from = b.from /\ oc[n].until = b.until
      BY <1>7, <3>1 DEF Has
    <3>3. PICK n \in DOMAIN oc : oc[n].from = b.from /\ oc[n].until = b.until
      BY <3>2
    <3>4. oc[n] \in Range(oc)
      BY <1>10
    <3> QED BY <3>2, <3>3, <3>4
  <2> QED BY <2>1, <2>2
<1> QED BY <1>5, <1>8, <1>9, <1>11

\* For any number of devices, users, bookings and times: after a complete usn_update_state a
\* device is rented exactly while the contract says so, with every booking to come known, and a
\* message that names a booking is accepted from who made it while it lasts (check_actions,
\* usn_update_bookings, usn_verify_message).
THEOREM DevicesAreRentedAsBooked == UsnConstants => (UsnSpec => []DevicesFollowContract)
<1> SUFFICES ASSUME UsnConstants PROVE UsnSpec => []DevicesFollowContract
  OBVIOUS
<1>1. UsnInit => UsnInv
  BY UsnStarts
<1>2. UsnInv /\ [UsnNext]_usnVars => UsnInv'
  BY UsnKeeps
<1>3. UsnInv => DevicesFollowContract
  <2> SUFFICES ASSUME UsnInv PROVE DevicesFollowContract
    OBVIOUS
  <2>1. RentedAsBooked
    BY FreshFollows
  <2>2. UsnTypeOK
    BY DEF UsnInv, UsnTypes, UsnTypeOK, Phases
  <2>3. AcceptedIsBooked
    BY DEF UsnInv, GrantedInv, AcceptedIsBooked
  <2> QED BY <2>1, <2>2, <2>3 DEF DevicesFollowContract
<1> QED BY <1>1, <1>2, <1>3, PTL DEF UsnSpec

-----------------------------------------------------------------------------
(* In3Config: the shape of a client and of what in3_configure reads.        *)

NodeRecords == [address : Addresses, url : NodeUrls, index : Nat]
WeightRecords == [of : Addresses, blacklisted : BOOLEAN]
WhiteLists == [contract : Contracts \union {None}, list : Seq(Addresses), update : BOOLEAN]
ChainRecords ==
  [id : ChainIds, contract : Contracts, nodes : Seq(NodeRecords), weights : Seq(WeightRecords),
   wl : WhiteLists \union {None}, updates : BOOLEAN, hashes : Seq(Int) \union {None}]
ClientRecords ==
  [chain : ChainIds, chains : Seq(ChainRecords), max : Nat, signatures : Nat, depth : Nat,
   proof : BOOLEAN, limits : [DOMAIN LimitSizes -> Nat]]

\* Each node is there once, and its weight stands where it stands.
Matched(ch) ==
  /\ Len(ch.weights) = Len(ch.nodes)
  /\ \A k, m \in DOMAIN ch.nodes : ch.nodes[k].address = ch.nodes[m].address => k = m
  /\ \A k \in DOMAIN ch.nodes : ch.weights[k].of = ch.nodes[k].address

Sound(c) ==
  /\ \A i, j \in DOMAIN c.chains : c.chains[i].id = c.chains[j].id => i = j
  /\ \A i \in DOMAIN c.chains : Matched(c.chains[i])
  /\ \A l \in DOMAIN LimitSizes : c.limits[l] < LimitSizes[l]

PropertyItems == [opt : {"property"}, chain : Nat, props : Seq(ChainProperties), k : Nat]
NodeItems == [opt : {"node"}, chain : Nat, n : Nat, entry : [address : Addresses, url : NodeUrls \union {None}]]
Items == Options \union PropertyItems \union NodeItems

\* An item that is about a chain names one that is in the table.
Placed(c, o) ==
  /\ o \in PropertyItems => o.chain \in DOMAIN c.chains /\ o.k \in DOMAIN o.props
  /\ o \in NodeItems => o.chain \in DOMAIN c.chains

\* The chain of each white list given by hand has that list, and no contract to fetch one from.
HandsHold(c, hands) ==
  \A id \in DOMAIN hands :
    \E i \in DOMAIN c.chains : /\ c.chains[i].id = id /\ c.chains[i].wl \in WhiteLists
                               /\ c.chains[i].wl.contract = None /\ c.chains[i].wl.list = hands[id]

ConfigInv ==
  /\ client \in ClientRecords /\ Sound(client)
  /\ configured \in {"done", "refused", UnderWay, Wild}
  /\ todo \in Seq(Items) /\ \A n \in DOMAIN todo : Placed(client, todo[n])
  /\ HandsHold(client, byHand)
  /\ ConfiguredIsUsable

\* The chains of c are in d at their places.
Keeps(c, d) ==
  /\ Len(c.chains) <= Len(d.chains)
  /\ \A i \in DOMAIN c.chains : d.chains[i].id = c.chains[i].id

\* Their white lists are too, but for that of the chain at place k.
KeepsLists(c, d, k) == \A i \in DOMAIN c.chains : i # k => d.chains[i].wl = c.chains[i].wl

-----------------------------------------------------------------------------
(* Looking things up.                                                      *)

\* The least place of a set of places is one of them.
LEMMA LeastIsOne ==
  ASSUME NEW n \in Nat, NEW S, S \subseteq 1 .. n, S # {}
  PROVE  Min(S) \in S
<1>1. S \subseteq Nat
  OBVIOUS
<1>2. \E x \in S : \A y \in S : x <= y
  BY <1>1, LeastOfNaturals
<1> QED BY <1>2 DEF Min

\* in3_find_chain finds a chain that is there.
LEMMA FindChainFinds ==
  ASSUME NEW c \in ClientRecords, NEW id
  PROVE  /\ FindChain(c, id) \in 0 .. Len(c.chains)
         /\ FindChain(c, id) # 0 => FindChain(c, id) \in DOMAIN c.chains /\ c.chains[FindChain(c, id)].id = id
         /\ FindChain(c, id) = 0 => \A i \in DOMAIN c.chains : c.chains[i].id # id
<1> DEFINE S == {i \in 1 .. Len(c.chains) : c.chains[i].id = id}
<1>1. c.chains \in Seq(ChainRecords)
  BY DEF ClientRecords
<1>2. Len(c.chains) \in Nat /\ DOMAIN c.chains = 1 .. Len(c.chains)
  BY <1>1, LenProperties
<1>3. FindChain(c, id) = IF S # {} THEN Min(S) ELSE 0
  BY DEF FindChain, SelectInSeq
<1>4. S \subseteq 1 .. Len(c.chains)
  OBVIOUS
<1> HIDE DEF S
<1>5. S # {} => Min(S) \in S /\ Min(S) \in 1 .. Len(c.chains)
  BY <1>2, <1>4, LeastIsOne
<1>6. CASE S # {}
  <2>1. c.chains[Min(S)].id = id
    BY <1>5, <1>6 DEF S
  <2>2. Min(S) # 0 /\ Min(S) \in 0 .. Len(c.chains)
    BY <1>2, <1>5, <1>6
  <2> QED BY <1>2, <1>3, <1>5, <1>6, <2>1, <2>2
<1>7. CASE S = {}
  <2>1. \A i \in DOMAIN c.chains : c.chains[i].id # id
    BY <1>2, <1>7 DEF S
  <2> QED BY <1>2, <1>3, <1>7, <2>1
<1> QED BY <1>6, <1>7

\* So does the search for a node of a chain.
LEMMA FindNodeFinds ==
  ASSUME NEW ch \in ChainRecords, NEW address
  PROVE  /\ FindNode(ch, address) # 0 => FindNode(ch, address) \in DOMAIN ch.nodes
                                         /\ ch.nodes[FindNode(ch, address)].address = address
         /\ FindNode(ch, address) = 0 => \A k \in DOMAIN ch.nodes : ch.nodes[k].address # address
<1> DEFINE S == {k \in 1 .. Len(ch.nodes) : ch.nodes[k].address = address}
<1>1. ch.nodes \in Seq(NodeRecords)
  BY DEF ChainRecords
<1>2. Len(ch.nodes) \in Nat /\ DOMAIN ch.nodes = 1 .. Len(ch.nodes)
  BY <1>1, LenProperties
<1>3. FindNode(ch, address) = IF S # {} THEN Min(S) ELSE 0
  BY DEF FindNode, SelectInSeq
<1>4. S \subseteq 1 .. Len(ch.nodes)
  OBVIOUS
<1> HIDE DEF S
<1>5. S # {} => Min(S) \in S /\ Min(S) \in 1 .. Len(ch.nodes)
  BY <1>2, <1>4, LeastIsOne
<1>6. CASE S # {}
  <2>1. ch.nodes[Min(S)].address = address
    BY <1>5, <1>6 DEF S
  <2>2. Min(S) # 0
    BY <1>2, <1>5, <1>6
  <2> QED BY <1>2, <1>3, <1>5, <1>6, <2>1, <2>2
<1>7. CASE S = {}
  <2>1. \A k \in DOMAIN ch.nodes : ch.nodes[k].address # address
    BY <1>2, <1>7 DEF S
  <2> QED BY <1>2, <1>3, <1>7, <2>1
<1> QED BY <1>6, <1>7

-----------------------------------------------------------------------------
(* Changing one chain of a client.                                         *)

\* A chain put in the place of one with the same id leaves the client as sound as it was.
LEMMA ChainReplaced ==
  ASSUME NEW c \in ClientRecords, Sound(c), NEW i \in DOMAIN c.chains,
         NEW ch \in ChainRecords, Matched(ch), ch.id = c.chains[i].id,
         NEW d, d = [c EXCEPT !.chains[i] = ch]
  PROVE  /\ d \in ClientRecords /\ Sound(d) /\ Keeps(c, d) /\ KeepsLists(c, d, i)
         /\ Len(d.chains) = Len(c.chains) /\ DOMAIN d.chains = DOMAIN c.chains /\ d.chains[i] = ch
         /\ d.chain = c.chain /\ d.signatures = c.signatures /\ d.depth = c.depth
<1>1. c.chains \in Seq(ChainRecords) /\ DOMAIN c.chains = 1 .. Len(c.chains) /\ Len(c.chains) \in Nat
  BY LenProperties DEF ClientRecords
<1>2. d.chains = [c.chains EXCEPT ![i] = ch]
  BY DEF ClientRecords
<1>3. d.chains \in Seq(ChainRecords) /\ Len(d.chains) = Len(c.chains)
  BY <1>1, <1>2, ExceptSeq
<1>4. /\ d.chain = c.chain /\ d.signatures = c.signatures /\ d.depth = c.depth /\ d.max = c.max
      /\ d.proof = c.proof /\ d.limits = c.limits
  BY DEF ClientRecords
<1>5. d = [c EXCEPT !.chains = d.chains]
  BY <1>2 DEF ClientRecords
<1>6. d \in ClientRecords
  BY <1>3, <1>5 DEF ClientRecords
<1>7. DOMAIN d.chains = DOMAIN c.chains
  BY <1>2
<1>8. d.chains[i] = ch /\ \A j \in DOMAIN c.chains : j # i => d.chains[j] = c.chains[j]
  BY <1>2
<1>9. \A j \in DOMAIN c.chains : d.chains[j].id = c.chains[j].id
  BY <1>8
<1>10. \A j \in DOMAIN d.chains : Matched(d.chains[j])
  BY <1>7, <1>8 DEF Sound
<1>11. Sound(d)
  BY <1>4, <1>7, <1>9, <1>10 DEF Sound
<1>12. Keeps(c, d) /\ KeepsLists(c, d, i)
  BY <1>1, <1>3, <1>8, <1>9 DEF Keeps, KeepsLists
<1> QED BY <1>3, <1>4, <1>6, <1>7, <1>8, <1>11, <1>12

\* A white list given by hand holds as long as its chain and list stay.
LEMMA HandsStay ==
  ASSUME NEW c \in ClientRecords, NEW d \in ClientRecords, NEW hands, NEW k,
         Keeps(c, d), KeepsLists(c, d, k), HandsHold(c, hands),
         NEW less, DOMAIN less \subseteq DOMAIN hands, \A id \in DOMAIN less : less[id] = hands[id],
         k \in DOMAIN c.chains => c.chains[k].id \notin DOMAIN less
  PROVE  HandsHold(d, less)
<1>1. /\ DOMAIN c.chains = 1 .. Len(c.chains) /\ Len(c.chains) \in Nat
      /\ DOMAIN d.chains = 1 .. Len(d.chains) /\ Len(d.chains) \in Nat
  BY LenProperties DEF ClientRecords
<1>2. \A i \in DOMAIN c.chains : i \in DOMAIN d.chains
  BY <1>1 DEF Keeps
<1> SUFFICES ASSUME NEW id \in DOMAIN less
             PROVE  \E i \in DOMAIN d.chains : /\ d.chains[i].id = id /\ d.chains[i].wl \in WhiteLists
                                               /\ d.chains[i].wl.contract = None /\ d.chains[i].wl.list = less[id]
  BY DEF HandsHold
<1>3. PICK i \in DOMAIN c.chains : /\ c.chains[i].id = id /\ c.chains[i].wl \in WhiteLists
                                   /\ c.chains[i].wl.contract = None /\ c.chains[i].wl.list = hands[id]
  BY DEF HandsHold
<1>4. i # k
  BY <1>3
<1>5. d.chains[i].id = id /\ d.chains[i].wl = c.chains[i].wl
  BY <1>3, <1>4 DEF Keeps, KeepsLists
<1> QED BY <1>2, <1>3, <1>5

-----------------------------------------------------------------------------
(* The nodes of a chain.                                                   *)

\* A chain is matched when its nodes and weights are those of one that is, but for what is
\* neither an address nor whose weight it is.
LEMMA MatchedAlike ==
  ASSUME NEW ch, Matched(ch), NEW d,
         Len(d.nodes) = Len(ch.nodes), Len(d.weights) = Len(ch.weights), DOMAIN d.nodes = DOMAIN ch.nodes,
         \A k \in DOMAIN ch.nodes : d.nodes[k].address = ch.nodes[k].address /\ d.weights[k].of = ch.weights[k].of
  PROVE  Matched(d)
<1>1. \A k \in DOMAIN d.nodes : d.weights[k].of = d.nodes[k].address
  BY DEF Matched
<1>2. ASSUME NEW k \in DOMAIN d.nodes, NEW m \in DOMAIN d.nodes, d.nodes[k].address = d.nodes[m].address PROVE k = m
  <2>1. ch.nodes[k].address = ch.nodes[m].address
    BY <1>2
  <2> QED BY <2>1 DEF Matched
<1> QED BY <1>1, <1>2 DEF Matched

\* in3_client_add_node keeps each node once, and its weight at its place.
LEMMA AddedIsMatched ==
  ASSUME NEW ch \in ChainRecords, Matched(ch), NEW address \in Addresses, NEW url \in NodeUrls
  PROVE  /\ Added(ch, address, url) \in ChainRecords /\ Matched(Added(ch, address, url))
         /\ Added(ch, address, url).id = ch.id /\ Added(ch, address, url).wl = ch.wl
<1> DEFINE i == FindNode(ch, address)
<1>1. /\ ch.nodes \in Seq(NodeRecords) /\ ch.weights \in Seq(WeightRecords)
      /\ DOMAIN ch.nodes = 1 .. Len(ch.nodes) /\ Len(ch.nodes) \in Nat
      /\ DOMAIN ch.weights = 1 .. Len(ch.weights) /\ Len(ch.weights) = Len(ch.nodes)
  BY LenProperties DEF ChainRecords, Matched
<1>2. /\ i # 0 => i \in DOMAIN ch.nodes /\ ch.nodes[i].address = address
      /\ i = 0 => \A k \in DOMAIN ch.nodes : ch.nodes[k].address # address
  BY FindNodeFinds
<1> HIDE DEF i
<1>3. CASE i # 0
  <2> DEFINE ns == [ch.nodes EXCEPT ![i] = [@ EXCEPT !.url = url]]
             ws == [ch.weights EXCEPT ![i] = Weight(@.of)]
  <2>1. Added(ch, address, url) = [ch EXCEPT !.nodes = ns, !.weights = ws]
    BY <1>3 DEF Added, i, ChainRecords
  <2>2. ch.nodes[i] \in NodeRecords /\ ch.weights[i] \in WeightRecords
    BY <1>1, <1>2, <1>3
  <2>3. [ch.nodes[i] EXCEPT !.url = url] \in NodeRecords /\ Weight(ch.weights[i].of) \in WeightRecords
    BY <2>2 DEF NodeRecords, WeightRecords, Weight
  <2>4. ns \in Seq(NodeRecords) /\ ws \in Seq(WeightRecords) /\ Len(ns) = Len(ch.nodes) /\ Len(ws) = Len(ch.weights)
    BY <1>1, <1>2, <1>3, <2>3, ExceptSeq
  <2>5. \A k \in DOMAIN ch.nodes : ns[k].address = ch.nodes[k].address
    BY <2>2 DEF NodeRecords
  <2>6. \A k \in DOMAIN ch.weights : ws[k].of = ch.weights[k].of
    BY DEF Weight
  <2>7. DOMAIN ns = DOMAIN ch.nodes
    OBVIOUS
  <2> HIDE DEF ns, ws
  <2> DEFINE e == [ch EXCEPT !.nodes = ns, !.weights = ws]
  <2>8. e \in ChainRecords /\ e.nodes = ns /\ e.weights = ws /\ e.id = ch.id /\ e.wl = ch.wl
    BY <2>4 DEF ChainRecords
  <2> HIDE DEF e
  <2>9. \A k \in DOMAIN ch.nodes : ns[k].address = ch.nodes[k].address /\ ws[k].of = ch.weights[k].of
    BY <1>1, <2>5, <2>6
  <2>10. Matched(e)
    <3>1. e.nodes = ns /\ e.weights = ws
      BY <2>8
    <3>2. /\ Len(e.nodes) = Len(ch.nodes) /\ Len(e.weights) = Len(ch.weights) /\ DOMAIN e.nodes = DOMAIN ch.nodes
          /\ \A k \in DOMAIN ch.nodes : e.nodes[k].address = ch.nodes[k].address /\ e.weights[k].of = ch.weights[k].of
      BY <2>4, <2>7, <2>9, <3>1
    <3> QED BY <3>2, MatchedAlike
  <2> QED BY <2>1, <2>8, <2>10 DEF e
<1>4. CASE i = 0
  <2> DEFINE new == Node(address, url, Len(ch.nodes))
             ns == Append(ch.nodes, new)
             ws == Append(ch.weights, Weight(address))
  <2>1. Added(ch, address, url) = [ch EXCEPT !.nodes = ns, !.weights = ws]
    BY <1>4 DEF Added, i, ChainRecords
  <2>2. new \in NodeRecords /\ Weight(address) \in WeightRecords /\ new.address = address /\ Weight(address).of = address
    BY <1>1 DEF NodeRecords, WeightRecords, Weight, Node
  <2> HIDE DEF new
  <2>3. /\ ns \in Seq(NodeRecords) /\ Len(ns) = Len(ch.nodes) + 1
        /\ \A k \in 1 .. Len(ch.nodes) : ns[k] = ch.nodes[k]
        /\ ns[Len(ch.nodes) + 1] = new
    BY <1>1, <2>2, AppendProperties
  <2>4. /\ ws \in Seq(WeightRecords) /\ Len(ws) = Len(ch.weights) + 1
        /\ \A k \in 1 .. Len(ch.weights) : ws[k] = ch.weights[k]
        /\ ws[Len(ch.weights) + 1] = Weight(address)
    BY <1>1, <2>2, AppendProperties
  <2> HIDE DEF ns, ws
  <2>5. DOMAIN ns = 1 .. Len(ch.nodes) + 1
    BY <2>3, LenProperties
  <2>6. \A k \in DOMAIN ns : k \in 1 .. Len(ch.nodes) \/ k = Len(ch.nodes) + 1
    BY <1>1, <2>5
  <2>7. \A k \in DOMAIN ns : ws[k].of = ns[k].address
    BY <1>1, <2>2, <2>3, <2>4, <2>6 DEF Matched
  <2>8. \A k, m \in DOMAIN ns : ns[k].address = ns[m].address => k = m
    <3>1. \A k, m \in DOMAIN ch.nodes : ch.nodes[k].address = ch.nodes[m].address => k = m
      BY DEF Matched
    <3>2. \A k \in DOMAIN ns : \/ k \in DOMAIN ch.nodes /\ ns[k] = ch.nodes[k] /\ ns[k].address # address
                               \/ k = Len(ch.nodes) + 1 /\ ns[k].address = address
      BY <1>1, <1>2, <1>4, <2>2, <2>3, <2>6
    <3> QED BY <3>1, <3>2
  <2> DEFINE e == [ch EXCEPT !.nodes = ns, !.weights = ws]
  <2>9. e \in ChainRecords /\ e.nodes = ns /\ e.weights = ws /\ e.id = ch.id /\ e.wl = ch.wl
    BY <2>3, <2>4 DEF ChainRecords
  <2> HIDE DEF e
  <2>10. Len(ws) = Len(ns)
    BY <1>1, <2>3, <2>4
  <2>11. Matched(e)
    <3>1. e.nodes = ns /\ e.weights = ws
      BY <2>9
    <3>2. /\ Len(e.weights) = Len(e.nodes)
          /\ \A k, m \in DOMAIN e.nodes : e.nodes[k].address = e.nodes[m].address => k = m
          /\ \A k \in DOMAIN e.nodes : e.weights[k].of = e.nodes[k].address
      BY <2>7, <2>8, <2>10, <3>1
    <3> QED BY <3>2 DEF Matched
  <2> QED BY <2>1, <2>9, <2>11 DEF e
<1> QED BY <1>3, <1>4

\* The places of a sequence after one was taken out.
LEMMA AfterRemoval ==
  ASSUME NEW T, NEW s \in Seq(T), NEW i \in DOMAIN s
  PROVE  /\ RemoveAt(s, i) \in Seq(T) /\ Len(RemoveAt(s, i)) = Len(s) - 1
         /\ \A k \in 1 .. Len(s) - 1 : RemoveAt(s, i)[k] = IF k < i THEN s[k] ELSE s[k + 1]
<1> DEFINE a == SubSeq(s, 1, i - 1)
           b == SubSeq(s, i + 1, Len(s))
<1>1. Len(s) \in Nat /\ i \in 1 .. Len(s) /\ \A k \in 1 .. Len(s) : s[k] \in T
  BY LenProperties, ElementOfSeq
<1>2. a \in Seq(T) /\ Len(a) = i - 1 /\ \A k \in 1 .. i - 1 : a[k] = s[k]
  BY <1>1, SubSeqProperties
<1>3. b \in Seq(T) /\ Len(b) = Len(s) - i /\ \A k \in 1 .. Len(s) - i : b[k] = s[i + k]
  BY <1>1, SubSeqProperties
<1> HIDE DEF a, b
<1>4. RemoveAt(s, i) = a \o b
  BY DEF RemoveAt, a, b
<1>5. a \o b \in Seq(T) /\ Len(a \o b) = Len(s) - 1
  BY <1>1, <1>2, <1>3, ConcatProperties
<1>6. ASSUME NEW k \in 1 .. Len(s) - 1 PROVE (a \o b)[k] = IF k < i THEN s[k] ELSE s[k + 1]
  <2>1. k \in 1 .. Len(a) + Len(b)
    BY <1>1, <1>2, <1>3
  <2>2. (a \o b)[k] = IF k <= Len(a) THEN a[k] ELSE b[k - Len(a)]
    BY <1>2, <1>3, <2>1, ConcatProperties
  <2>3. CASE k < i
    BY <1>1, <1>2, <2>2, <2>3
  <2>4. CASE ~ (k < i)
    <3>1. k - Len(a) = k - i + 1 /\ k - i + 1 \in 1 .. Len(s) - i /\ ~ (k <= Len(a))
      BY <1>1, <1>2, <2>4
    <3>2. i + (k - i + 1) = k + 1
      BY <1>1
    <3> QED BY <1>3, <2>2, <2>4, <3>1, <3>2
  <2> QED BY <2>3, <2>4
<1> QED BY <1>4, <1>5, <1>6

\* in3_client_remove_node takes the weight out with its node.
LEMMA RemovedIsMatched ==
  ASSUME NEW ch \in ChainRecords, Matched(ch), NEW i \in DOMAIN ch.nodes
  PROVE  /\ Removed(ch, i) \in ChainRecords /\ Matched(Removed(ch, i))
         /\ Removed(ch, i).id = ch.id /\ Removed(ch, i).wl = ch.wl
<1> DEFINE ns == RemoveAt(ch.nodes, i)
           ws == RemoveAt(ch.weights, i)
<1>1. /\ ch.nodes \in Seq(NodeRecords) /\ ch.weights \in Seq(WeightRecords)
      /\ DOMAIN ch.nodes = 1 .. Len(ch.nodes) /\ Len(ch.nodes) \in Nat
      /\ DOMAIN ch.weights = 1 .. Len(ch.weights) /\ Len(ch.weights) = Len(ch.nodes)
  BY LenProperties DEF ChainRecords, Matched
<1>2. /\ ns \in Seq(NodeRecords) /\ Len(ns) = Len(ch.nodes) - 1
      /\ \A k \in 1 .. Len(ch.nodes) - 1 : ns[k] = IF k < i THEN ch.nodes[k] ELSE ch.nodes[k + 1]
  BY <1>1, AfterRemoval
<1>3. i \in DOMAIN ch.weights
  BY <1>1
<1>4. /\ ws \in Seq(WeightRecords) /\ Len(ws) = Len(ch.nodes) - 1
      /\ \A k \in 1 .. Len(ch.nodes) - 1 : ws[k] = IF k < i THEN ch.weights[k] ELSE ch.weights[k + 1]
  BY <1>1, <1>3, AfterRemoval
<1>5. Removed(ch, i) = [ch EXCEPT !.nodes = ns, !.weights = ws]
  BY DEF Removed
<1> HIDE DEF ns, ws
<1>6. DOMAIN ns = 1 .. Len(ch.nodes) - 1
  BY <1>2, LenProperties
<1> DEFINE old(k) == IF k < i THEN k ELSE k + 1
<1>7. \A k \in DOMAIN ns : old(k) \in DOMAIN ch.nodes /\ ns[k] = ch.nodes[old(k)] /\ ws[k] = ch.weights[old(k)]
  <2>1. \A k \in DOMAIN ns : old(k) \in DOMAIN ch.nodes
    BY <1>1, <1>6
  <2>2. \A k \in DOMAIN ns : ns[k] = ch.nodes[old(k)]
    BY <1>2, <1>6
  <2>3. \A k \in DOMAIN ns : ws[k] = ch.weights[old(k)]
    BY <1>4, <1>6
  <2> QED BY <2>1, <2>2, <2>3
<1>8. \A k, m \in DOMAIN ns : old(k) = old(m) => k = m
  BY <1>1, <1>6
<1> HIDE DEF old
<1>9. \A k \in DOMAIN ns : ws[k].of = ns[k].address
  BY <1>7 DEF Matched
<1>10. \A k, m \in DOMAIN ns : ns[k].address = ns[m].address => k = m
  BY <1>7, <1>8 DEF Matched
<1> DEFINE e == [ch EXCEPT !.nodes = ns, !.weights = ws]
<1>11. e \in ChainRecords /\ e.nodes = ns /\ e.weights = ws /\ e.id = ch.id /\ e.wl = ch.wl
  BY <1>2, <1>4 DEF ChainRecords
<1> HIDE DEF e
<1>12. Matched(e)
  <2>1. e.nodes = ns /\ e.weights = ws /\ Len(ws) = Len(ns)
    BY <1>2, <1>4, <1>11
  <2>2. /\ Len(e.weights) = Len(e.nodes)
        /\ \A k, m \in DOMAIN e.nodes : e.nodes[k].address = e.nodes[m].address => k = m
        /\ \A k \in DOMAIN e.nodes : e.weights[k].of = e.nodes[k].address
    BY <1>9, <1>10, <2>1
  <2> QED BY <2>2 DEF Matched
<1> QED BY <1>5, <1>11, <1>12 DEF e

\* A chain without nodes has no weights either.
LEMMA ClearedIsMatched ==
  ASSUME NEW ch \in ChainRecords
  PROVE  /\ Cleared(ch) \in ChainRecords /\ Matched(Cleared(ch))
         /\ Cleared(ch).id = ch.id /\ Cleared(ch).wl = ch.wl
<1>1. /\ Cleared(ch) = [ch EXCEPT !.nodes = <<>>, !.weights = <<>>]
      /\ <<>> \in Seq(NodeRecords) /\ <<>> \in Seq(WeightRecords)
  BY DEF Cleared
<1>2. Cleared(ch) \in ChainRecords /\ Cleared(ch).nodes = <<>> /\ Cleared(ch).weights = <<>>
  BY <1>1 DEF ChainRecords
<1>3. DOMAIN Cleared(ch).nodes = {}
  BY <1>2
<1>4. Matched(Cleared(ch))
  BY <1>2, <1>3 DEF Matched
<1> QED BY <1>1, <1>2, <1>4 DEF ChainRecords

\* A chain whose nodes and weights stay is as well matched as before.
LEMMA StaysMatched ==
  ASSUME NEW ch, Matched(ch), NEW d, d.nodes = ch.nodes, d.weights = ch.weights
  PROVE  Matched(d)
BY DEF Matched

-----------------------------------------------------------------------------
(* The chains of a client.                                                 *)

\* in3_client_register_chain makes a new chain, or takes the white list of the one that is there.
LEMMA RegisteredIsSound ==
  ASSUME NEW c \in ClientRecords, Sound(c), NEW id \in ChainIds, NEW contract \in Contracts,
         NEW wl \in Contracts \union {None}
  PROVE  LET d == Registered(c, id, contract, wl)
         IN  /\ d \in ClientRecords /\ Sound(d) /\ Keeps(c, d) /\ KeepsLists(c, d, FindChain(c, id))
             /\ FindChain(d, id) \in DOMAIN d.chains
             /\ d.chain = c.chain /\ d.signatures = c.signatures /\ d.depth = c.depth
<1> DEFINE i == FindChain(c, id)
           list == IF wl = None THEN None ELSE Fetched(wl)
           d == Registered(c, id, contract, wl)
<1>1. /\ c.chains \in Seq(ChainRecords) /\ DOMAIN c.chains = 1 .. Len(c.chains) /\ Len(c.chains) \in Nat
  BY LenProperties DEF ClientRecords
<1>2. list \in WhiteLists \union {None}
  BY DEF Fetched, WhiteLists
<1>3. /\ i # 0 => i \in DOMAIN c.chains /\ c.chains[i].id = id
      /\ i = 0 => \A j \in DOMAIN c.chains : c.chains[j].id # id
  BY FindChainFinds
<1> HIDE DEF i, list
<1>4. CASE i # 0
  <2> DEFINE ch == [c.chains[i] EXCEPT !.contract = contract, !.wl = list, !.updates = FALSE]
  <2>1. d = [c EXCEPT !.chains[i] = ch]
    BY <1>4 DEF Registered, i, list
  <2>2. c.chains[i] \in ChainRecords /\ Matched(c.chains[i])
    BY <1>1, <1>3, <1>4 DEF Sound
  <2>3. ch \in ChainRecords /\ ch.id = c.chains[i].id /\ ch.nodes = c.chains[i].nodes /\ ch.weights = c.chains[i].weights
    BY <1>2, <2>2 DEF ChainRecords
  <2>4. Matched(ch)
    BY <2>2, <2>3, StaysMatched
  <2> HIDE DEF ch, d
  <2>5. /\ d \in ClientRecords /\ Sound(d) /\ Keeps(c, d) /\ KeepsLists(c, d, i)
        /\ DOMAIN d.chains = DOMAIN c.chains /\ d.chains[i] = ch
        /\ d.chain = c.chain /\ d.signatures = c.signatures /\ d.depth = c.depth
    BY <1>3, <1>4, <2>1, <2>3, <2>4, ChainReplaced
  <2>6. i \in DOMAIN d.chains /\ d.chains[i].id = id
    BY <1>3, <1>4, <2>3, <2>5
  <2>7. FindChain(d, id) \in DOMAIN d.chains
    BY <2>5, <2>6, FindChainFinds
  <2> QED BY <2>5, <2>7 DEF d, i
<1>5. CASE i = 0
  <2> DEFINE ch == [id |-> id, contract |-> contract, nodes |-> <<>>, weights |-> <<>>, wl |-> list, updates |-> FALSE, hashes |-> None]
             n == Len(c.chains) + 1
  <2>1. d = [c EXCEPT !.chains = Append(@, ch)]
    BY <1>5 DEF Registered, i, list
  <2>2. ch \in ChainRecords
    BY <1>2 DEF ChainRecords
  <2>3. ch.nodes = <<>> /\ ch.weights = <<>> /\ DOMAIN ch.nodes = {} /\ ch.id = id
    OBVIOUS
  <2>4. Matched(ch)
    BY <2>3 DEF Matched
  <2> HIDE DEF ch, d
  <2>5. d.chains = Append(c.chains, ch) /\ d.chain = c.chain /\ d.signatures = c.signatures /\ d.depth = c.depth /\ d.limits = c.limits
    BY <2>1 DEF ClientRecords
  <2>6. /\ d.chains \in Seq(ChainRecords) /\ Len(d.chains) = n
        /\ \A j \in 1 .. Len(c.chains) : d.chains[j] = c.chains[j]
        /\ d.chains[n] = ch
    BY <1>1, <2>2, <2>5, AppendProperties
  <2>7. DOMAIN d.chains = 1 .. n /\ \A j \in 1 .. n : j \in DOMAIN c.chains \/ j = n
    BY <1>1, <2>6, LenProperties
  <2>8. d \in ClientRecords
    BY <2>1, <2>5, <2>6 DEF ClientRecords
  <2>9. \A j, k \in DOMAIN d.chains : d.chains[j].id = d.chains[k].id => j = k
    <3>1. \A j \in DOMAIN c.chains : d.chains[j].id = c.chains[j].id /\ c.chains[j].id # id
      BY <1>1, <1>3, <1>5, <2>6
    <3>2. d.chains[n].id = id
      BY <2>3, <2>6
    <3> QED BY <2>7, <3>1, <3>2 DEF Sound
  <2>10. \A j \in DOMAIN d.chains : Matched(d.chains[j])
    BY <1>1, <2>4, <2>6, <2>7 DEF Sound
  <2>11. Sound(d)
    BY <2>5, <2>9, <2>10 DEF Sound
  <2>12. Keeps(c, d) /\ KeepsLists(c, d, i)
    BY <1>1, <2>6 DEF Keeps, KeepsLists
  <2>13. n \in DOMAIN d.chains /\ d.chains[n].id = id
    BY <1>1, <2>3, <2>6, <2>7
  <2>14. FindChain(d, id) \in DOMAIN d.chains
    BY <2>8, <2>13, FindChainFinds
  <2> QED BY <2>5, <2>8, <2>11, <2>12, <2>14 DEF d, i
<1> QED BY <1>4, <1>5

\* What in3_configure and the other functions may do to a client, the white list of the chain
\* at place k apart.
Becomes(c, d, k) == d \in ClientRecords /\ Sound(d) /\ Keeps(c, d) /\ KeepsLists(c, d, k)

\* Fields of the client that are not its chains.
LEMMA SettingsChange ==
  ASSUME NEW c \in ClientRecords, Sound(c), NEW d \in ClientRecords, d.chains = c.chains,
         \A l \in DOMAIN LimitSizes : d.limits[l] < LimitSizes[l]
  PROVE  \A k : Becomes(c, d, k)
<1>1. Len(c.chains) \in Nat
  BY LenProperties DEF ClientRecords
<1>2. Sound(d)
  BY DEF Sound
<1>3. Keeps(c, d) /\ \A k : KeepsLists(c, d, k)
  BY <1>1 DEF Keeps, KeepsLists
<1> QED BY <1>2, <1>3 DEF Becomes

\* A field of one chain that is neither its nodes nor its id.
LEMMA ChainSettingsChange ==
  ASSUME NEW c \in ClientRecords, Sound(c), NEW i \in DOMAIN c.chains, NEW ch \in ChainRecords,
         ch.id = c.chains[i].id, ch.nodes = c.chains[i].nodes, ch.weights = c.chains[i].weights
  PROVE  /\ Becomes(c, [c EXCEPT !.chains[i] = ch], i)
         /\ ch.wl = c.chains[i].wl => \A k : Becomes(c, [c EXCEPT !.chains[i] = ch], k)
<1> DEFINE d == [c EXCEPT !.chains[i] = ch]
<1>1. Matched(ch)
  BY StaysMatched DEF Sound
<1>2. d \in ClientRecords /\ Sound(d) /\ Keeps(c, d) /\ KeepsLists(c, d, i) /\ d.chains[i] = ch
  BY <1>1, ChainReplaced
<1> HIDE DEF d
<1>3. ch.wl = c.chains[i].wl => \A k : KeepsLists(c, d, k)
  BY <1>2 DEF KeepsLists
<1> QED BY <1>2, <1>3 DEF Becomes, d

\* The nodes of one chain.
LEMMA ChainNodesChange ==
  ASSUME NEW c \in ClientRecords, Sound(c), NEW i \in DOMAIN c.chains, NEW ch \in ChainRecords,
         ch.id = c.chains[i].id, Matched(ch), ch.wl = c.chains[i].wl
  PROVE  \A k : Becomes(c, [c EXCEPT !.chains[i] = ch], k)
<1> DEFINE d == [c EXCEPT !.chains[i] = ch]
<1>1. d \in ClientRecords /\ Sound(d) /\ Keeps(c, d) /\ KeepsLists(c, d, i) /\ d.chains[i] = ch
  BY ChainReplaced
<1> HIDE DEF d
<1>2. \A k : KeepsLists(c, d, k)
  BY <1>1 DEF KeepsLists
<1> QED BY <1>1, <1>2 DEF Becomes, d

-----------------------------------------------------------------------------
(* What in3_configure reads, item by item.                                 *)

GivesList(o) == o \in PropertyItems /\ o.props[o.k].prop \in {"whiteList", "whiteListContract"}

\* Reading o changes c to a client that is as sound, and leaves the white lists alone unless o
\* is one; one given by hand that is taken is then the chain's.
Reads(c, o, r) ==
  /\ r.is \in {UnderWay, "refused", Wild}
  /\ r.items \in Seq(Items) /\ \A n \in DOMAIN r.items : Placed(r.client, r.items[n])
  /\ Becomes(c, r.client, IF GivesList(o) THEN o.chain ELSE 0)
  /\ (GivesList(o) /\ o.props[o.k].prop = "whiteList" /\ r.is = UnderWay) =>
       /\ r.client.chains[o.chain].wl \in WhiteLists
       /\ r.client.chains[o.chain].wl.contract = None
       /\ r.client.chains[o.chain].wl.list = o.props[o.k].list

\* An option that is done with at once and is no white list.
LEMMA ReadsAtOnce ==
  ASSUME NEW c, NEW o, ~ GivesList(o), NEW d, Becomes(c, d, 0), NEW r, r \in {Applied(d), Rejected(d), Broken(d)}
  PROVE  Reads(c, o, r)
<1>1. r.client = d /\ r.items = <<>> /\ r.is \in {UnderWay, "refused", Wild}
  BY DEF Applied, Read, Rejected, Broken
<1>2. r.items \in Seq(Items) /\ DOMAIN r.items = {}
  BY <1>1
<1> QED BY <1>1, <1>2 DEF Reads

LEMMA SameClient ==
  ASSUME NEW c \in ClientRecords, Sound(c)
  PROVE  \A k : Becomes(c, c, k)
BY SettingsChange DEF Sound

\* Options are of one kind only.
LEMMA OptionsGiveNoList ==
  ASSUME NEW o \in Options
  PROVE  ~ GivesList(o) /\ o \notin PropertyItems /\ o \notin NodeItems
BY DEF Options, GivesList, PropertyItems, NodeItems

\* chainId, signatureCount, replaceLatestBlock and the options that only store a number.
LEMMA NumbersRead ==
  ASSUME NEW c \in ClientRecords, Sound(c), NEW o \in Options,
         o.opt \in {"chainId", "signatureCount", "replaceLatestBlock", "limit", "unknown"}
  PROVE  Reads(c, o, Option(c, o))
<1>1. ~ GivesList(o)
  BY OptionsGiveNoList
<1>2. Becomes(c, c, 0)
  BY SameClient
<1>3. CASE o.opt = "chainId"
  <2> DEFINE d == [c EXCEPT !.chain = o.id]
  <2>1. Option(c, o) = IF o.id = None THEN Rejected(c) ELSE Applied(d)
    BY <1>3 DEF Option
  <2>2. ASSUME o.id # None PROVE Becomes(c, d, 0)
    <3>1. o.id \in ChainIds
      BY <1>3, <2>2 DEF Options
    <3>2. d \in ClientRecords /\ d.chains = c.chains /\ d.limits = c.limits
      BY <3>1 DEF ClientRecords
    <3> HIDE DEF d
    <3> QED BY <3>2, SettingsChange DEF Sound
  <2> HIDE DEF d
  <2> QED BY <1>1, <1>2, <2>1, <2>2, ReadsAtOnce
<1>4. CASE o.opt = "signatureCount"
  <2> DEFINE d == [c EXCEPT !.signatures = o.number]
  <2>1. Option(c, o) = Applied(d)
    BY <1>4 DEF Option
  <2>2. o.number \in Nat
    BY <1>4 DEF Options
  <2>3. d \in ClientRecords /\ d.chains = c.chains /\ d.limits = c.limits
    BY <2>2 DEF ClientRecords
  <2> HIDE DEF d
  <2>4. Becomes(c, d, 0)
    BY <2>3, SettingsChange DEF Sound
  <2> QED BY <1>1, <2>1, <2>4, ReadsAtOnce
<1>5. CASE o.opt = "replaceLatestBlock"
  <2> DEFINE d == [c EXCEPT !.depth = o.number]
  <2>1. Option(c, o) = Applied(d)
    BY <1>5 DEF Option
  <2>2. o.number \in Nat
    BY <1>5 DEF Options
  <2>3. d \in ClientRecords /\ d.chains = c.chains /\ d.limits = c.limits
    BY <2>2 DEF ClientRecords
  <2> HIDE DEF d
  <2>4. Becomes(c, d, 0)
    BY <2>3, SettingsChange DEF Sound
  <2> QED BY <1>1, <2>1, <2>4, ReadsAtOnce
<1>6. CASE o.opt = "limit"
  <2> DEFINE d == [c EXCEPT !.limits[o.name] = o.number]
  <2>1. Option(c, o) = IF o.number < LimitSizes[o.name] THEN Applied(d) ELSE Rejected(c)
    BY <1>6 DEF Option
  <2>2. o.number \in Nat /\ o.name \in DOMAIN LimitSizes
    BY <1>6 DEF Options
  <2>3. ASSUME o.number < LimitSizes[o.name] PROVE Becomes(c, d, 0)
    <3> DEFINE ls == [c.limits EXCEPT ![o.name] = o.number]
    <3>1. c.limits \in [DOMAIN LimitSizes -> Nat]
      BY DEF ClientRecords
    <3>2. ls \in [DOMAIN LimitSizes -> Nat]
      BY <2>2, <3>1
    <3>3. \A l \in DOMAIN LimitSizes : ls[l] < LimitSizes[l]
      BY <2>3, <3>1 DEF Sound
    <3>4. d.limits = ls /\ d = [c EXCEPT !.limits = ls]
      BY DEF ClientRecords
    <3> HIDE DEF ls
    <3>5. [c EXCEPT !.limits = ls] \in ClientRecords /\ [c EXCEPT !.limits = ls].chains = c.chains
      BY <3>2 DEF ClientRecords
    <3> HIDE DEF d
    <3> QED BY <3>3, <3>4, <3>5, SettingsChange
  <2> HIDE DEF d
  <2> QED BY <1>1, <1>2, <2>1, <2>3, ReadsAtOnce
<1>7. CASE o.opt = "unknown"
  <2>1. Option(c, o) = Rejected(c)
    BY <1>7 DEF Option
  <2> QED BY <1>1, <1>2, <2>1, ReadsAtOnce
<1> QED BY <1>3, <1>4, <1>5, <1>6, <1>7

\* maxVerifiedHashes: the current chain's hashes get more places.
LEMMA MaxVerifiedHashesRead ==
  ASSUME NEW c \in ClientRecords, Sound(c), NEW o \in Options, o.opt = "maxVerifiedHashes"
  PROVE  Reads(c, o, Option(c, o))
<1> DEFINE i == FindChain(c, c.chain)
           n == o.number
<1>1. ~ GivesList(o)
  BY OptionsGiveNoList
<1>2. Option(c, o) = MaxVerifiedHashes(c, n)
  BY DEF Option
<1>3. n \in Nat /\ c.max \in Nat
  BY DEF Options, ClientRecords
<1>4. i # 0 => i \in DOMAIN c.chains
  BY FindChainFinds
<1> HIDE DEF i, n
<1> DEFINE d == [c EXCEPT !.max = n]
<1>5. d \in ClientRecords /\ d.chains = c.chains /\ d.limits = c.limits
  BY <1>3 DEF ClientRecords
<1>6. Becomes(c, d, 0) /\ Becomes(c, c, 0) /\ Sound(d)
  <2> HIDE DEF d
  <2> QED BY <1>5, SettingsChange DEF Sound, Becomes
<1>7. CASE n <= c.max
  <2>1. Option(c, o) = Applied(d)
    BY <1>2, <1>7 DEF MaxVerifiedHashes
  <2> HIDE DEF d
  <2> QED BY <1>1, <1>6, <2>1, ReadsAtOnce
<1>8. CASE ~ (n <= c.max) /\ i = 0
  <2>1. Option(c, o) = Broken(c)
    BY <1>2, <1>8 DEF MaxVerifiedHashes, i
  <2> QED BY <1>1, <1>6, <2>1, ReadsAtOnce
<1>9. CASE ~ (n <= c.max) /\ i # 0
  <2> DEFINE hs == Grow(c.chains[i].hashes, c.max, n)
             ch == [d.chains[i] EXCEPT !.hashes = hs]
             e == [d EXCEPT !.chains[i] = ch]
  <2>1. Option(c, o) = Applied(e)
    BY <1>2, <1>5, <1>9 DEF MaxVerifiedHashes, i, ClientRecords
  <2>2. c.chains[i] \in ChainRecords
    BY <1>4, <1>9, ElementOfSeq DEF ClientRecords
  <2>3. hs \in Seq(Int)
    <3> DEFINE old == c.chains[i].hashes
    <3>1. old \in Seq(Int) \union {None}
      BY <2>2 DEF ChainRecords
    <3>2. \A k \in 1 .. n : (IF k > c.max THEN Unused ELSE IF old # None /\ k <= Len(old) THEN old[k] ELSE Garbage) \in Int
      <4> SUFFICES ASSUME NEW k \in 1 .. n
                   PROVE  (IF k > c.max THEN Unused ELSE IF old # None /\ k <= Len(old) THEN old[k] ELSE Garbage) \in Int
        OBVIOUS
      <4> HIDE DEF old
      <4>1. old # None /\ k <= Len(old) => old[k] \in Int
        BY <1>3, <3>1, ElementOfSeq, LenProperties
      <4> QED BY <4>1 DEF Unused, Garbage
    <3> HIDE DEF old
    <3>3. hs = [k \in 1 .. n |-> IF k > c.max THEN Unused ELSE IF old # None /\ k <= Len(old) THEN old[k] ELSE Garbage]
      BY DEF Grow, old
    <3>4. hs \in [1 .. n -> Int]
      BY <3>2, <3>3
    <3> HIDE DEF hs
    <3> QED BY <1>3, <3>4, SeqDef
  <2> HIDE DEF hs
  <2>4. ch \in ChainRecords /\ ch.id = d.chains[i].id /\ ch.nodes = d.chains[i].nodes
        /\ ch.weights = d.chains[i].weights /\ ch.wl = d.chains[i].wl
    BY <1>5, <2>2, <2>3 DEF ChainRecords
  <2> HIDE DEF d, ch
  <2>5. i \in DOMAIN d.chains
    BY <1>4, <1>5, <1>9
  <2>6. Becomes(d, e, 0)
    BY <1>5, <1>6, <2>4, <2>5, ChainSettingsChange
  <2> HIDE DEF e
  <2>7. Becomes(c, e, 0)
    BY <1>5, <2>6 DEF Becomes, Keeps, KeepsLists
  <2> QED BY <1>1, <2>1, <2>7, ReadsAtOnce
<1> QED BY <1>7, <1>8, <1>9

\* rpc: the local chain's first node gets the url.
LEMMA RpcRead ==
  ASSUME NEW c \in ClientRecords, Sound(c), NEW o \in Options, o.opt = "rpc"
  PROVE  Reads(c, o, Option(c, o))
<1> DEFINE ls == [c.limits EXCEPT !["requestCount"] = 1]
           d == [c EXCEPT !.proof = FALSE, !.chain = Local, !.limits = ls]
           i == FindChain(d, Local)
           e == [d EXCEPT !.chains[i].nodes[1].url = o.url]
           f == [e EXCEPT !.chains[i].updates = FALSE]
<1>1. ~ GivesList(o)
  BY OptionsGiveNoList
<1>2. o.url \in NodeUrls
  BY DEF Options
<1>3. [c EXCEPT !.proof = FALSE, !.chain = Local, !.limits["requestCount"] = 1] = d
  BY DEF ClientRecords
<1>4. Option(c, o) = IF i = 0 \/ d.chains[i].nodes = <<>> THEN Broken(d) ELSE Applied(f)
  <2>1. Option(c, o) = Rpc(c, o.url)
    BY DEF Option
  <2> HIDE DEF d
  <2> QED BY <1>3, <2>1 DEF Rpc
<1>5. d \in ClientRecords /\ d.chains = c.chains /\ d.limits = ls
  <2>1. c.limits \in [DOMAIN LimitSizes -> Nat]
    BY DEF ClientRecords
  <2>2. ls \in [DOMAIN LimitSizes -> Nat]
    BY <2>1
  <2> HIDE DEF ls
  <2> QED BY <2>2, ConfigAssumption DEF ClientRecords
<1>6. \A l \in DOMAIN LimitSizes : ls[l] < LimitSizes[l]
  <2>1. c.limits \in [DOMAIN LimitSizes -> Nat]
    BY DEF ClientRecords
  <2> QED BY <2>1, ConfigAssumption DEF Sound
<1> HIDE DEF d, ls
<1>7. Becomes(c, d, 0) /\ Sound(d)
  BY <1>5, <1>6, SettingsChange DEF Becomes
<1>8. i # 0 => i \in DOMAIN d.chains
  BY <1>5, FindChainFinds
<1> HIDE DEF i
<1>9. CASE i = 0 \/ d.chains[i].nodes = <<>>
  BY <1>1, <1>4, <1>7, <1>9, ReadsAtOnce
<1>10. CASE ~ (i = 0 \/ d.chains[i].nodes = <<>>)
  <2> DEFINE old == d.chains[i]
             ns == [old.nodes EXCEPT ![1] = [@ EXCEPT !.url = o.url]]
             ch == [old EXCEPT !.nodes = ns]
             dh == [ch EXCEPT !.updates = FALSE]
  <2>1. old \in ChainRecords /\ i \in DOMAIN d.chains
    BY <1>5, <1>8, <1>10, ElementOfSeq DEF ClientRecords
  <2>2. Matched(old)
    BY <1>7, <2>1 DEF Sound
  <2>3. old.nodes \in Seq(NodeRecords) /\ old.nodes # <<>>
    BY <1>10, <2>1 DEF ChainRecords
  <2>4. 1 \in DOMAIN old.nodes /\ Len(old.nodes) \in Nat
    BY <2>3, EmptySeq, LenProperties
  <2>5. e = [d EXCEPT !.chains[i] = ch]
    BY DEF ClientRecords, ChainRecords
  <2> HIDE DEF old, e
  <2>6. old.nodes[1] \in NodeRecords
    BY <2>3, <2>4, ElementOfSeq
  <2>7. [old.nodes[1] EXCEPT !.url = o.url] \in NodeRecords
    BY <1>2, <2>6 DEF NodeRecords
  <2>8. ns \in Seq(NodeRecords) /\ Len(ns) = Len(old.nodes)
    BY <2>3, <2>4, <2>7, ExceptSeq
  <2>9. DOMAIN ns = DOMAIN old.nodes /\ \A k \in DOMAIN old.nodes : ns[k].address = old.nodes[k].address
    BY <2>6 DEF NodeRecords
  <2> HIDE DEF ns
  <2>10. ch \in ChainRecords /\ ch.id = old.id /\ ch.wl = old.wl /\ ch.nodes = ns /\ ch.weights = old.weights
    BY <2>1, <2>8 DEF ChainRecords
  <2>11. Matched(ch)
    <3>1. ch.nodes = ns /\ ch.weights = old.weights
      BY <2>10
    <3>2. /\ Len(ch.nodes) = Len(old.nodes) /\ Len(ch.weights) = Len(old.weights) /\ DOMAIN ch.nodes = DOMAIN old.nodes
          /\ \A k \in DOMAIN old.nodes : ch.nodes[k].address = old.nodes[k].address /\ ch.weights[k].of = old.weights[k].of
      BY <2>8, <2>9, <3>1
    <3> QED BY <2>2, <3>2, MatchedAlike
  <2> HIDE DEF ch
  <2>12. Becomes(d, e, 0) /\ e.chains[i] = ch /\ i \in DOMAIN e.chains
    BY <1>5, <1>7, <2>1, <2>5, <2>10, <2>11, ChainNodesChange, ChainReplaced DEF old
  <2>13. dh \in ChainRecords /\ dh.id = ch.id /\ dh.nodes = ch.nodes /\ dh.weights = ch.weights /\ dh.wl = ch.wl
    BY <2>10 DEF ChainRecords
  <2>14. f = [e EXCEPT !.chains[i] = dh]
    BY <2>12
  <2> HIDE DEF dh, f
  <2>15. Becomes(e, f, 0)
    BY <2>12, <2>13, <2>14, ChainSettingsChange DEF Becomes
  <2>16. Becomes(c, f, 0)
    <3>1. /\ d.chains \in Seq(ChainRecords) /\ e.chains \in Seq(ChainRecords) /\ f.chains \in Seq(ChainRecords)
      BY <1>5, <2>12, <2>15 DEF Becomes, ClientRecords
    <3>2. \A s \in Seq(ChainRecords) : DOMAIN s = 1 .. Len(s) /\ Len(s) \in Nat
      BY LenProperties
    <3>3. Len(d.chains) <= Len(e.chains) /\ Len(e.chains) <= Len(f.chains)
      BY <2>12, <2>15 DEF Becomes, Keeps
    <3>4. \A k \in DOMAIN d.chains : k \in DOMAIN e.chains
      BY <3>1, <3>2, <3>3
    <3>5. \A k \in DOMAIN d.chains : e.chains[k].id = d.chains[k].id /\ f.chains[k].id = d.chains[k].id
      BY <2>12, <2>15, <3>4 DEF Becomes, Keeps
    <3>6. \A k \in DOMAIN d.chains : k # 0 => f.chains[k].wl = d.chains[k].wl
      BY <2>12, <2>15, <3>4 DEF Becomes, KeepsLists
    <3>7. Len(d.chains) <= Len(f.chains)
      BY <3>1, <3>2, <3>3
    <3> QED BY <1>5, <2>15, <3>5, <3>6, <3>7 DEF Becomes, Keeps, KeepsLists
  <2> QED BY <1>1, <1>4, <1>10, <2>16, ReadsAtOnce
<1> QED BY <1>9, <1>10

\* servers: the properties of a chain that is there now.
LEMMA ServerRead ==
  ASSUME NEW c \in ClientRecords, Sound(c), NEW o \in Options, o.opt = "server"
  PROVE  Reads(c, o, Option(c, o))
<1> DEFINE found(name) == SelectInSeq(o.props, LAMBDA p : p.prop = name)
           value(name) == IF found(name) = 0 THEN None ELSE o.props[found(name)].value
           known == FindChain(c, o.id) # 0
           d == IF known THEN c ELSE Registered(c, o.id, value("contract"), value("whiteListContract"))
           items == [k \in DOMAIN o.props |-> [opt |-> "property", chain |-> FindChain(d, o.id), props |-> o.props, k |-> k]]
<1>1. ~ GivesList(o)
  BY OptionsGiveNoList
<1>2. o.id \in ChainIds /\ o.props \in Seq(ChainProperties)
  BY DEF Options
<1>3. Option(c, o) = IF ~known /\ found("contract") = 0 THEN Rejected(c) ELSE Read(d, items)
  BY DEF Option, Server
<1>4. Becomes(c, c, 0)
  BY SameClient
<1>5. CASE ~known /\ found("contract") = 0
  BY <1>1, <1>3, <1>4, <1>5, ReadsAtOnce
<1>6. CASE known \/ found("contract") # 0
  <2>1. ASSUME NEW name, found(name) # 0
        PROVE  o.props[found(name)] \in ChainProperties /\ o.props[found(name)].prop = name
    <3> DEFINE S == {k \in 1 .. Len(o.props) : o.props[k].prop = name}
    <3>1. found(name) = IF S # {} THEN Min(S) ELSE 0
      BY DEF SelectInSeq
    <3>2. S \subseteq 1 .. Len(o.props) /\ \A k \in S : o.props[k].prop = name
      OBVIOUS
    <3>3. Len(o.props) \in Nat
      BY <1>2, LenProperties
    <3> HIDE DEF found, S
    <3>4. S # {} /\ found(name) = Min(S)
      BY <2>1, <3>1
    <3>5. found(name) \in S /\ found(name) \in 1 .. Len(o.props)
      BY <3>2, <3>3, <3>4, LeastIsOne
    <3>6. o.props[found(name)] \in ChainProperties
      BY <1>2, <3>5, ElementOfSeq
    <3> QED BY <3>2, <3>5, <3>6
  <2> HIDE DEF found
  <2>2. /\ found("contract") # 0 => value("contract") \in Contracts
        /\ value("whiteListContract") \in Contracts \union {None}
    BY <2>1 DEF ChainProperties
  <2> HIDE DEF value, found
  <2>3. Becomes(c, d, 0) /\ FindChain(d, o.id) \in DOMAIN d.chains
    <3>1. CASE known
      BY <1>2, <1>4, <3>1, FindChainFinds
    <3>2. CASE ~known
      <4>1. d = Registered(c, o.id, value("contract"), value("whiteListContract")) /\ FindChain(c, o.id) = 0
        BY <3>2
      <4> HIDE DEF d
      <4> QED BY <1>2, <1>6, <2>2, <3>2, <4>1, RegisteredIsSound DEF Becomes
    <3> QED BY <3>1, <3>2
  <2> HIDE DEF d, known
  <2>4. FindChain(d, o.id) \in Nat /\ d.chains \in Seq(ChainRecords)
    BY <2>3, FindChainFinds, LenProperties DEF Becomes, ClientRecords
  <2>5. DOMAIN o.props = 1 .. Len(o.props) /\ Len(o.props) \in Nat
    BY <1>2, LenProperties
  <2>6. \A k \in DOMAIN o.props :
          [opt |-> "property", chain |-> FindChain(d, o.id), props |-> o.props, k |-> k] \in PropertyItems
    BY <1>2, <2>4, <2>5 DEF PropertyItems
  <2>7. items \in [1 .. Len(o.props) -> Items]
    BY <2>5, <2>6 DEF Items
  <2>8. \A n \in DOMAIN items : Placed(d, items[n])
    <3>1. \A n \in DOMAIN o.props : /\ items[n].opt = "property" /\ items[n].chain = FindChain(d, o.id)
                                    /\ items[n].k = n /\ items[n].props = o.props
      OBVIOUS
    <3>2. DOMAIN items = DOMAIN o.props
      OBVIOUS
    <3> HIDE DEF items
    <3>3. \A n \in DOMAIN items : items[n] \notin NodeItems
      BY <3>1, <3>2 DEF NodeItems
    <3> QED BY <2>3, <3>1, <3>2, <3>3 DEF Placed
  <2> HIDE DEF items
  <2>9. items \in Seq(Items)
    BY <2>5, <2>7, SeqDef
  <2>10. Option(c, o) = Read(d, items)
    BY <1>3, <1>6
  <2> QED BY <1>1, <2>3, <2>8, <2>9, <2>10 DEF Reads, Read
<1> QED BY <1>5, <1>6

\* What holds of a chain that is there.
LEMMA ChainIs ==
  ASSUME NEW c \in ClientRecords, Sound(c), NEW i \in DOMAIN c.chains
  PROVE  c.chains[i] \in ChainRecords /\ Matched(c.chains[i]) /\ i # 0
<1>1. c.chains \in Seq(ChainRecords) /\ DOMAIN c.chains = 1 .. Len(c.chains) /\ Len(c.chains) \in Nat
  BY LenProperties DEF ClientRecords
<1> QED BY <1>1, ElementOfSeq DEF Sound

\* contract, needsUpdate, and what is no property.
LEMMA SimplePropertiesRead ==
  ASSUME NEW c \in ClientRecords, Sound(c), NEW o \in PropertyItems, Placed(c, o),
         o.props[o.k].prop \in {"contract", "needsUpdate", "unknown"}
  PROVE  Reads(c, o, Option(c, o))
<1> DEFINE p == o.props[o.k]
           i == o.chain
           old == c.chains[i]
<1>1. Option(c, o) = Property(c, i, o.props, o.k)
  BY DEF Option, PropertyItems
<1>2. p \in ChainProperties
  BY ElementOfSeq DEF PropertyItems, Placed
<1>3. ~ GivesList(o)
  BY DEF GivesList
<1>4. i \in DOMAIN c.chains /\ old \in ChainRecords
  BY ChainIs DEF Placed
<1>5. CASE p.prop = "contract"
  <2> DEFINE ch == [old EXCEPT !.contract = p.value]
             d == [c EXCEPT !.chains[i] = ch]
  <2>1. Option(c, o) = Applied(d)
    BY <1>1, <1>5 DEF Property
  <2>2. p.value \in Contracts
    BY <1>2, <1>5 DEF ChainProperties
  <2> HIDE DEF p, old
  <2>3. ch \in ChainRecords /\ ch.id = old.id /\ ch.nodes = old.nodes /\ ch.weights = old.weights /\ ch.wl = old.wl
    BY <1>4, <2>2 DEF ChainRecords
  <2> HIDE DEF ch
  <2>4. Becomes(c, d, 0)
    BY <1>4, <2>3, ChainSettingsChange DEF old
  <2> HIDE DEF d
  <2> QED BY <1>3, <2>1, <2>4, ReadsAtOnce
<1>6. CASE p.prop = "needsUpdate"
  <2> DEFINE ch == [old EXCEPT !.updates = p.flag]
             d == [c EXCEPT !.chains[i] = ch]
  <2>1. Option(c, o) = Applied(d)
    BY <1>1, <1>6 DEF Property
  <2>2. p.flag \in BOOLEAN
    BY <1>2, <1>6 DEF ChainProperties
  <2> HIDE DEF p, old
  <2>3. ch \in ChainRecords /\ ch.id = old.id /\ ch.nodes = old.nodes /\ ch.weights = old.weights /\ ch.wl = old.wl
    BY <1>4, <2>2 DEF ChainRecords
  <2> HIDE DEF ch
  <2>4. Becomes(c, d, 0)
    BY <1>4, <2>3, ChainSettingsChange DEF old
  <2> HIDE DEF d
  <2> QED BY <1>3, <2>1, <2>4, ReadsAtOnce
<1>7. CASE p.prop = "unknown"
  <2>1. Option(c, o) = Rejected(c)
    BY <1>1, <1>7 DEF Property
  <2>2. Becomes(c, c, 0)
    BY SameClient
  <2> QED BY <1>3, <2>1, <2>2, ReadsAtOnce
<1> QED BY <1>5, <1>6, <1>7

\* whiteListContract and whiteList: only the list of this chain changes.
LEMMA WhiteListsRead ==
  ASSUME NEW c \in ClientRecords, Sound(c), NEW o \in PropertyItems, Placed(c, o),
         o.props[o.k].prop \in {"whiteList", "whiteListContract"}
  PROVE  Reads(c, o, Option(c, o))
<1> DEFINE p == o.props[o.k]
           i == o.chain
           old == c.chains[i]
           with(wl) == [old EXCEPT !.wl = wl]
           d(wl) == [c EXCEPT !.chains[i] = with(wl)]
           r == Option(c, o)
<1>1. r = Property(c, i, o.props, o.k)
  BY DEF Option, PropertyItems
<1>2. p \in ChainProperties
  BY ElementOfSeq DEF PropertyItems, Placed
<1>3. GivesList(o)
  BY DEF GivesList
<1>4. i \in DOMAIN c.chains /\ old \in ChainRecords
  BY ChainIs DEF Placed
<1>5. ASSUME NEW wl \in WhiteLists \union {None}
      PROVE  Becomes(c, d(wl), i) /\ d(wl).chains[i].wl = wl
  <2>1. /\ with(wl) \in ChainRecords /\ with(wl).id = old.id /\ with(wl).nodes = old.nodes
        /\ with(wl).weights = old.weights /\ with(wl).wl = wl
    <3> HIDE DEF old
    <3> QED BY <1>4, <1>5 DEF ChainRecords
  <2>2. d(wl).chains[i] = with(wl)
    BY <1>4 DEF ClientRecords
  <2> HIDE DEF with
  <2>3. Becomes(c, d(wl), i)
    BY <1>4, <2>1, ChainSettingsChange
  <2> QED BY <2>1, <2>2, <2>3
<1>6. Becomes(c, c, i)
  BY SameClient
<1>7. \/ r = Rejected(c)
      \/ p.prop = "whiteListContract" /\ r = Applied(d(Fetched(p.value)))
      \/ p.prop = "whiteList" /\ r = Applied(d(Manual(p.list)))
      \/ p.prop = "whiteList" /\ r = Rejected(d(None))
  BY <1>1 DEF Property, SetWhiteList
<1>8. p.prop = "whiteListContract" => Fetched(p.value) \in WhiteLists
  BY <1>2 DEF ChainProperties, Fetched, WhiteLists
<1>9. p.prop = "whiteList" => Manual(p.list) \in WhiteLists /\ Manual(p.list).contract = None /\ Manual(p.list).list = p.list
  BY <1>2 DEF ChainProperties, Manual, WhiteLists
<1> HIDE DEF d, r, p
<1>10. <<>> \in Seq(Items) /\ DOMAIN <<>> = {}
  OBVIOUS
<1>11. CASE r = Rejected(c)
  <2>1. r.client = c /\ r.items = <<>> /\ r.is = "refused"
    BY <1>11 DEF Rejected
  <2> QED BY <1>3, <1>6, <1>10, <2>1 DEF Reads, UnderWay, r
<1>12. CASE p.prop = "whiteListContract" /\ r = Applied(d(Fetched(p.value)))
  <2>1. r.client = d(Fetched(p.value)) /\ r.items = <<>> /\ r.is = UnderWay
    BY <1>12 DEF Applied, Read
  <2>2. Becomes(c, r.client, i)
    BY <1>5, <1>8, <1>12, <2>1
  <2> QED BY <1>3, <1>10, <1>12, <2>1, <2>2 DEF Reads, r, p
<1>13. CASE p.prop = "whiteList" /\ r = Applied(d(Manual(p.list)))
  <2>1. r.client = d(Manual(p.list)) /\ r.items = <<>> /\ r.is = UnderWay
    BY <1>13 DEF Applied, Read
  <2>2. Becomes(c, r.client, i) /\ r.client.chains[i].wl = Manual(p.list)
    BY <1>5, <1>9, <1>13, <2>1
  <2> QED BY <1>3, <1>9, <1>10, <1>13, <2>1, <2>2 DEF Reads, r, p
<1>14. CASE p.prop = "whiteList" /\ r = Rejected(d(None))
  <2>1. r.client = d(None) /\ r.items = <<>> /\ r.is = "refused"
    BY <1>14 DEF Rejected
  <2>2. Becomes(c, r.client, i)
    BY <1>5, <2>1
  <2> QED BY <1>3, <1>10, <2>1, <2>2 DEF Reads, UnderWay, r
<1> QED BY <1>7, <1>11, <1>12, <1>13, <1>14 DEF r

\* verifiedHashes: the chain's hashes.
LEMMA VerifiedHashesRead ==
  ASSUME NEW c \in ClientRecords, Sound(c), NEW o \in PropertyItems, Placed(c, o),
         o.props[o.k].prop = "verifiedHashes"
  PROVE  Reads(c, o, Option(c, o))
<1> DEFINE p == o.props[o.k]
           i == o.chain
           prior == c.chains[i]
           old == prior.hashes
           new == [k \in 1 .. c.max |-> IF k <= Len(p.numbers) THEN p.numbers[k] ELSE Unused]
           hs == IF old = None THEN new ELSE new \o SubSeq(old, c.max + 1, Len(old))
           ch == [prior EXCEPT !.hashes = hs]
           d == [c EXCEPT !.chains[i] = ch]
<1>1. \/ Option(c, o) = Rejected(c)
      \/ Option(c, o) = Broken(c)
      \/ Option(c, o) = Applied(d) /\ (old # None => ~ (Len(old) < c.max))
  <2>1. Option(c, o) = Property(c, i, o.props, o.k)
    BY DEF Option, PropertyItems
  <2>2. Option(c, o) = VerifiedHashes(c, i, p.numbers)
    BY <2>1 DEF Property
  <2> HIDE DEF p
  <2> QED BY <2>2 DEF VerifiedHashes
<1>2. p \in ChainProperties
  BY ElementOfSeq DEF PropertyItems, Placed
<1>3. ~ GivesList(o)
  BY DEF GivesList
<1>4. i \in DOMAIN c.chains /\ prior \in ChainRecords
  BY ChainIs DEF Placed
<1>5. Becomes(c, c, 0)
  BY SameClient
<1>6. p.numbers \in Seq(Nat)
  BY <1>2 DEF ChainProperties
<1>7. c.max \in Nat
  BY DEF ClientRecords
<1> HIDE DEF p, prior
<1>8. old \in Seq(Int) \union {None}
  BY <1>4 DEF ChainRecords
<1>9. new \in Seq(Int)
  <2>1. \A k \in 1 .. c.max : (IF k <= Len(p.numbers) THEN p.numbers[k] ELSE Unused) \in Int
    BY <1>6, <1>7, ElementOfSeq, LenProperties DEF Unused
  <2>2. new \in [1 .. c.max -> Int]
    BY <2>1
  <2> HIDE DEF new
  <2> QED BY <1>7, <2>2, SeqDef
<1> HIDE DEF old, new
<1>10. ASSUME old # None => ~ (Len(old) < c.max) PROVE Becomes(c, d, 0)
  <2>1. hs \in Seq(Int)
    <3>1. CASE old = None
      BY <1>9, <3>1
    <3>2. CASE old # None
      <4>1. old \in Seq(Int) /\ Len(old) \in Nat /\ c.max <= Len(old)
        BY <1>7, <1>8, <1>10, <3>2, LenProperties
      <4>2. SubSeq(old, c.max + 1, Len(old)) \in Seq(Int)
        BY <1>7, <4>1, Part
      <4> QED BY <1>9, <3>2, <4>2, ConcatProperties
    <3> QED BY <3>1, <3>2
  <2> HIDE DEF hs
  <2>2. ch \in ChainRecords /\ ch.id = prior.id /\ ch.nodes = prior.nodes /\ ch.weights = prior.weights /\ ch.wl = prior.wl
    BY <1>4, <2>1 DEF ChainRecords
  <2> HIDE DEF ch
  <2> QED BY <1>4, <2>2, ChainSettingsChange DEF prior
<1> HIDE DEF d
<1> QED BY <1>1, <1>3, <1>5, <1>10, ReadsAtOnce

\* nodeList: the chain has no nodes until its new ones are read.
LEMMA NodeListRead ==
  ASSUME NEW c \in ClientRecords, Sound(c), NEW o \in PropertyItems, Placed(c, o),
         o.props[o.k].prop = "nodeList"
  PROVE  Reads(c, o, Option(c, o))
<1> DEFINE p == o.props[o.k]
           i == o.chain
           ch == Cleared(c.chains[i])
           d == [c EXCEPT !.chains[i] = ch]
           items == [n \in DOMAIN p.entries |-> [opt |-> "node", chain |-> i, n |-> n, entry |-> p.entries[n]]]
<1>1. Option(c, o) = Read(d, items)
  <2>1. Option(c, o) = Property(c, i, o.props, o.k)
    BY DEF Option, PropertyItems
  <2>2. Option(c, o) = NodeList(c, i, p.entries)
    BY <2>1 DEF Property
  <2> HIDE DEF p
  <2> QED BY <2>2 DEF NodeList
<1>2. p \in ChainProperties
  BY ElementOfSeq DEF PropertyItems, Placed
<1>3. ~ GivesList(o)
  BY DEF GivesList
<1>4. i \in DOMAIN c.chains /\ c.chains[i] \in ChainRecords /\ i \in Nat
  BY ChainIs DEF Placed, PropertyItems
<1>5. p.entries \in Seq([address : Addresses, url : NodeUrls \union {None}])
  BY <1>2 DEF ChainProperties
<1> HIDE DEF p
<1>6. ch \in ChainRecords /\ Matched(ch) /\ ch.id = c.chains[i].id /\ ch.wl = c.chains[i].wl
  BY <1>4, ClearedIsMatched
<1> HIDE DEF ch
<1>7. Becomes(c, d, 0) /\ DOMAIN d.chains = DOMAIN c.chains
  BY <1>4, <1>6, ChainNodesChange, ChainReplaced
<1> HIDE DEF d
<1>8. DOMAIN p.entries = 1 .. Len(p.entries) /\ Len(p.entries) \in Nat
  BY <1>5, LenProperties
<1>9. ASSUME NEW n \in DOMAIN p.entries
      PROVE  [opt |-> "node", chain |-> i, n |-> n, entry |-> p.entries[n]] \in NodeItems
  <2>1. p.entries[n] \in [address : Addresses, url : NodeUrls \union {None}]
    BY <1>5, <1>8, ElementOfSeq
  <2>2. n \in Nat
    BY <1>8
  <2> QED BY <1>4, <2>1, <2>2 DEF NodeItems
<1>10. items \in [1 .. Len(p.entries) -> Items]
  BY <1>8, <1>9 DEF Items
<1>11. \A n \in DOMAIN items : Placed(d, items[n])
  <2>1. \A n \in DOMAIN items : items[n].opt = "node" /\ items[n].chain = i
    OBVIOUS
  <2> HIDE DEF items
  <2>2. \A n \in DOMAIN items : items[n] \notin PropertyItems
    BY <2>1 DEF PropertyItems
  <2> QED BY <1>4, <1>7, <2>1, <2>2 DEF Placed
<1> HIDE DEF items
<1>12. items \in Seq(Items)
  BY <1>8, <1>10, SeqDef
<1> QED BY <1>1, <1>3, <1>7, <1>11, <1>12 DEF Reads, Read

\* A node of a nodeList is added, unless its entry is not complete.
LEMMA NodeRead ==
  ASSUME NEW c \in ClientRecords, Sound(c), NEW o \in NodeItems, Placed(c, o)
  PROVE  Reads(c, o, Option(c, o))
<1> DEFINE i == o.chain
           ch == Added(c.chains[i], o.entry.address, o.entry.url)
           d == [c EXCEPT !.chains[i] = ch]
<1>1. ~ GivesList(o)
  BY DEF GivesList, NodeItems, PropertyItems
<1>2. Option(c, o) = ReadNode(c, o)
  BY DEF Option, NodeItems
<1>3. \/ Option(c, o) = Rejected(c)
      \/ o.entry.url # None /\ Option(c, o) \in {Broken(d), Applied(d)}
  BY <1>2 DEF ReadNode
<1>4. i \in DOMAIN c.chains /\ c.chains[i] \in ChainRecords /\ Matched(c.chains[i])
  BY ChainIs DEF Placed
<1>5. o.entry.address \in Addresses /\ o.entry.url \in NodeUrls \union {None}
  BY DEF NodeItems
<1>6. Becomes(c, c, 0)
  BY SameClient
<1>7. ASSUME o.entry.url # None PROVE Becomes(c, d, 0)
  <2>1. ch \in ChainRecords /\ Matched(ch) /\ ch.id = c.chains[i].id /\ ch.wl = c.chains[i].wl
    BY <1>4, <1>5, <1>7, AddedIsMatched
  <2> HIDE DEF ch
  <2> QED BY <1>4, <2>1, ChainNodesChange
<1> HIDE DEF d
<1>8. CASE Option(c, o) = Rejected(c)
  BY <1>1, <1>6, <1>8, ReadsAtOnce
<1>9. CASE o.entry.url # None /\ Option(c, o) \in {Broken(d), Applied(d)}
  BY <1>1, <1>7, <1>9, ReadsAtOnce
<1> QED BY <1>3, <1>8, <1>9

LEMMA EveryItemReads ==
  ASSUME NEW c \in ClientRecords, Sound(c), NEW o \in Items, Placed(c, o)
  PROVE  Reads(c, o, Option(c, o))
<1>1. CASE o \in NodeItems
  BY <1>1, NodeRead
<1>2. CASE o \in PropertyItems
  <2>1. o.props[o.k] \in ChainProperties
    BY <1>2, ElementOfSeq DEF PropertyItems, Placed
  <2>2. o.props[o.k].prop \in {"contract", "whiteListContract", "whiteList", "needsUpdate", "verifiedHashes", "nodeList", "unknown"}
    BY <2>1 DEF ChainProperties
  <2> QED BY <1>2, <2>2, SimplePropertiesRead, WhiteListsRead, VerifiedHashesRead, NodeListRead
<1>3. CASE o \in Options
  <2>1. o.opt \in {"chainId", "signatureCount", "replaceLatestBlock", "maxVerifiedHashes", "limit", "rpc", "server", "unknown"}
    BY <1>3 DEF Options
  <2> QED BY <1>3, <2>1, NumbersRead, MaxVerifiedHashesRead, RpcRead, ServerRead
<1> QED BY <1>1, <1>2, <1>3 DEF Items

-----------------------------------------------------------------------------
(* A new client.                                                           *)

ChainDefaults == [id : ChainIds, contract : Contracts, nodes : Seq(Addresses), wl : Contracts \union {None}]

LEMMA NewChainIsMatched ==
  ASSUME NEW d \in ChainDefaults, IsInjective(d.nodes)
  PROVE  NewChain(d) \in ChainRecords /\ Matched(NewChain(d)) /\ NewChain(d).id = d.id
<1> DEFINE url == CHOOSE u \in NodeUrls : TRUE
           ns == [i \in DOMAIN d.nodes |-> Node(d.nodes[i], url, i - 1)]
           ws == [i \in DOMAIN d.nodes |-> Weight(d.nodes[i])]
           list == IF d.wl = None THEN None ELSE Fetched(d.wl)
           n == Len(d.nodes)
<1>1. NewChain(d) = [id |-> d.id, contract |-> d.contract, nodes |-> ns, weights |-> ws, wl |-> list,
                     updates |-> TRUE, hashes |-> None]
  BY DEF NewChain
<1>2. d.nodes \in Seq(Addresses) /\ DOMAIN d.nodes = 1 .. n /\ n \in Nat
  BY LenProperties DEF ChainDefaults
<1>3. url \in NodeUrls
  BY ConfigAssumption
<1> HIDE DEF url
<1>4. \A i \in 1 .. n : d.nodes[i] \in Addresses /\ i - 1 \in Nat
  BY <1>2, ElementOfSeq
<1>5. \A i \in 1 .. n : /\ Node(d.nodes[i], url, i - 1) \in NodeRecords
                        /\ Node(d.nodes[i], url, i - 1).address = d.nodes[i]
  BY <1>3, <1>4 DEF Node, NodeRecords
<1>6. \A i \in 1 .. n : /\ Weight(d.nodes[i]) \in WeightRecords
                        /\ Weight(d.nodes[i]).of = d.nodes[i]
  BY <1>4 DEF Weight, WeightRecords
<1>7. ns \in [1 .. n -> NodeRecords] /\ ws \in [1 .. n -> WeightRecords]
  BY <1>2, <1>5, <1>6
<1>8. list \in WhiteLists \union {None}
  BY DEF ChainDefaults, Fetched, WhiteLists
<1>9. \A i \in 1 .. n : ns[i].address = d.nodes[i] /\ ws[i].of = d.nodes[i]
  BY <1>2, <1>5, <1>6
<1> HIDE DEF ns, ws, list, n
<1>10. ns \in Seq(NodeRecords) /\ ws \in Seq(WeightRecords) /\ Len(ns) = n /\ Len(ws) = n
  BY <1>2, <1>7, SeqDef, LenProperties
<1>11. NewChain(d) \in ChainRecords
  BY <1>1, <1>8, <1>10 DEF ChainRecords, ChainDefaults
<1>12. \A i, j \in 1 .. n : ns[i].address = ns[j].address => i = j
  BY <1>2, <1>9 DEF IsInjective
<1>13. Matched(NewChain(d))
  BY <1>1, <1>7, <1>9, <1>10, <1>12 DEF Matched
<1> QED BY <1>1, <1>11, <1>13

LEMMA NewClientIsSound ==
  ASSUME NEW s \in Seq(ChainDefaults), Len(s) > 0,
         \A i, j \in DOMAIN s : s[i].id = s[j].id => i = j,
         \A i \in DOMAIN s : IsInjective(s[i].nodes),
         \E i \in DOMAIN s : s[i].id = (IF Len(s) = 1 THEN s[1].id ELSE Defaults[1].id)
  PROVE  /\ NewClient(s) \in ClientRecords /\ Sound(NewClient(s))
         /\ FindChain(NewClient(s), NewClient(s).chain) # 0 /\ NewClient(s).signatures = 0
<1> DEFINE c == NewClient(s)
           n == Len(s)
           id == IF Len(s) = 1 THEN s[1].id ELSE Defaults[1].id
           chs == [i \in DOMAIN s |-> NewChain(s[i])]
           ls == [l \in DOMAIN LimitSizes |-> 0]
<1>1. c = [chain |-> id, chains |-> chs, max |-> FirstMax, signatures |-> 0, depth |-> 0, proof |-> TRUE, limits |-> ls]
  BY DEF NewClient
<1>2. DOMAIN s = 1 .. n /\ n \in Nat /\ \A i \in 1 .. n : s[i] \in ChainDefaults
  BY LenProperties, ElementOfSeq
<1>3. \A i \in 1 .. n : NewChain(s[i]) \in ChainRecords /\ Matched(NewChain(s[i])) /\ NewChain(s[i]).id = s[i].id
  BY <1>2, NewChainIsMatched
<1>4. /\ chs \in [1 .. n -> ChainRecords]
      /\ \A i \in 1 .. n : chs[i] \in ChainRecords /\ Matched(chs[i]) /\ chs[i].id = s[i].id
  BY <1>2, <1>3
<1>5. ls \in [DOMAIN LimitSizes -> Nat] /\ \A l \in DOMAIN LimitSizes : ls[l] < LimitSizes[l]
  BY ConfigAssumption
<1>6. PICK i \in 1 .. n : s[i].id = id
  BY <1>2
<1>7. id \in ChainIds
  BY <1>2, <1>6 DEF ChainDefaults
<1> HIDE DEF chs, ls, id, c, n
<1>8. chs \in Seq(ChainRecords)
  BY <1>2, <1>4, SeqDef
<1>9. c \in ClientRecords
  BY <1>1, <1>5, <1>7, <1>8, ConfigAssumption DEF ClientRecords
<1>10. c.chains = chs /\ c.limits = ls /\ c.chain = id /\ c.signatures = 0 /\ DOMAIN chs = 1 .. n
  BY <1>1, <1>4
<1>11. \A j, k \in 1 .. n : chs[j].id = chs[k].id => j = k
  BY <1>2, <1>4
<1>12. Sound(c)
  BY <1>4, <1>5, <1>10, <1>11 DEF Sound
<1>13. FindChain(c, c.chain) # 0
  <2>1. i \in DOMAIN c.chains /\ c.chains[i].id = c.chain
    BY <1>4, <1>6, <1>10
  <2> QED BY <1>9, <2>1, FindChainFinds
<1> QED BY <1>9, <1>10, <1>12, <1>13 DEF c

LEMMA ConfigInitInv == ConfigInit => ConfigInv
<1> SUFFICES ASSUME ConfigInit PROVE ConfigInv
  OBVIOUS
<1>1. /\ Defaults \in Seq(ChainDefaults) /\ Len(Defaults) > 0
      /\ \A i, j \in DOMAIN Defaults : Defaults[i].id = Defaults[j].id => i = j
      /\ \A i \in DOMAIN Defaults : IsInjective(Defaults[i].nodes)
  BY ConfigAssumption DEF ChainDefaults
<1>2. DOMAIN Defaults = 1 .. Len(Defaults) /\ Len(Defaults) \in Nat /\ 1 \in DOMAIN Defaults
  BY <1>1, LenProperties
<1>3. \E s \in Seq(ChainDefaults) :
        /\ client = NewClient(s) /\ Len(s) > 0
        /\ \A i, j \in DOMAIN s : s[i].id = s[j].id => i = j
        /\ \A i \in DOMAIN s : IsInjective(s[i].nodes)
        /\ \E i \in DOMAIN s : s[i].id = (IF Len(s) = 1 THEN s[1].id ELSE Defaults[1].id)
  <2>1. PICK chains \in {Defaults} \union {<<Defaults[i]>> : i \in DOMAIN Defaults} : client = NewClient(chains)
    BY DEF ConfigInit
  <2>2. CASE chains = Defaults
    BY <1>1, <1>2, <2>1, <2>2
  <2>3. CASE chains \in {<<Defaults[i]>> : i \in DOMAIN Defaults}
    <3>1. PICK i \in DOMAIN Defaults : chains = <<Defaults[i]>>
      BY <2>3
    <3>2. Defaults[i] \in ChainDefaults
      BY <1>1, ElementOfSeq
    <3>3. chains \in Seq(ChainDefaults) /\ Len(chains) = 1 /\ DOMAIN chains = {1} /\ chains[1] = Defaults[i]
      BY <3>1, <3>2
    <3>4. \A j \in DOMAIN chains : IsInjective(chains[j].nodes)
      BY <1>1, <3>3
    <3>5. \A j, k \in DOMAIN chains : chains[j].id = chains[k].id => j = k
      BY <3>3
    <3>6. \E j \in DOMAIN chains : chains[j].id = (IF Len(chains) = 1 THEN chains[1].id ELSE Defaults[1].id)
      BY <3>3
    <3>7. Len(chains) > 0
      BY <3>3
    <3> QED BY <2>1, <3>3, <3>4, <3>5, <3>6, <3>7
  <2> QED BY <2>1, <2>2, <2>3
<1>4. client \in ClientRecords /\ Sound(client) /\ FindChain(client, client.chain) # 0 /\ client.signatures = 0
  BY <1>3, NewClientIsSound
<1>5. todo = <<>> /\ configured = "done" /\ byHand = <<>>
  BY DEF ConfigInit
<1>6. todo \in Seq(Items) /\ DOMAIN todo = {} /\ DOMAIN byHand = {}
  BY <1>5
<1>7. HandsHold(client, byHand)
  BY <1>6 DEF HandsHold
<1>8. ConfiguredIsUsable
  BY <1>4 DEF ConfiguredIsUsable
<1> QED BY <1>4, <1>5, <1>6, <1>7, <1>8 DEF ConfigInv

-----------------------------------------------------------------------------
(* The steps.                                                              *)

\* A white list given by hand holds also where one that is not from a contract stays as it is.
LEMMA HandsStayOn ==
  ASSUME NEW c \in ClientRecords, NEW d \in ClientRecords, NEW hands, NEW k,
         Keeps(c, d), KeepsLists(c, d, k), HandsHold(c, hands),
         (k \in DOMAIN c.chains /\ c.chains[k].wl \in WhiteLists /\ c.chains[k].wl.contract = None) =>
           d.chains[k].wl \in WhiteLists /\ d.chains[k].wl.contract = None /\ d.chains[k].wl.list = c.chains[k].wl.list
  PROVE  HandsHold(d, hands)
<1>1. /\ DOMAIN c.chains = 1 .. Len(c.chains) /\ Len(c.chains) \in Nat
      /\ DOMAIN d.chains = 1 .. Len(d.chains) /\ Len(d.chains) \in Nat
  BY LenProperties DEF ClientRecords
<1>2. \A i \in DOMAIN c.chains : i \in DOMAIN d.chains
  BY <1>1 DEF Keeps
<1> SUFFICES ASSUME NEW id \in DOMAIN hands
             PROVE  \E i \in DOMAIN d.chains : /\ d.chains[i].id = id /\ d.chains[i].wl \in WhiteLists
                                               /\ d.chains[i].wl.contract = None /\ d.chains[i].wl.list = hands[id]
  BY DEF HandsHold
<1>3. PICK i \in DOMAIN c.chains : /\ c.chains[i].id = id /\ c.chains[i].wl \in WhiteLists
                                   /\ c.chains[i].wl.contract = None /\ c.chains[i].wl.list = hands[id]
  BY DEF HandsHold
<1>4. /\ d.chains[i].id = id /\ d.chains[i].wl \in WhiteLists
      /\ d.chains[i].wl.contract = None /\ d.chains[i].wl.list = hands[id]
  <2>1. CASE i = k
    BY <1>3, <2>1 DEF Keeps
  <2>2. CASE i # k
    BY <1>3, <2>2 DEF Keeps, KeepsLists
  <2> QED BY <2>1, <2>2
<1> QED BY <1>2, <1>4

\* What is left to read stays about chains that are there.
LEMMA StaysPlaced ==
  ASSUME NEW c \in ClientRecords, NEW d \in ClientRecords, Keeps(c, d), NEW o, Placed(c, o)
  PROVE  Placed(d, o)
<1>1. /\ DOMAIN c.chains = 1 .. Len(c.chains) /\ Len(c.chains) \in Nat
      /\ DOMAIN d.chains = 1 .. Len(d.chains) /\ Len(d.chains) \in Nat
  BY LenProperties DEF ClientRecords
<1>2. \A i \in DOMAIN c.chains : i \in DOMAIN d.chains
  BY <1>1 DEF Keeps
<1> QED BY <1>2 DEF Placed

\* A usable client stays usable as long as its settings do.
LEMMA StaysUsable ==
  ASSUME NEW c \in ClientRecords, NEW d \in ClientRecords, Keeps(c, d),
         d.chain = c.chain, FindChain(c, c.chain) # 0
  PROVE  FindChain(d, d.chain) # 0
<1>1. /\ DOMAIN c.chains = 1 .. Len(c.chains) /\ Len(c.chains) \in Nat
      /\ DOMAIN d.chains = 1 .. Len(d.chains) /\ Len(d.chains) \in Nat
  BY LenProperties DEF ClientRecords
<1>2. PICK i \in DOMAIN c.chains : c.chains[i].id = c.chain
  BY FindChainFinds
<1>3. i \in DOMAIN d.chains /\ d.chains[i].id = d.chain
  BY <1>1, <1>2 DEF Keeps
<1> QED BY <1>3, FindChainFinds

\* The functions other than in3_configure change chains only.
LEMMA ChainsChange ==
  ASSUME ConfigInv, NEW k, Becomes(client, client', k),
         client'.chain = client.chain, client'.signatures = client.signatures, client'.depth = client.depth,
         UNCHANGED <<todo, configured>>, HandsHold(client', byHand')
  PROVE  ConfigInv'
<1>1. client' \in ClientRecords /\ Sound(client') /\ Keeps(client, client')
  BY DEF Becomes
<1>2. todo' \in Seq(Items) /\ \A n \in DOMAIN todo' : Placed(client', todo'[n])
  BY <1>1, StaysPlaced DEF ConfigInv
<1>3. ConfiguredIsUsable'
  <2> SUFFICES ASSUME configured' = "done"
               PROVE  /\ FindChain(client', client'.chain) # 0
                      /\ client'.signatures > 0 => client'.chain = Local \/ client'.depth > 0
    BY DEF ConfiguredIsUsable
  <2>1. /\ FindChain(client, client.chain) # 0
        /\ client.signatures > 0 => client.chain = Local \/ client.depth > 0
    BY DEF ConfigInv, ConfiguredIsUsable
  <2> QED BY <1>1, <2>1, StaysUsable DEF ConfigInv
<1> QED BY <1>1, <1>2, <1>3 DEF ConfigInv

\* One chain is replaced, and the hands stay.
LEMMA OneChainChanges ==
  ASSUME ConfigInv, NEW i \in DOMAIN client.chains, NEW ch \in ChainRecords, Matched(ch), ch.id = client.chains[i].id,
         client' = [client EXCEPT !.chains[i] = ch], UNCHANGED <<todo, configured, byHand>>,
         (client.chains[i].wl \in WhiteLists /\ client.chains[i].wl.contract = None) =>
           ch.wl \in WhiteLists /\ ch.wl.contract = None /\ ch.wl.list = client.chains[i].wl.list
  PROVE  ConfigInv'
<1>1. client \in ClientRecords /\ Sound(client) /\ HandsHold(client, byHand)
  BY DEF ConfigInv
<1>2. /\ client' \in ClientRecords /\ Sound(client') /\ Keeps(client, client') /\ KeepsLists(client, client', i)
      /\ client'.chains[i] = ch
      /\ client'.chain = client.chain /\ client'.signatures = client.signatures /\ client'.depth = client.depth
  BY <1>1, ChainReplaced
<1>3. HandsHold(client', byHand)
  BY <1>1, <1>2, HandsStayOn
<1>4. Becomes(client, client', i)
  BY <1>2 DEF Becomes
<1> QED BY <1>2, <1>3, <1>4, ChainsChange

LEMMA ConfigureStep ==
  ASSUME ConfigInv, NEW options \in Configs, Configure(options)
  PROVE  ConfigInv'
<1>1. client' = client /\ byHand' = byHand /\ todo' = options /\ configured' = UnderWay
  BY DEF Configure
<1>2. options \in Seq(Options)
  BY ConfigAssumption
<1>3. \A n \in DOMAIN options : options[n] \in Options
  BY <1>2, ElementOfSeq, LenProperties
<1>4. todo' \in Seq(Items)
  <2>1. options \in [1 .. Len(options) -> Items] /\ Len(options) \in Nat
    BY <1>2, <1>3, LenProperties DEF Items
  <2> QED BY <1>1, <2>1, SeqDef
<1>5. \A n \in DOMAIN todo' : Placed(client', todo'[n])
  BY <1>1, <1>3, OptionsGiveNoList DEF Placed
<1>6. ConfiguredIsUsable'
  BY <1>1 DEF ConfiguredIsUsable, UnderWay
<1> QED BY <1>1, <1>4, <1>5, <1>6 DEF ConfigInv

LEMMA ReadNextStep ==
  ASSUME ConfigInv, ReadNext
  PROVE  ConfigInv'
<1> DEFINE o == Head(todo)
           r == Option(client, o)
           k == IF GivesList(o) THEN o.chain ELSE 0
<1>1. client \in ClientRecords /\ Sound(client) /\ HandsHold(client, byHand) /\ todo \in Seq(Items) /\ todo # <<>>
  BY DEF ConfigInv, ReadNext
<1>2. Len(todo) \in Nat \ {0} /\ 1 \in DOMAIN todo /\ DOMAIN todo = 1 .. Len(todo)
  BY <1>1, EmptySeq, LenProperties
<1>3. o \in Items /\ o = todo[1] /\ Tail(todo) \in Seq(Items)
  BY <1>1, <1>2, ElementOfSeq, HeadTailProperties
<1>4. Placed(client, o)
  BY <1>2, <1>3 DEF ConfigInv
<1> HIDE DEF o
<1>5. Reads(client, o, r)
  BY <1>1, <1>3, <1>4, EveryItemReads
<1>6. /\ client' = r.client /\ configured' = r.is
      /\ todo' = IF r.is = UnderWay THEN r.items \o Tail(todo) ELSE <<>>
      /\ byHand' = Hands(o, r.is = UnderWay)
  BY DEF ReadNext, o
<1> HIDE DEF r
<1>7. client' \in ClientRecords /\ Sound(client') /\ Keeps(client, client') /\ KeepsLists(client, client', k)
  BY <1>5, <1>6 DEF Reads, Becomes
<1>8. configured' \in {"refused", UnderWay, Wild}
  BY <1>5, <1>6 DEF Reads
<1>9. todo' \in Seq(Items) /\ \A n \in DOMAIN todo' : Placed(client', todo'[n])
  <2>1. CASE r.is # UnderWay
    BY <1>6, <2>1
  <2>2. CASE r.is = UnderWay
    <3>1. r.items \in Seq(Items) /\ \A n \in DOMAIN r.items : Placed(client', r.items[n])
      BY <1>5, <1>6 DEF Reads
    <3>2. \A n \in 1 .. Len(Tail(todo)) : Placed(client', Tail(todo)[n])
      <4> SUFFICES ASSUME NEW n \in 1 .. Len(Tail(todo)) PROVE Placed(client', Tail(todo)[n])
        OBVIOUS
      <4>1. Len(Tail(todo)) = Len(todo) - 1 /\ Tail(todo)[n] = todo[n + 1]
        BY <1>1, <1>2, HeadTailProperties
      <4>2. n + 1 \in DOMAIN todo
        BY <1>2, <4>1
      <4>3. Placed(client, todo[n + 1])
        BY <4>2 DEF ConfigInv
      <4> QED BY <1>1, <1>7, <4>1, <4>3, StaysPlaced
    <3>3. /\ todo' = r.items \o Tail(todo) /\ todo' \in Seq(Items)
          /\ Len(todo') = Len(r.items) + Len(Tail(todo))
          /\ \A n \in 1 .. Len(r.items) + Len(Tail(todo)) :
               todo'[n] = IF n <= Len(r.items) THEN r.items[n] ELSE Tail(todo)[n - Len(r.items)]
      BY <1>3, <1>6, <2>2, <3>1, ConcatProperties
    <3>4. /\ DOMAIN todo' = 1 .. Len(todo') /\ DOMAIN r.items = 1 .. Len(r.items)
          /\ Len(r.items) \in Nat /\ Len(Tail(todo)) \in Nat
      BY <1>3, <3>1, <3>3, LenProperties
    <3> HIDE DEF Placed
    <3>5. ASSUME NEW n \in DOMAIN todo' PROVE Placed(client', todo'[n])
      <4>1. CASE n <= Len(r.items)
        <5>1. n \in DOMAIN r.items /\ todo'[n] = r.items[n]
          BY <3>3, <3>4, <4>1
        <5> QED BY <3>1, <5>1
      <4>2. CASE ~ (n <= Len(r.items))
        <5>1. n - Len(r.items) \in 1 .. Len(Tail(todo)) /\ todo'[n] = Tail(todo)[n - Len(r.items)]
          BY <3>3, <3>4, <4>2
        <5> QED BY <3>2, <5>1
      <4> QED BY <4>1, <4>2
    <3> QED BY <3>3, <3>5
  <2> QED BY <2>1, <2>2
<1>10. HandsHold(client', byHand')
  <2>1. CASE ~ GivesList(o)
    <3>1. byHand' = byHand
      <4>1. o.opt = "property" => o \in PropertyItems
        BY <1>3 DEF Items, Options, NodeItems
      <4> QED BY <1>6, <2>1, <4>1 DEF Hands, GivesList
    <3>2. k = 0 /\ k \notin DOMAIN client.chains
      BY <1>1, <2>1, ChainIs
    <3> HIDE DEF k
    <3> QED BY <1>1, <1>7, <3>1, <3>2, HandsStayOn
  <2>2. CASE GivesList(o)
    <3> DEFINE p == o.props[o.k]
               id == client.chains[o.chain].id
               kept == r.is = UnderWay /\ p.prop = "whiteList"
               less == [x \in DOMAIN byHand \ {id} |-> byHand[x]]
    <3>1. o.opt = "property" /\ p.prop \in {"whiteList", "whiteListContract"} /\ o.chain \in DOMAIN client.chains
      BY <1>4, <2>2 DEF GivesList, PropertyItems, Placed
    <3>2. byHand' = IF kept THEN [x \in DOMAIN byHand \union {id} |-> IF x = id THEN p.list ELSE byHand[x]] ELSE less
      BY <1>6, <3>1 DEF Hands, Restrict
    <3>3. k = o.chain
      BY <2>2
    <3>4. HandsHold(client', less)
      <4>1. DOMAIN less \subseteq DOMAIN byHand /\ id \notin DOMAIN less /\ \A x \in DOMAIN less : less[x] = byHand[x]
        OBVIOUS
      <4> HIDE DEF less, k
      <4> QED BY <1>1, <1>7, <3>3, <4>1, HandsStay
    <3>5. CASE ~ kept
      <4>1. byHand' = less
        BY <3>2, <3>5
      <4> QED BY <3>4, <4>1
    <3>6. CASE kept
      <4>1. /\ client'.chains[o.chain].wl \in WhiteLists /\ client'.chains[o.chain].wl.contract = None
            /\ client'.chains[o.chain].wl.list = p.list
        BY <1>5, <1>6, <2>2, <3>6 DEF Reads
      <4>2. o.chain \in DOMAIN client'.chains /\ client'.chains[o.chain].id = id
        <5>1. /\ DOMAIN client.chains = 1 .. Len(client.chains) /\ Len(client.chains) \in Nat
              /\ DOMAIN client'.chains = 1 .. Len(client'.chains) /\ Len(client'.chains) \in Nat
          BY <1>1, <1>7, LenProperties DEF ClientRecords
        <5> QED BY <1>7, <3>1, <5>1 DEF Keeps
      <4>3. DOMAIN byHand' = DOMAIN byHand \union {id} /\ byHand'[id] = p.list
        BY <3>2, <3>6
      <4>4. \A x \in DOMAIN byHand' : x # id => x \in DOMAIN less /\ byHand'[x] = less[x]
        BY <3>2, <3>6, <4>3
      <4> HIDE DEF less, id, p, kept
      <4>5. ASSUME NEW x \in DOMAIN byHand'
            PROVE  \E j \in DOMAIN client'.chains : /\ client'.chains[j].id = x /\ client'.chains[j].wl \in WhiteLists
                                                    /\ client'.chains[j].wl.contract = None /\ client'.chains[j].wl.list = byHand'[x]
        <5>1. CASE x = id
          BY <4>1, <4>2, <4>3, <5>1
        <5>2. CASE x # id
          BY <3>4, <4>4, <5>2 DEF HandsHold
        <5> QED BY <5>1, <5>2
      <4> QED BY <4>5 DEF HandsHold
    <3> QED BY <3>5, <3>6
  <2> QED BY <2>1, <2>2
<1>11. ConfiguredIsUsable'
  BY <1>8 DEF ConfiguredIsUsable, UnderWay, Wild
<1> QED BY <1>7, <1>8, <1>9, <1>10, <1>11 DEF ConfigInv

LEMMA FinishStep ==
  ASSUME ConfigInv, Finish
  PROVE  ConfigInv'
<1> DEFINE asks == client.signatures > 0 /\ client.chain # Local /\ client.depth = 0
<1>1. client \in ClientRecords /\ Sound(client) /\ HandsHold(client, byHand)
  BY DEF ConfigInv
<1>2. client' = IF asks THEN [client EXCEPT !.depth = DefaultDepth] ELSE client
  BY DEF Finish, Completed
<1>3. /\ client' \in ClientRecords /\ client'.chains = client.chains /\ client'.limits = client.limits
      /\ client'.chain = client.chain /\ client'.signatures = client.signatures
      /\ client'.depth = IF asks THEN DefaultDepth ELSE client.depth
  BY <1>1, <1>2, ConfigAssumption DEF ClientRecords
<1>4. Becomes(client, client', 0)
  BY <1>1, <1>3, SettingsChange DEF Sound
<1>5. todo' = todo /\ byHand' = byHand /\ configured' = IF FindChain(client, client.chain) = 0 THEN "refused" ELSE "done"
  BY DEF Finish
<1>6. \A n \in DOMAIN todo' : Placed(client', todo'[n])
  BY <1>3, <1>5 DEF ConfigInv, Placed
<1>7. HandsHold(client', byHand')
  BY <1>1, <1>3, <1>5 DEF HandsHold
<1>8. ConfiguredIsUsable'
  <2> SUFFICES ASSUME configured' = "done"
               PROVE  /\ FindChain(client', client'.chain) # 0
                      /\ client'.signatures > 0 => client'.chain = Local \/ client'.depth > 0
    BY DEF ConfiguredIsUsable
  <2>1. FindChain(client', client'.chain) # 0
    BY <1>1, <1>3, <1>4, <1>5, StaysUsable DEF Becomes
  <2>2. client.depth \in Nat /\ DefaultDepth > 0
    BY <1>1, ConfigAssumption DEF ClientRecords
  <2> QED BY <1>3, <2>1, <2>2
<1> QED BY <1>4, <1>5, <1>6, <1>7, <1>8 DEF ConfigInv, Becomes

LEMMA RegisterChainStep ==
  ASSUME ConfigInv, NEW id \in ChainIds, NEW contract \in Contracts, NEW wl \in Contracts \union {None},
         RegisterChain(id, contract, wl)
  PROVE  ConfigInv'
<1> DEFINE k == FindChain(client, id)
<1>1. client \in ClientRecords /\ Sound(client) /\ HandsHold(client, byHand)
  BY DEF ConfigInv
<1>2. client' = Registered(client, id, contract, wl) /\ UNCHANGED <<todo, configured>>
  BY DEF RegisterChain
<1>3. /\ client' \in ClientRecords /\ Sound(client') /\ Keeps(client, client') /\ KeepsLists(client, client', k)
      /\ client'.chain = client.chain /\ client'.signatures = client.signatures /\ client'.depth = client.depth
  BY <1>1, <1>2, RegisteredIsSound
<1>4. byHand' = [x \in DOMAIN byHand \ {id} |-> byHand[x]]
  BY DEF RegisterChain, Restrict
<1>5. DOMAIN byHand' \subseteq DOMAIN byHand /\ id \notin DOMAIN byHand' /\ \A x \in DOMAIN byHand' : byHand'[x] = byHand[x]
  BY <1>4
<1>6. k \in DOMAIN client.chains => client.chains[k].id \notin DOMAIN byHand'
  <2>1. k \in DOMAIN client.chains => k # 0
    BY <1>1, ChainIs
  <2> QED BY <1>1, <1>5, <2>1, FindChainFinds
<1> HIDE DEF k
<1>7. HandsHold(client', byHand')
  BY <1>1, <1>3, <1>5, <1>6, HandsStay
<1>8. Becomes(client, client', k)
  BY <1>3 DEF Becomes
<1> QED BY <1>2, <1>3, <1>7, <1>8, ChainsChange

LEMMA ChainSteps ==
  ASSUME ConfigInv, NEW i \in DOMAIN client.chains,
         \/ \E address \in Addresses, url \in NodeUrls : AddNode(i, address, url)
         \/ \E address \in Addresses : RemoveNode(i, address)
         \/ ClearNodes(i)
         \/ \E k \in DOMAIN client.chains[i].nodes : Blacklist(i, k)
         \/ AnnounceWhiteList(i)
         \/ \E address \in Addresses : FetchWhiteList(i, <<address>>)
  PROVE  ConfigInv'
<1> DEFINE old == client.chains[i]
<1>1. client \in ClientRecords /\ Sound(client) /\ old \in ChainRecords /\ Matched(old)
  BY ChainIs DEF ConfigInv
<1>2. ASSUME NEW address \in Addresses, NEW url \in NodeUrls, AddNode(i, address, url) PROVE ConfigInv'
  <2> DEFINE ch == Added(old, address, url)
  <2>1. client' = [client EXCEPT !.chains[i] = ch] /\ UNCHANGED <<todo, configured, byHand>>
    BY <1>2 DEF AddNode
  <2>2. ch \in ChainRecords /\ Matched(ch) /\ ch.id = old.id /\ ch.wl = old.wl
    BY <1>1, AddedIsMatched
  <2> HIDE DEF ch
  <2> QED BY <2>1, <2>2, OneChainChanges
<1>3. ASSUME NEW address \in Addresses, RemoveNode(i, address) PROVE ConfigInv'
  <2> DEFINE m == FindNode(old, address)
             ch == Removed(old, m)
  <2>1. client' = [client EXCEPT !.chains[i] = ch] /\ UNCHANGED <<todo, configured, byHand>> /\ m # 0
    BY <1>3 DEF RemoveNode
  <2>2. m \in DOMAIN old.nodes
    BY <1>1, <2>1, FindNodeFinds
  <2>3. ch \in ChainRecords /\ Matched(ch) /\ ch.id = old.id /\ ch.wl = old.wl
    BY <1>1, <2>2, RemovedIsMatched
  <2> HIDE DEF ch
  <2> QED BY <2>1, <2>3, OneChainChanges
<1>4. ASSUME ClearNodes(i) PROVE ConfigInv'
  <2> DEFINE ch == Cleared(old)
  <2>1. client' = [client EXCEPT !.chains[i] = ch] /\ UNCHANGED <<todo, configured, byHand>>
    BY <1>4 DEF ClearNodes
  <2>2. ch \in ChainRecords /\ Matched(ch) /\ ch.id = old.id /\ ch.wl = old.wl
    BY <1>1, ClearedIsMatched
  <2> HIDE DEF ch
  <2> QED BY <2>1, <2>2, OneChainChanges
<1>5. ASSUME NEW k \in DOMAIN old.nodes, Blacklist(i, k) PROVE ConfigInv'
  <2> DEFINE ws == [old.weights EXCEPT ![k] = [@ EXCEPT !.blacklisted = TRUE]]
             ch == [old EXCEPT !.weights = ws]
  <2>1. UNCHANGED <<todo, configured, byHand>>
    BY <1>5 DEF Blacklist
  <2>2. client' = [client EXCEPT !.chains[i] = ch]
    BY <1>1, <1>5 DEF Blacklist, ChainRecords
  <2> HIDE DEF old
  <2>3. /\ old.weights \in Seq(WeightRecords) /\ DOMAIN old.weights = 1 .. Len(old.weights) /\ Len(old.weights) \in Nat
        /\ DOMAIN old.nodes = 1 .. Len(old.nodes) /\ Len(old.weights) = Len(old.nodes)
    BY <1>1, LenProperties DEF ChainRecords, Matched
  <2>4. old.weights[k] \in WeightRecords /\ k \in 1 .. Len(old.weights)
    BY <2>3, ElementOfSeq
  <2>5. [old.weights[k] EXCEPT !.blacklisted = TRUE] \in WeightRecords
    BY <2>4 DEF WeightRecords
  <2>6. ws \in Seq(WeightRecords) /\ Len(ws) = Len(old.weights)
    BY <2>3, <2>4, <2>5, ExceptSeq
  <2>7. \A m \in DOMAIN old.nodes : ws[m].of = old.weights[m].of
    BY <2>3, <2>4 DEF WeightRecords
  <2> HIDE DEF ws
  <2>8. ch \in ChainRecords /\ ch.id = old.id /\ ch.wl = old.wl /\ ch.nodes = old.nodes /\ ch.weights = ws
    BY <1>1, <2>6 DEF ChainRecords
  <2>9. Matched(ch)
    <3>1. ch.nodes = old.nodes /\ ch.weights = ws
      BY <2>8
    <3>2. /\ Len(ch.nodes) = Len(old.nodes) /\ Len(ch.weights) = Len(old.weights) /\ DOMAIN ch.nodes = DOMAIN old.nodes
          /\ \A m \in DOMAIN old.nodes : ch.nodes[m].address = old.nodes[m].address /\ ch.weights[m].of = old.weights[m].of
      BY <2>6, <2>7, <3>1
    <3> QED BY <1>1, <3>2, MatchedAlike
  <2> HIDE DEF ch
  <2> QED BY <2>1, <2>2, <2>8, <2>9, OneChainChanges DEF old
<1>6. ASSUME AnnounceWhiteList(i) PROVE ConfigInv'
  <2> DEFINE wl == [old.wl EXCEPT !.update = TRUE]
             ch == [old EXCEPT !.wl = wl]
  <2>1. UNCHANGED <<todo, configured, byHand>> /\ old.wl # None
    BY <1>6 DEF AnnounceWhiteList
  <2>2. client' = [client EXCEPT !.chains[i] = ch]
    BY <1>1, <1>6 DEF AnnounceWhiteList, ChainRecords
  <2> HIDE DEF old
  <2>3. old.wl \in WhiteLists
    BY <1>1, <2>1 DEF ChainRecords
  <2>4. wl \in WhiteLists /\ wl.contract = old.wl.contract /\ wl.list = old.wl.list
    BY <2>3 DEF WhiteLists
  <2> HIDE DEF wl
  <2>5. ch \in ChainRecords /\ ch.id = old.id /\ ch.wl = wl /\ ch.nodes = old.nodes /\ ch.weights = old.weights
    BY <1>1, <2>4 DEF ChainRecords
  <2>6. Matched(ch)
    BY <1>1, <2>5, StaysMatched
  <2> HIDE DEF ch
  <2> QED BY <2>1, <2>2, <2>4, <2>5, <2>6, OneChainChanges DEF old
<1>7. ASSUME NEW address \in Addresses, FetchWhiteList(i, <<address>>) PROVE ConfigInv'
  <2> DEFINE wl == [old.wl EXCEPT !.list = <<address>>, !.update = FALSE]
             ch == [old EXCEPT !.wl = wl]
  <2>1. UNCHANGED <<todo, configured, byHand>> /\ old.wl # None /\ old.wl.contract # None
    BY <1>7 DEF FetchWhiteList
  <2>2. client' = [client EXCEPT !.chains[i] = ch]
    BY <1>1, <1>7 DEF FetchWhiteList, ChainRecords
  <2> HIDE DEF old
  <2>3. old.wl \in WhiteLists /\ <<address>> \in Seq(Addresses)
    BY <1>1, <2>1 DEF ChainRecords
  <2>4. wl \in WhiteLists
    BY <2>3 DEF WhiteLists
  <2> HIDE DEF wl
  <2>5. ch \in ChainRecords /\ ch.id = old.id /\ ch.wl = wl /\ ch.nodes = old.nodes /\ ch.weights = old.weights
    BY <1>1, <2>4 DEF ChainRecords
  <2>6. Matched(ch)
    BY <1>1, <2>5, StaysMatched
  <2> HIDE DEF ch
  <2> QED BY <2>1, <2>2, <2>5, <2>6, OneChainChanges DEF old
<1> QED BY <1>2, <1>3, <1>4, <1>5, <1>6, <1>7

LEMMA VerifyHeaderStep ==
  ASSUME ConfigInv, NEW number \in Heights, VerifyHeader(number)
  PROVE  ConfigInv'
<1> DEFINE i == FindChain(client, client.chain)
           prior == client.chains[i]
           old == prior.hashes
           made == IF old = None THEN [k \in 1 .. client.max |-> Unused] ELSE old
           hs == [made EXCEPT ![1] = number]
           ch == [prior EXCEPT !.hashes = hs]
<1>1. client \in ClientRecords /\ Sound(client)
  BY DEF ConfigInv
<1>2. i # 0 /\ i \in DOMAIN client.chains /\ UNCHANGED <<todo, byHand>>
  BY <1>1, FindChainFinds DEF VerifyHeader
<1>3. CASE Len(made) < client.max \/ client.max = 0
  <2>1. configured' = Wild /\ client' = client
    BY <1>3 DEF VerifyHeader
  <2>2. ConfiguredIsUsable'
    BY <2>1 DEF ConfiguredIsUsable, Wild
  <2>3. \A n \in DOMAIN todo' : Placed(client', todo'[n])
    BY <1>2, <2>1 DEF ConfigInv
  <2>4. HandsHold(client', byHand')
    BY <1>2, <2>1 DEF ConfigInv
  <2> QED BY <1>2, <2>1, <2>2, <2>3, <2>4 DEF ConfigInv
<1>4. CASE ~ (Len(made) < client.max \/ client.max = 0)
  <2>1. configured' = configured
    BY <1>4 DEF VerifyHeader
  <2>2. client' = [client EXCEPT !.chains[i].hashes = hs]
    BY <1>4 DEF VerifyHeader
  <2>3. prior \in ChainRecords /\ Matched(prior) /\ client.max \in Nat /\ number \in Int
    <3>1. prior \in ChainRecords /\ Matched(prior)
      BY <1>1, <1>2, ChainIs
    <3>2. client.max \in Nat
      BY <1>1 DEF ClientRecords
    <3>3. number \in Int
      BY ConfigAssumption
    <3> QED BY <3>1, <3>2, <3>3
  <2>4. old \in Seq(Int) \union {None}
    BY <2>3 DEF ChainRecords
  <2>5. client' = [client EXCEPT !.chains[i] = ch]
    <3> HIDE DEF hs, i
    <3> QED BY <1>2, <2>2 DEF ClientRecords, ChainRecords
  <2> HIDE DEF old
  <2>6. made \in Seq(Int)
    <3>1. [k \in 1 .. client.max |-> Unused] \in [1 .. client.max -> Int]
      BY DEF Unused
    <3>2. [k \in 1 .. client.max |-> Unused] \in Seq(Int)
      BY <2>3, <3>1, SeqDef
    <3> QED BY <2>4, <3>2
  <2> HIDE DEF made
  <2>7. Len(made) \in Nat /\ 1 \in 1 .. Len(made)
    BY <1>4, <2>3, <2>6, LenProperties
  <2>8. hs \in Seq(Int)
    BY <2>3, <2>6, <2>7, ExceptSeq
  <2> HIDE DEF hs, prior
  <2>9. ch \in ChainRecords /\ ch.id = prior.id /\ ch.wl = prior.wl /\ ch.nodes = prior.nodes /\ ch.weights = prior.weights
    BY <2>3, <2>8 DEF ChainRecords
  <2>10. Matched(ch)
    BY <2>3, <2>9, StaysMatched
  <2> HIDE DEF ch, i
  <2> QED BY <1>2, <2>1, <2>5, <2>9, <2>10, OneChainChanges DEF prior
<1> QED BY <1>3, <1>4

LEMMA ConfigStepInv == ConfigInv /\ [ConfigNext]_configVars => ConfigInv'
<1> SUFFICES ASSUME ConfigInv, [ConfigNext]_configVars PROVE ConfigInv'
  OBVIOUS
<1>1. CASE UNCHANGED configVars
  <2>1. UNCHANGED <<client, todo, configured, byHand>>
    BY <1>1 DEF configVars
  <2>2. ConfiguredIsUsable'
    BY <2>1 DEF ConfigInv, ConfiguredIsUsable
  <2>3. HandsHold(client', byHand') /\ \A n \in DOMAIN todo' : Placed(client', todo'[n])
    BY <2>1 DEF ConfigInv
  <2> QED BY <2>1, <2>2, <2>3 DEF ConfigInv
<1>2. CASE Reading
  BY <1>2, ReadNextStep, FinishStep DEF Reading
<1>3. CASE Called
  BY <1>3, ConfigureStep, RegisterChainStep, ChainSteps, VerifyHeaderStep DEF Called
<1> QED BY <1>1, <1>2, <1>3 DEF ConfigNext

LEMMA ConfigInvSuffices == ConfigInv => ClientStaysUsable
<1> SUFFICES ASSUME ConfigInv PROVE ClientStaysUsable
  OBVIOUS
<1>1. client \in ClientRecords /\ Sound(client) /\ HandsHold(client, byHand)
  BY DEF ConfigInv
<1>2. ASSUME NEW i \in DOMAIN client.chains
      PROVE  LET ch == client.chains[i]
             IN  /\ Len(ch.weights) = Len(ch.nodes)
                 /\ ch.wl # None => Range(ch.wl.list) \subseteq Addresses
  <2> DEFINE ch == client.chains[i]
  <2>1. ch \in ChainRecords /\ Matched(ch)
    BY <1>1, ChainIs
  <2> HIDE DEF ch
  <2>2. ASSUME ch.wl # None PROVE Range(ch.wl.list) \subseteq Addresses
    <3>1. ch.wl.list \in Seq(Addresses)
      BY <2>1, <2>2 DEF ChainRecords, WhiteLists
    <3>2. \A n \in DOMAIN ch.wl.list : ch.wl.list[n] \in Addresses
      BY <3>1, ElementOfSeq, LenProperties
    <3> QED BY <3>2 DEF Range
  <2>3. Len(ch.weights) = Len(ch.nodes)
    BY <2>1 DEF Matched
  <2> QED BY <2>2, <2>3 DEF ch
<1>3. ASSUME NEW l \in DOMAIN LimitSizes PROVE client.limits[l] \in 0 .. LimitSizes[l] - 1
  <2>1. client.limits[l] \in Nat /\ LimitSizes[l] \in Nat /\ client.limits[l] < LimitSizes[l]
    BY <1>1, ConfigAssumption DEF ClientRecords, Sound
  <2> QED BY <2>1
<1>4. ConfigTypeOK
  BY <1>1, <1>2, <1>3 DEF ConfigTypeOK, ConfigInv, ClientRecords
<1>5. NodesKeepTheirWeights
  BY <1>1 DEF NodesKeepTheirWeights, Sound, Matched
<1>6. ManualListsStay
  <2> SUFFICES ASSUME NEW id \in DOMAIN byHand
               PROVE  client.chains[FindChain(client, id)].wl.list = byHand[id]
    BY DEF ManualListsStay
  <2>1. PICK i \in DOMAIN client.chains : client.chains[i].id = id /\ client.chains[i].wl.list = byHand[id]
    BY <1>1 DEF HandsHold
  <2>2. FindChain(client, id) \in DOMAIN client.chains /\ client.chains[FindChain(client, id)].id = id
    BY <1>1, <2>1, FindChainFinds
  <2>3. FindChain(client, id) = i
    BY <1>1, <2>1, <2>2 DEF Sound
  <2> QED BY <2>1, <2>3
<1> QED BY <1>4, <1>5, <1>6 DEF ClientStaysUsable, ConfigInv

\* In whatever order in3_configure, in3_client_register_chain, in3_client_add_node and the other
\* functions are called, with whatever options, refused or not, and whatever lists are fetched
\* meanwhile: a node's blacklisting never falls on another node, a white list given by hand stays,
\* and a client configured without an error can send its requests.
THEOREM ClientsStayUsable == ConfigSpec => []ClientStaysUsable
<1>1. ConfigInit => ConfigInv
  BY ConfigInitInv
<1>2. ConfigInv /\ [ConfigNext]_configVars => ConfigInv'
  BY ConfigStepInv
<1>3. ConfigInv => ClientStaysUsable
  BY ConfigInvSuffices
<1> QED BY <1>1, <1>2, <1>3, PTL DEF ConfigSpec
=============================================================================
