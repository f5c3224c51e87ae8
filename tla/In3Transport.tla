---------------------------- MODULE In3Transport -----------------------------
(***************************************************************************)
(* The transports of in3-c: one call sends a request to every url and        *)
(* collects a result or an error for each.  transport/curl/in3_curl.c does    *)
(* so with libcurl's multi interface, at most MaxParallel urls at a time;     *)
(* transport/http/in3_http.c takes one url after the other and speaks HTTP    *)
(* itself.  A node's answer is a sequence of pieces that arrive one by one    *)
(* and may end early; of an HTTP answer the first are its version, its        *)
(* status, the other headers and the empty line.                             *)
(***************************************************************************)
EXTENDS In3None, Integers, Sequences, SequencesExt

CONSTANTS
  Pieces,               \* what may arrive at a time
  CurlSends, HttpSends, \* what the nodes of a request send, url by url
  MaxParallel,          \* CURL_MAX_PARALLEL
  Full,                 \* pieces that fill the buffer of in3_http.c, less one
  Timeouts              \* req->timeout, in milliseconds

\* A request goes to at least one url, and curl begins with at least one.  None is no way for a
\* connection to end.
TransportConstants ==
  /\ CurlSends \subseteq Seq(Seq(Pieces)) \ {<<>>} /\ HttpSends \subseteq Seq(Seq(Pieces)) \ {<<>>}
  /\ MaxParallel \in Nat \ {0} /\ Timeouts \subseteq Nat
  /\ None \notin {"ended", "failed"}

ASSUME TransportAssumption == TransportConstants

VARIABLES
  via,        \* "curl" or "http"
  sends,      \* what node i sends
  arrived,    \* how much of it has arrived
  closed,     \* None, "ended" or "failed": the connection's end
  seconds,    \* CURLOPT_TIMEOUT: whole seconds, of which none is no timeout
  taken,      \* pieces taken from the connection
  conn,       \* "none", "open", "done" (its message waits) or "removed"
  results,    \* req->results: [text, error]
  transfers,  \* curl: urls begun; http: the url at hand
  alive,      \* still_alive of the last curl_multi_perform
  at

transportVars == <<via, sends, arrived, closed, seconds, taken, conn, results, transfers, alive, at>>
given == <<via, sends, seconds>>
network == <<arrived, closed>>

Urls == DOMAIN sends
Some == {i \in Urls : conn[i] = "open"}
-----------------------------------------------------------------------------
(* The network *)

Arrive(i) ==
  /\ conn[i] = "open" /\ closed[i] = None
  /\ \/ arrived[i] < Len(sends[i]) /\ arrived' = [arrived EXCEPT ![i] = @ + 1] /\ UNCHANGED closed
     \/ closed' = [closed EXCEPT ![i] = "failed"] /\ UNCHANGED arrived
     \/ closed' = [closed EXCEPT ![i] = "ended"] /\ UNCHANGED arrived
  /\ UNCHANGED <<given, taken, conn, results, transfers, alive, at>>
-----------------------------------------------------------------------------
(* in3_curl.c *)

\* readDataNonBlocking: a handle for each of the urls, unless libcurl refuses it.
Add(urls, refused) ==
  /\ conn' = [i \in Urls |-> IF i \in urls \ refused THEN "open" ELSE conn[i]]
  /\ results' = [i \in Urls |-> IF i \in urls \cap refused THEN [results[i] EXCEPT !.error = TRUE] ELSE results[i]]

Begin ==
  /\ via = "curl" /\ at = "start"
  /\ LET first == {i \in Urls : i <= MaxParallel}
     IN  /\ \E refused \in SUBSET first : Add(first, refused)
         /\ transfers' = IF Len(sends) < MaxParallel THEN Len(sends) ELSE MaxParallel
  /\ at' = "perform"
  /\ UNCHANGED <<given, network, taken, alive>>

\* Mutant of Writer: the url begun last.
LastWriter(i) == transfers
\* The transfer that writes to a result (CURLOPT_WRITEDATA).
Writer(i) == i

\* curl_multi_perform: what has arrived is written to the results, and what has ended is done.
\* How a transfer ended is in its message, which nothing looks at.
Perform ==
  /\ at = "perform"
  /\ results' = [i \in Urls |->
       LET j == Writer(i)
       IN  IF j \in Some THEN [results[i] EXCEPT !.text = @ \o SubSeq(sends[j], taken[j] + 1, arrived[j])]
           ELSE results[i]]
  /\ taken' = [i \in Urls |-> IF i \in Some THEN arrived[i] ELSE taken[i]]
  /\ conn' = [i \in Urls |-> IF i \in Some /\ closed[i] # None THEN "done" ELSE conn[i]]
  /\ alive' = \E i \in Some : closed[i] = None
  /\ at' = "messages"
  /\ UNCHANGED <<given, network, transfers>>

More == transfers < Len(sends)

\* curl_multi_info_read: each message makes room for one more url.
ReadMessage ==
  /\ at = "messages"
  /\ \E i \in Urls :
       /\ conn[i] = "done"
       /\ LET removed == [conn EXCEPT ![i] = "removed"]
              next == transfers + 1
          IN  IF ~More THEN conn' = removed /\ UNCHANGED <<results, transfers>>
              ELSE /\ transfers' = next
                   /\ \/ conn' = [removed EXCEPT ![next] = "open"] /\ UNCHANGED results
                      \/ conn' = removed /\ results' = [results EXCEPT ![next].error = TRUE]
  /\ UNCHANGED <<given, network, taken, alive, at>>

\* A transfer begun by the last messages is not performed any more if none was alive before.
PerformAgain ==
  /\ at = "messages" /\ \A i \in Urls : conn[i] # "done"
  /\ at' = IF alive \/ transfers < Len(sends) THEN "perform" ELSE "returned"
  /\ UNCHANGED <<given, network, taken, conn, results, transfers, alive>>

Curl == Begin \/ Perform \/ ReadMessage \/ PerformAgain
-----------------------------------------------------------------------------
(* in3_http.c *)

\* The url at hand ends with a result, which may be an error.
Ends(result) ==
  /\ results' = [results EXCEPT ![transfers] = result]
  /\ conn' = [conn EXCEPT ![transfers] = "removed"]
  /\ IF transfers = Len(sends) THEN at' = "returned" /\ UNCHANGED transfers
     ELSE at' = "connect" /\ transfers' = transfers + 1

Skipped == Ends([results[transfers] EXCEPT !.error = TRUE])

AtUrl(place) == via = "http" /\ at = place

Connect ==
  /\ AtUrl("connect")
  /\ \/ Skipped
     \/ conn' = [conn EXCEPT ![transfers] = "open"] /\ at' = "write" /\ UNCHANGED <<results, transfers>>
  /\ UNCHANGED <<given, network, taken, alive>>

\* continue in a do-while goes to its condition: an error is noted and writing goes on.
Write ==
  /\ AtUrl("write")
  /\ \/ at' = "read" /\ UNCHANGED results
     \/ results' = [results EXCEPT ![transfers].error = TRUE] /\ UNCHANGED at
  /\ UNCHANGED <<given, network, taken, conn, transfers, alive>>

\* What is received is added as a string: up to a NUL.
Nuls(pieces) == {k \in DOMAIN pieces : pieces[k] = "nul"}
Text(pieces) == LET nuls == Nuls(pieces)
                IN  IF nuls = {} THEN pieces ELSE SubSeq(pieces, 1, (CHOOSE k \in nuls : \A j \in nuls : k <= j) - 1)

Receive ==
  /\ AtUrl("read")
  /\ \/ \E k \in taken[transfers] + 1 .. arrived[transfers] :
          /\ taken' = [taken EXCEPT ![transfers] = k]
          /\ results' = [results EXCEPT ![transfers].text = @ \o Text(SubSeq(sends[transfers], taken[transfers] + 1, k))]
     \/ /\ closed[transfers] = "failed" /\ taken[transfers] = arrived[transfers]
        /\ results' = [results EXCEPT ![transfers].error = TRUE] /\ UNCHANGED taken
  /\ UNCHANGED <<given, network, conn, transfers, alive, at>>

\* The first line ends at the first header; without one the answer is refused, as it is without
\* an empty line, with another version or a status that is no success.
Body(text) ==
  LET blank == CHOOSE k \in DOMAIN text : text[k] = "blank" /\ \A j \in 1 .. k - 1 : text[j] # "blank"
  IN  SubSeq(text, blank + 1, Len(text))
WellFormed(text) ==
  /\ \E k \in 4 .. Len(text) : text[k] = "blank"
  /\ text[1] = "HTTP" /\ text[2] = "200" /\ text[3] = "header"

Evaluate ==
  /\ AtUrl("read") /\ taken[transfers] = arrived[transfers]
  /\ closed[transfers] = "ended" \/ (closed[transfers] = "failed" /\ results[transfers].error)
  /\ IF taken[transfers] = Full \/ ~WellFormed(results[transfers].text) THEN Skipped
     ELSE Ends([results[transfers] EXCEPT !.text = Body(@)])
  /\ UNCHANGED <<given, network, taken, alive>>

Http == Connect \/ Write \/ Receive \/ Evaluate
-----------------------------------------------------------------------------
TransportInit ==
  /\ \/ via = "curl" /\ sends \in CurlSends /\ transfers = 0 /\ at = "start"
     \/ via = "http" /\ sends \in HttpSends /\ transfers = 1 /\ at = "connect"
  /\ \E t \in Timeouts : seconds = t \div 1000
  /\ arrived = [i \in Urls |-> 0] /\ taken = [i \in Urls |-> 0]
  /\ closed = [i \in Urls |-> None]
  /\ conn = [i \in Urls |-> "none"]
  /\ results = [i \in Urls |-> [text |-> <<>>, error |-> FALSE]]
  /\ alive = TRUE

TransportNext == Curl \/ Http \/ \E i \in Urls : Arrive(i)

TransportSpec == TransportInit /\ [][TransportNext]_transportVars

\* The call runs on its thread; libcurl ends a transfer at its timeout, if it has one.
NetworkMoves == seconds > 0 /\ \E i \in Urls : Arrive(i)
-----------------------------------------------------------------------------
TransportTypeOK ==
  /\ via \in {"curl", "http"} /\ at \in {"start", "perform", "messages", "connect", "write", "read", "returned"}
  /\ transfers \in 0 .. Len(sends) /\ alive \in BOOLEAN
  /\ \A i \in Urls : /\ taken[i] <= arrived[i] /\ arrived[i] <= Len(sends[i])
                     /\ conn[i] \in {"none", "open", "done", "removed"} /\ closed[i] \in {None, "ended", "failed"}

\* What node i was to be read as having sent: without the headers that HTTP adds.
Whole(i) == IF via = "curl" THEN sends[i] ELSE Body(sends[i])
\* A NUL, and what was received with it, is no part of an HTTP answer.
CutByNul(i) == via = "http" /\ Nuls(sends[i]) # {}
Refused(i) == via = "http" /\ (~WellFormed(sends[i]) \/ Len(sends[i]) = Full)
Complete(i) == closed[i] = "ended" /\ arrived[i] = Len(sends[i])

\* However the answers of several nodes arrive, what a url's result holds without an error is
\* the beginning of its own node's answer; and all of it if the node sent all of it and the
\* transport does not refuse it.  (That an answer was cut short is not an error to either
\* transport, nor to curl that it never came; and an HTTP answer with a NUL lacks what follows it
\* up to the next that was received, so that it need not be a beginning.)
ResultsAreTheirs ==
  at = "returned" =>
    \A i \in Urls : ~results[i].error /\ ~CutByNul(i) =>
      /\ IsPrefix(results[i].text, Whole(i))
      /\ conn[i] = "removed" /\ Complete(i) /\ ~Refused(i) => results[i].text = Whole(i)

\* No url's failure keeps the others from being asked: each has been read or has an error, if
\* no more urls are given than are asked at once.  (With more, one begun by the last messages
\* may be neither.)
EveryUrlIsAsked ==
  at = "returned" /\ (via = "http" \/ Len(sends) <= MaxParallel) =>
    \A i \in Urls : conn[i] = "removed" \/ results[i].error

\* A url's result is its own node's answer, and no url's failure keeps the others from being
\* asked (in3_curl.c, in3_http.c).
UrlsGetTheirAnswers == TransportTypeOK /\ ResultsAreTheirs /\ EveryUrlIsAsked

\* send_curl returns if the timeout is a second or more, unless libcurl refused so many handles
\* that none is left to make room for the urls that wait.
Stuck ==
  /\ transfers < Len(sends) /\ \A i \in Urls : conn[i] \notin {"open", "done"}
  /\ \E i \in Urls : conn[i] = "none" /\ results[i].error
SendReturns == (via = "curl" /\ at = "start" /\ seconds > 0) ~> (at = "returned" \/ Stuck)
=============================================================================
