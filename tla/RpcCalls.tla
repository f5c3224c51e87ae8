------------------------------ MODULE RpcCalls ------------------------------
(***************************************************************************)
(* What the application may expect of IRpcSyncer.single: a call is asked,  *)
(* the node serves it or not, and the Single ends at most once, with the   *)
(* node's response to this very call or with an error.                     *)
(***************************************************************************)

CONSTANT Calls    \* the calls of single(rpc), each made once

VARIABLES
  asked,          \* the calls made
  served,         \* the calls the node has responded to
  outcome         \* "none", "error", or the call whose response was delivered

callVars == <<asked, served, outcome>>

Init ==
  /\ asked = {}
  /\ served = {}
  /\ outcome = [c \in Calls |-> "none"]

Ask(c) ==
  /\ c \notin asked
  /\ asked' = asked \cup {c}
  /\ UNCHANGED <<served, outcome>>

Serve(c) ==
  /\ c \in asked
  /\ served' = served \cup {c}
  /\ UNCHANGED <<asked, outcome>>

Succeed(c) ==
  /\ c \in served
  /\ outcome[c] = "none"
  /\ outcome' = [outcome EXCEPT ![c] = c]
  /\ UNCHANGED <<asked, served>>

Fail(c) ==
  /\ c \in asked
  /\ outcome[c] = "none"
  /\ outcome' = [outcome EXCEPT ![c] = "error"]
  /\ UNCHANGED <<asked, served>>

Next == \E c \in Calls : Ask(c) \/ Serve(c) \/ Succeed(c) \/ Fail(c)

Spec == Init /\ [][Next]_callVars
=============================================================================
