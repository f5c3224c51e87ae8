---------------------------- MODULE MCIn3Client ----------------------------
(* Instances of In3Client for TLC: two lists, of which the first is built in. *)
EXTENDS In3Client, TLC

CONSTANTS n1, n2, n3

MCNodes == {n1, n2, n3}
MCRegistry == (0 :> <<n1, n2>>) @@ (1 :> <<n2, n3>>)
MCWhiteLists == <<<<n1, n2>>>>
\* Nothing new; a list and a white list announced.
MCHeaders == {[last |-> 0, cur |-> 1, white |-> 0], [last |-> 1, cur |-> 1, white |-> 1]}
MCFaults ==
  [rpc |-> {"wrong", "refused"}, in3_nodeList |-> {"garbage", "errored"},
   getCode |-> {"failed"}, in3_whiteList |-> {"refused"}]
=============================================================================
