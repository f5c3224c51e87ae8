---------------------------- MODULE MCEvmPrograms ----------------------------
(***************************************************************************)
(* Contracts, accounts and calls for In3Evm: a contract for every group of  *)
(* instructions, callers of every kind and creators, against contracts      *)
(* that return, revert, fail, call on, destroy themselves or run forever.   *)
(***************************************************************************)
EXTENDS In3Words

\* Programs for bytes of 3 bits and words of 5 bytes.
MCOpOfByte == [b \in 0 .. 7 |-> <<"STOP", "PUSH1", "RETURN", "SSTORE", "JUMPDEST", "REVERT", "POP", "INVALID">>[b + 1]]
MCHeader == [COINBASE |-> 9, TIMESTAMP |-> 99, NUMBER |-> 77, DIFFICULTY |-> 5, GASLIMIT |-> 999]

ByteOf(op) == LET bs == {b \in 0 .. 7 : MCOpOfByte[b] = op} IN IF bs = {} THEN 7 ELSE CHOOSE b \in bs : TRUE
Asm(ops) == [k \in DOMAIN ops |-> [op |-> ops[k], v |-> ByteOf(ops[k])]]
Datum(v) == [op |-> MCOpOfByte[v], v |-> v]
P(n) == Asm(<<"PUSH2">>) \o <<Datum(n \div 8), Datum(n % 8)>>
W(s) == Asm(<<"PUSH32">>) \o [k \in DOMAIN s |-> Datum(s[k])]
O(op) == Asm(<<op>>)

Give(n) == P(n) \o P(0) \o O("RETURN")
Store(k, v) == P(v) \o P(k) \o O("SSTORE")

\* The target and the value are the first two words of the call's data.
Target == P(0) \o O("CALLDATALOAD")
Valued == P(5) \o O("CALLDATALOAD")
After == P(0) \o O("SLOAD") \o P(15) \o O("BALANCE") \o Target \o O("EXTCODESIZE") \o O("RETURNDATASIZE")
CallerOf(kind) ==
  P(3) \o P(2) \o P(20) \o P(0) \o (IF kind \in {"CALL", "CALLCODE"} THEN Valued ELSE <<>>) \o Target
  \o O("GAS") \o O(kind) \o After \o P(1) \o P(0) \o P(0) \o O("RETURNDATACOPY") \o Give(9)
InitCode == W(<<1, 3, 1, 0, 2>>) \o P(0) \o O("MSTORE")
CreatorOf(kind) ==
  InitCode \o (IF kind = "CREATE2" THEN P(1) ELSE <<>>) \o P(5) \o P(0) \o Valued \o O(kind)
  \o O("EXTCODESIZE") \o Give(1)
\* 3^5 % 7 by the contract 5, whose input is three lengths and the numbers.
Power ==
  P(1) \o P(0) \o O("MSTORE") \o P(1) \o P(5) \o O("MSTORE") \o P(1) \o P(10) \o O("MSTORE")
  \o P(3) \o P(15) \o O("MSTORE8") \o P(5) \o P(16) \o O("MSTORE8") \o P(7) \o P(17) \o O("MSTORE8")
  \o P(1) \o P(0) \o P(18) \o P(0) \o P(5) \o P(63) \o O("STATICCALL") \o Give(1)

Pure ==
  P(9) \o P(3) \o O("ADD") \o P(2) \o O("MUL") \o P(5) \o O("SUB") \o P(3) \o O("SDIV") \o P(2) \o O("DIV")
  \o P(7) \o O("MOD") \o P(3) \o O("SMOD") \o P(2) \o O("EXP") \o P(5) \o P(6) \o O("ADDMOD")
  \o P(3) \o P(9) \o O("MULMOD") \o P(3) \o O("SIGNEXTEND") \o P(0) \o O("SIGNEXTEND") \o P(9) \o O("SIGNEXTEND")
  \o P(2) \o O("LT") \o P(1) \o O("GT") \o P(1) \o O("SLT") \o P(1) \o O("SGT") \o P(0) \o O("EQ")
  \o O("ISZERO") \o O("NOT") \o P(6) \o O("AND") \o P(9) \o O("OR") \o P(1) \o O("XOR") \o P(4) \o O("BYTE")
  \o P(1) \o O("SHL") \o P(1) \o O("SHR") \o P(1) \o O("SAR") \o P(1) \o O("SHA3")
  \o P(0) \o O("MSTORE") \o Give(5)
Memory ==
  P(7) \o P(1) \o O("MSTORE") \o P(9) \o P(12) \o O("MSTORE8") \o P(4) \o O("MLOAD") \o P(0) \o O("CALLDATALOAD")
  \o P(9) \o O("CALLDATALOAD") \o P(6) \o P(1) \o P(3) \o O("CALLDATACOPY") \o P(3) \o P(2) \o P(1) \o O("CODECOPY")
  \o P(2) \o P(0) \o O("LOG0") \o P(5) \o P(0) \o P(2) \o O("LOG1") \o P(8) \o P(2) \o O("SHA3")
  \o P(1) \o P(0) \o P(0) \o O("RETURNDATACOPY")
Stacked ==
  O("ADDRESS") \o O("ORIGIN") \o O("CALLER") \o O("CALLVALUE") \o O("CALLDATASIZE") \o O("CODESIZE") \o O("GASPRICE")
  \o O("RETURNDATASIZE") \o O("PC") \o O("MSIZE") \o O("SWAP1") \o O("SWAP2") \o O("POP") \o O("POP") \o O("POP")
  \o O("COINBASE") \o O("NUMBER") \o O("DUP1") \o O("POP") \o O("CHAINID")
Inspector ==
  P(10) \o O("BALANCE") \o P(30) \o O("BALANCE") \o P(10) \o O("EXTCODESIZE") \o P(10) \o O("EXTCODEHASH")
  \o P(3) \o P(1) \o P(0) \o P(10) \o O("EXTCODECOPY") \o P(0) \o O("SLOAD") \o P(2) \o O("SLOAD")
  \o Store(0, 0) \o Store(0, 3) \o Store(0, 1) \o Store(1, 2) \o Store(1, 2) \o Store(1, 0)
  \o P(30) \o O("EXTCODEHASH")

Nested(a, value) == P(0) \o P(0) \o P(0) \o P(0) \o P(value) \o P(a) \o O("GAS") \o O("CALL")
Code ==
  [a \in 0 .. 39 |->
     CASE a = 10 -> Give(4)
       [] a = 11 -> Store(0, 2) \o P(1) \o P(0) \o O("REVERT")
       [] a = 12 -> Store(2, 2) \o O("INVALID")
       [] a = 13 -> Store(0, 0) \o P(2) \o P(0) \o O("LOG0")
       [] a = 14 -> Nested(11, 1) \o Store(1, 1) \o Nested(13, 0)
       [] a = 15 -> P(16) \o O("SELFDESTRUCT")
       [] a = 16 -> P(0) \o O("SLOAD") \o P(15) \o O("BALANCE")
       [] a = 17 -> O("JUMPDEST") \o P(0) \o O("JUMP")
       [] a = 18 -> O("BLOCKHASH")
       [] a = 19 -> P(0) \o O("BLOCKHASH")
       [] a = 20 -> Pure
       [] a = 21 -> Memory
       [] a = 22 -> Stacked
       [] a = 23 -> Inspector
       [] a = 24 -> P(5) \o O("JUMP") \o Asm(<<"PUSH2">>) \o <<Datum(4), Datum(4)>> \o O("STOP")
       [] a = 25 -> P(6) \o O("JUMP") \o Asm(<<"PUSH2">>) \o <<Datum(0), Datum(4)>> \o O("STOP")
       [] a = 29 -> P(4) \o P(60) \o O("MSTORE") \o P(5) \o P(40) \o O("RETURN")
       [] a = 26 -> P(1) \o P(8) \o O("JUMPI") \o O("STOP") \o O("JUMPDEST") \o O("STOP")
       [] a = 27 -> O("NUMBER") \o O("DUP1") \o O("DUP2") \o P(0) \o P(7) \o O("JUMPI") \o P(0) \o O("JUMP")
       [] a = 28 -> O("JUMPDEST") \o O("NUMBER") \o P(0) \o O("JUMP")
       [] a = 30 -> CallerOf("CALL")
       [] a = 31 -> CallerOf("CALLCODE")
       [] a = 32 -> CallerOf("DELEGATECALL")
       [] a = 33 -> CallerOf("STATICCALL")
       [] a = 34 -> CreatorOf("CREATE")
       [] a = 35 -> CreatorOf("CREATE2")
       [] a = 36 -> Power
       [] OTHER -> <<>>]
MCAccounts ==
  [a \in 0 .. 45 |->
     [balance |-> IF a \in {11, 14, 15, 30, 31, 32, 34} \cup {38} THEN 5 ELSE 0, nonce |-> IF a = 38 THEN 1 ELSE 0,
      code |-> IF a < 40 THEN Code[a] ELSE <<>>,
      storage |-> [k \in 0 .. 3 |-> IF k = 0 /\ a \notin {24, 30} THEN <<1>> ELSE <<0>>]]]
MCSha3(s) == [k \in 1 .. Width |-> (Len(s) + k) % 8]
MCNewAddress(seed) == IF Len(seed) = 2 THEN 40 + (seed[2] % 2) ELSE 42
MCRecovered == Ones(3)

Ask(to, from, value, data, gas) == [to |-> to, from |-> from, value |-> <<value>>, data |-> data, gas |-> gas]
Two(a, v) == Digits(Width, a) \o Digits(Width, v)
MCCalls ==
  {Ask(to, 38, 0, Two(a, v), gas) :
     to \in 30 .. 33, a \in {1, 2, 3, 4, 5, 6, 8, 45} \cup (10 .. 16) \cup {18, 19, 29}, v \in {0, 1, 7}, gas \in {5000, 60000}}
  \cup {Ask(30, 38, 0, Two(17, v), 5000) : v \in {0, 1}}
  \cup {Ask(to, 38, 0, Two(a, v), gas) : to \in {34, 35}, a \in {0}, v \in {0, 2, 7}, gas \in {30000, 70000, 200000}}
  \cup {Ask(to, 38, 0, Two(6, 1), gas) : to \in (10 .. 28) \cup {36}, gas \in {50, 600, 3000}}
  \cup {Ask(to, from, v, <<>>, 50000) : to \in {6, 7, 10, 45}, from \in {0, 38}, v \in {0, 3, 6}}
=============================================================================
