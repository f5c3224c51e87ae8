------------------------------- MODULE In3Evm -------------------------------
(***************************************************************************)
(* The EVM with which in3-c verifies eth_call (verifier/eth1/evm), built   *)
(* with EVM_GAS, the default.  A call runs in a frame (evm_t); a CALL or a  *)
(* CREATE runs a new frame on top of it (evm_sub_call).  A frame keeps the *)
(* accounts, storage slots and logs it has seen or changed; a slot or an   *)
(* account it does not have is taken from the frame below, and at the      *)
(* bottom from the proof of the request (in3_get_env).                      *)
(*                                                                         *)
(* A cell of a code is a byte: the opcode it stands for and its value.      *)
(***************************************************************************)
EXTENDS In3Words, FiniteSetsExt

CONSTANTS
  Calls,        \* the eth_calls to verify: [to, from, value, data, gas]
  Accounts,     \* the accounts of the proof: every address a call touches
  Header,       \* Header[op]: the word of the block header an opcode asks for
  OpOfByte,     \* the opcode a byte of memory stands for when it is run as a code
  Sha3(_), NewAddress(_),   \* a hash as a word; the address of a new contract
  Recovered,    \* what ecrecover may return
  StackLimit,   \* EVM_STACK_LIMIT, 1024
  MemLimit,     \* MEM_LIMIT, 0xFFFFFFF
  GasWrap,      \* the range of uint64_t
  None

VARIABLES
  frames,       \* the frames of the running call, the first of them evm_call's
  result,       \* what in3_verify_eth_full makes of it
  proof         \* the accounts of the proof
vars == <<frames, result, proof>>

Depth == Len(frames)
Top == frames[Depth]
Parent == frames[Depth - 1]
Wrap(g) == g % GasWrap
Wrong == {"EMPTY_STACK", "INVALID_OPCODE", "ILLEGAL_MEMORY_ACCESS", "INVALID_JUMPDEST", "INVALID_ENV",
          "UNSUPPORTED", "OUT_OF_GAS", "BALANCE_TOO_LOW", "STACK_LIMIT", "ERROR"}
States == {"RUNNING", "STOPPED", "REVERTED", "PRECOMPILED", "RETURNED", "REFUSED", "CONSUMED"} \cup Wrong

Running == frames # <<>> /\ Top.state = "RUNNING" /\ Top.pos < Len(Top.code)
Op == Top.code[Top.pos + 1].op
Arg(k) == Top.stack[k]                         \* the k-th entry from the top
PopInt(s) == IF Val(s) > MemLimit THEN MemLimit ELSE Val(s)       \* evm_stack_pop_int
Num(k) == PopInt(Arg(k))

-----------------------------------------------------------------------------
\* What an opcode does to its frame

\* A frame that has failed stays failed; the rest of it does not matter any more.
Faulted(f, error) == [f EXCEPT !.state = IF @ = "RUNNING" THEN error ELSE @]
Charge(f, g) == IF f.gas < g THEN Faulted(f, "OUT_OF_GAS") ELSE [f EXCEPT !.gas = @ - g]

\* evm_stack_push
Push(f, s) ==
  IF Len(f.stack) = StackLimit THEN Faulted(f, "STACK_LIMIT") ELSE [f EXCEPT !.stack = <<s>> \o @]
PushInt(f, v) == Push(f, Minimal(v))          \* evm_stack_push_int

Words(n) == (n + Width - 1) \div Width
MemCost(w) == 3 * w + (w * w) \div 512
Alloc(f, end) ==                              \* bb_check_size doubles the buffer
  LET size == CHOOSE n \in {Len(f.mem) * 2^k : k \in 0 .. 8} :
                n > end /\ \A k \in 0 .. 8 : Len(f.mem) * 2^k > end => n <= Len(f.mem) * 2^k
  IN  [f EXCEPT !.mem = @ \o Zeros(size - Len(f.mem))]
\* mem_check: the memory up to end is paid for, and allocated if it is written.
MemCheck(f, end, write) ==
  LET grown == [Charge(f, IF Words(end) > Words(f.memLen) THEN MemCost(Words(end)) - MemCost(Words(f.memLen))
                          ELSE 0) EXCEPT !.memLen = Words(end) * Width]
      size == IF end > f.memLen THEN Words(end) * Width ELSE end
      paid == IF end > f.memLen THEN grown ELSE f
  IN  IF end >= MemLimit THEN Faulted(f, "OUT_OF_GAS")
      ELSE IF write /\ size > Len(f.mem) THEN Alloc(paid, size) ELSE paid

\* evm_mem_readi: what is not allocated is zero.
MemRead(f, off, n) == [k \in 1 .. n |-> IF off + k <= Len(f.mem) THEN f.mem[off + k] ELSE 0]
\* evm_mem_write: the last n bytes of what is written, aligned to the right.
MemWrite(f, off, s, n) ==
  LET g == MemCheck(f, off + n, TRUE)
      bytes == IF Len(s) >= n THEN Final(s, n) ELSE Pad(s, n)
  IN  IF g.state # "RUNNING" THEN g
      ELSE [g EXCEPT !.mem = [k \in 1 .. Len(@) |-> IF k \in off + 1 .. off + n THEN bytes[k - off] ELSE @[k]]]

\* The price of an opcode, as op_exec takes it before the opcode runs.
GasOf(op) ==
  CASE op \in {"STOP", "RETURN", "REVERT", "INVALID", "SSTORE"} -> 0
    [] op = "JUMPDEST" -> 1
    [] op \in {"ADDRESS", "ORIGIN", "CALLER", "CALLVALUE", "CALLDATASIZE", "CODESIZE", "GASPRICE",
               "RETURNDATASIZE", "POP", "PC", "MSIZE", "GAS", "CHAINID"} \cup DOMAIN Header -> 2
    [] op \in {"MUL", "DIV", "SDIV", "MOD", "SMOD", "SIGNEXTEND"} -> 5
    [] op \in {"ADDMOD", "MULMOD", "JUMP"} -> 8
    [] op \in {"JUMPI", "EXP"} -> 10
    [] op = "BLOCKHASH" -> 20
    [] op = "SHA3" -> 30
    [] op = "SLOAD" -> 200
    [] op \in {"LOG0", "LOG1"} -> 375
    [] op \in {"BALANCE", "EXTCODEHASH"} -> 400
    [] op \in {"EXTCODESIZE", "EXTCODECOPY", "CALL", "CALLCODE", "DELEGATECALL", "STATICCALL"} -> 700
    [] op = "SELFDESTRUCT" -> 5000
    [] op \in {"CREATE", "CREATE2"} -> 32000
    [] OTHER -> 3

\* The frame after the opcode was fetched and paid for and has taken n entries.
F(n) == [Top EXCEPT !.pos = @ + 1, !.gas = @ - GasOf(Op), !.stack = SubSeq(@, n + 1, Len(@))]
Affordable(n) == Top.gas >= GasOf(Op) /\ Len(Top.stack) >= n
\* An opcode that takes n entries: fs are the frames after it.
ExecAll(ops, n, fs) ==
  /\ Running /\ Op \in ops
  /\ frames' = IF Affordable(n) THEN fs
               ELSE [frames EXCEPT ![Depth] =
                       Faulted(Top, IF Top.gas < GasOf(Op) THEN "OUT_OF_GAS" ELSE "EMPTY_STACK")]
  /\ UNCHANGED <<result, proof>>
Exec(ops, n, f) == ExecAll(ops, n, [frames EXCEPT ![Depth] = f])

-----------------------------------------------------------------------------
\* Accounts and storage

Empty(acc) == acc.balance = 0 /\ acc.nonce = 0 /\ acc.code = <<>>
NoSlots == [k \in {} |-> 0]
Extend(f, x, v) == [y \in DOMAIN f \cup {x} |-> IF y = x THEN v ELSE f[y]]
Has(fs, i, a) == a \in DOMAIN fs[i].accounts
Greatest(S) == CHOOSE x \in S : \A y \in S : y <= x

\* evm_get_account in frame n: the account is copied up from the nearest frame below that
\* has it, without its slots; the first frame takes it from the proof if it is not empty
\* or has to be created.
GetAccount(fs, n, a, create) ==
  LET known == {i \in 1 .. n : Has(fs, i, a)}
      from == IF known = {} THEN 1 ELSE Greatest(known)
      acc == IF known = {} THEN [proof[a] EXCEPT !.storage = NoSlots]
             ELSE [fs[from].accounts[a] EXCEPT !.storage = NoSlots]
  IN  IF known = {} /\ ~create /\ Empty(proof[a]) THEN fs
      ELSE [i \in DOMAIN fs |-> IF i \in from .. n /\ ~Has(fs, i, a)
                                THEN [fs[i] EXCEPT !.accounts = Extend(@, a, acc)] ELSE fs[i]]

\* in3_get_env for a slot: the proof of the account the frame runs as (evm->address).
EnvSlot(f, k) == proof[f.address].storage[k]
HasSlot(fs, i, a, k) == Has(fs, i, a) /\ k \in DOMAIN fs[i].accounts[a].storage
SetSlot(f, a, k, v) == [f EXCEPT !.accounts[a].storage = Extend(@, k, v)]

\* evm_get_storage in frame n: a slot is copied up from the nearest frame that has it.  At
\* the bottom, and then in every frame above that still has none, it is asked of the proof,
\* each time of the account that frame runs as; a zero is only kept when it is created.
GetStorage(fs, n, a, k, create) ==
  LET gs == GetAccount(fs, n, a, create)
      known == {i \in 1 .. n : HasSlot(gs, i, a, k)}
      asked == {i \in 1 .. n : create \/ Val(EnvSlot(gs[i], k)) # 0}
      from == IF known # {} THEN Greatest(known)
              ELSE IF asked = {} THEN n + 1 ELSE CHOOSE i \in asked : \A j \in asked : i <= j
      v == IF known # {} THEN gs[from].accounts[a].storage[k] ELSE Pad(EnvSlot(gs[from], k), Width)
  IN  IF ~Has(gs, n, a) \/ from > n THEN gs
      ELSE [i \in DOMAIN gs |-> IF i \in from .. n /\ ~HasSlot(gs, i, a, k)
                                THEN SetSlot(gs[i], a, k, v) ELSE gs[i]]

\* transfer_value for frame n: [fs, error].  The gas is the frame's below, the accounts are
\* the frame's own.
Transfer(fs, n, from, to, value, g) ==
  LET payer == IF n > 1 THEN n - 1 ELSE n
      gs == GetAccount(GetAccount(fs, n, from, TRUE), n, to, FALSE)
      cost == g + IF Has(gs, n, to) THEN 0 ELSE 25000
      hs == GetAccount(gs, n, to, TRUE)
      paid == [hs EXCEPT ![payer].gas = @ - cost]
      debit == [paid EXCEPT ![n].accounts[from].balance = @ - Val(value)]
  IN  IF BigIsZero(value) THEN [fs |-> fs, error |-> None]
      ELSE IF gs[payer].gas < cost THEN [fs |-> gs, error |-> "OUT_OF_GAS"]
      ELSE IF paid[n].accounts[from].balance < Val(value)
      THEN [fs |-> paid, error |-> "BALANCE_TOO_LOW"]
      ELSE [fs |-> [debit EXCEPT ![n].accounts[to].balance = (@ + Val(value)) % Byte^Width], error |-> None]

\* copy_state
CopyState(dst, src) ==
  [dst EXCEPT !.logs = src.logs \o @,
              !.accounts = [a \in DOMAIN dst.accounts \cup DOMAIN src.accounts |->
                 IF a \notin DOMAIN dst.accounts THEN src.accounts[a]
                 ELSE IF a \notin DOMAIN src.accounts THEN dst.accounts[a]
                 ELSE [src.accounts[a] EXCEPT !.storage =
                         [k \in DOMAIN @ \cup DOMAIN dst.accounts[a].storage |->
                            IF k \in DOMAIN @ THEN @[k] ELSE dst.accounts[a].storage[k]]]]]

-----------------------------------------------------------------------------
\* Opcodes of one frame

Stop == Running /\ Op = "STOP" /\ UNCHANGED <<result, proof>>
        /\ frames' = [frames EXCEPT ![Depth].state = "STOPPED", ![Depth].pos = @ + 1]
Invalid == Exec({"INVALID"}, 0, Faulted(Top, "INVALID_OPCODE"))
Jumpdest == Exec({"JUMPDEST"}, 0, F(0))

MathOps == {"ADD", "SUB", "MUL", "DIV", "SDIV", "MOD", "SMOD", "EXP"}
Arithmetic ==
  Exec(MathOps, 2, Push(Charge(F(2), IF Op = "EXP" THEN 50 * BigLog256(Arg(2)) ELSE 0),
                        Optimize(OpMath(Op, Arg(1), Arg(2)))))
ModArithmetic ==
  Exec({"ADDMOD", "MULMOD"}, 3, Push(F(3), OpMathMod(Op, Arg(1), Arg(2), Arg(3))))

\* An index beyond the word leaves the value alone; a short value takes in junk.
Signextend ==
  \E junk \in IF Running /\ Op = "SIGNEXTEND" /\ Affordable(2) /\ Num(1) < Width /\ Len(Arg(2)) <= Num(1)
              THEN {Zeros(Num(1) + 1 - Len(Arg(2))), Ones(Num(1) + 1 - Len(Arg(2)))} ELSE {<<>>} :
    Exec({"SIGNEXTEND"}, 1,
         IF Num(1) > Width - 1 THEN F(1)
         ELSE IF Len(Top.stack) < 2 THEN Faulted(Top, "EMPTY_STACK")
         ELSE Push(F(2), OpSignextend(Num(1), Arg(2), junk)))

Bool(b) == IF b THEN <<1>> ELSE <<0>>
Compare ==
  Exec({"LT", "GT", "SLT", "SGT", "EQ"}, 2,
       Push(F(2), Bool(OpCmp(CASE Op \in {"LT", "SLT"} -> -1 [] Op = "EQ" -> 0 [] OTHER -> 1,
                             Op \in {"SLT", "SGT"}, Arg(1), Arg(2)))))
Unary == Exec({"ISZERO", "NOT"}, 1, Push(F(1), IF Op = "NOT" THEN OpNot(Arg(1)) ELSE OpIsZero(Arg(1))))
Bitwise2 ==
  Exec({"AND", "OR", "XOR", "BYTE", "SHL", "SHR", "SAR"}, 2,
       Push(F(2), CASE Op \in {"AND", "OR", "XOR"} -> OpBit(Op, Arg(1), Arg(2))
                    [] Op = "BYTE" -> OpByte(Arg(1), Arg(2))
                    [] OTHER -> OpShift(Op, Arg(1), Arg(2))))

HashMemory ==
  Exec({"SHA3"}, 2,
       LET n == Num(2)
           f == IF n = MemLimit THEN Faulted(F(2), "OUT_OF_GAS")
                ELSE IF n = 0 THEN F(2) ELSE MemCheck(F(2), Num(1) + n, FALSE)
       IN  Push(Charge(f, 6 * Words(n)), Sha3(MemRead(f, Num(1), n))))

\* The values of the frame, of the call and of the block header.
Values ==
  Exec({"ADDRESS", "ORIGIN", "CALLER", "CALLVALUE", "CALLDATASIZE", "CODESIZE", "GASPRICE",
        "RETURNDATASIZE", "PC", "MSIZE", "GAS"} \cup DOMAIN Header, 0,
       CASE Op = "ADDRESS" -> Push(F(0), Digits(Width, Top.address))
         [] Op = "ORIGIN" -> Push(F(0), Digits(Width, frames[1].caller))
         [] Op = "CALLER" -> Push(F(0), Digits(Width, Top.caller))
         [] Op = "CALLVALUE" -> Push(F(0), Top.value)
         [] Op = "CALLDATASIZE" -> PushInt(F(0), Len(Top.data))
         [] Op = "CODESIZE" -> PushInt(F(0), Len(Top.code))
         [] Op = "GASPRICE" -> Push(F(0), <<>>)
         [] Op = "RETURNDATASIZE" -> PushInt(F(0), Len(Top.last))
         [] Op = "PC" -> PushInt(F(0), Top.pos)
         [] Op = "MSIZE" -> PushInt(F(0), Top.memLen)
         [] Op = "GAS" -> Push(F(0), Digits(Width, Top.gas - 2))
         [] OTHER -> PushInt(F(0), Header[Op]))
\* CHAINID is only known with a property that nothing sets.
Chainid == Exec({"CHAINID"}, 0, Faulted(Top, "INVALID_OPCODE"))

Dataload ==
  Exec({"CALLDATALOAD"}, 1,
       LET pos == Num(1)
           n == Len(Top.data)
       IN  IF n <= pos THEN PushInt(F(1), 0)
           ELSE Push(F(1), [k \in 1 .. Width |-> IF pos + k <= n THEN Top.data[pos + k] ELSE 0]))

Bytes(cells) == [k \in DOMAIN cells |-> cells[k].v]
\* op_datacopy: the end of the source is filled with zeros; beyond the returned data it is
\* an error.
Datacopy ==
  Exec({"CALLDATACOPY", "CODECOPY", "RETURNDATACOPY"}, 3,
       LET src == CASE Op = "CALLDATACOPY" -> Top.data [] Op = "CODECOPY" -> Bytes(Top.code)
                    [] OTHER -> Top.last
           n == Num(3)
           have == IF Num(2) < Len(src) THEN IF Len(src) - Num(2) < n THEN Len(src) - Num(2) ELSE n ELSE 0
           paid == Charge(F(3), 3 * Words(n))
           filled == IF have < n THEN MemWrite(paid, Num(1) + have, <<>>, n - have) ELSE paid
       IN  IF Op = "RETURNDATACOPY" /\ Num(2) >= Len(src) THEN Faulted(paid, "ILLEGAL_MEMORY_ACCESS")
           ELSE IF have = 0 THEN filled
           ELSE MemWrite(filled, Num(1), SubSeq(src, Num(2) + 1, Num(2) + have), have))

Pop == Exec({"POP"}, 1, F(1))
Mload == Exec({"MLOAD"}, 1, LET f == MemCheck(F(1), Num(1) + Width, FALSE)
                            IN  Push(f, MemRead(f, Num(1), Width)))
Mstore ==
  Exec({"MSTORE", "MSTORE8"}, 2,
       MemWrite(F(2), Num(1), Arg(2), IF Op = "MSTORE" THEN Width ELSE 1))

\* How many bytes or entries an opcode with a number in its name is about.
Size == [PUSH1 |-> 1, PUSH2 |-> 2, PUSH32 |-> Width, DUP1 |-> 1, DUP2 |-> 2, SWAP1 |-> 2, SWAP2 |-> 3,
         LOG0 |-> 0, LOG1 |-> 1]
PushOps == {"PUSH1", "PUSH2", "PUSH32"}

\* The scan of op_jump: jumpl counts the bytes of push data still to come.
InPushData(code, pos) ==
  LET jumpl[p \in 0 .. Len(code)] ==
        LET before == jumpl[p - 1]
        IN  IF p = 0 THEN 0 ELSE IF before > 0 THEN before - 1
            ELSE IF code[p].op \in PushOps THEN Size[code[p].op] ELSE 0
  IN  pos \in DOMAIN jumpl /\ jumpl[pos] > 0

\* The byte after the code is read too: whether it is a JUMPDEST depends on the memory.
Jump ==
  \E beyond \in IF Running /\ Op \in {"JUMP", "JUMPI"} THEN BOOLEAN ELSE {FALSE} :
    Exec({"JUMP", "JUMPI"}, IF Op = "JUMPI" THEN 2 ELSE 1,
         LET pos == Num(1)
             n == Len(Top.code)
             f == F(IF Op = "JUMPI" THEN 2 ELSE 1)
         IN  IF Op = "JUMPI" /\ PopByte(Arg(2)) = 0 THEN f
             ELSE IF \/ pos > n
                     \/ IF pos = n THEN ~beyond ELSE Top.code[pos + 1].op # "JUMPDEST"
                     \/ InPushData(Top.code, pos)
             THEN Faulted(f, "INVALID_JUMPDEST") ELSE [f EXCEPT !.pos = pos])

\* op_push: beyond the code there are zeros.
PushData ==
  Exec(PushOps, 0,
       LET n == Size[Op]
           data == [k \in 1 .. n |-> IF Top.pos + 1 + k <= Len(Top.code) THEN Top.code[Top.pos + 1 + k].v ELSE 0]
       IN  [Push(F(0), data) EXCEPT !.pos = @ + n])
Dup == Running /\ Op \in {"DUP1", "DUP2"}
       /\ Exec({Op}, Size[Op], Push(F(0), Arg(Size[Op])))
Swap == Running /\ Op \in {"SWAP1", "SWAP2"}
        /\ Exec({Op}, Size[Op], [F(0) EXCEPT !.stack = [@ EXCEPT ![1] = Arg(Size[Op]), ![Size[Op]] = Arg(1)]])

Log ==
  Exec({"LOG0", "LOG1"}, 2,
       LET n == Size[Op]
           paid == Charge(F(2 + n), 375 * n + 8 * Num(2))
           f == IF Num(2) > 0 THEN MemCheck(paid, Num(1) + Num(2), FALSE) ELSE paid
       IN  IF Len(Top.stack) < 2 + n THEN Faulted(f, "EMPTY_STACK")
           ELSE [f EXCEPT !.logs = <<[topics |-> [k \in 1 .. n |-> Pad(Arg(2 + k), Width)],
                                      data |-> MemRead(f, Num(1), Num(2))]>> \o @])

\* RETURN and REVERT keep a part of the memory; any length gives return data.
Return ==
  Exec({"RETURN", "REVERT"}, 2,
       LET f == IF Num(2) > 0 THEN MemCheck(F(2), Num(1) + Num(2), FALSE) ELSE F(2)
       IN  IF f.state # "RUNNING" THEN f
           ELSE [f EXCEPT !.ret = MemRead(f, Num(1), Num(2)),
                          !.state = IF Op = "REVERT" THEN "REVERTED" ELSE "STOPPED"])

-----------------------------------------------------------------------------
\* Opcodes on accounts

AddressOf(s) == Val(s) % Byte^Width
In(n) == [frames EXCEPT ![Depth] = F(n)]
With(fs, f) == [fs EXCEPT ![Depth] = f]

\* op_account: an account without a code has no hash and the size 0.
Account ==
  ExecAll({"BALANCE", "EXTCODESIZE", "EXTCODEHASH"}, 1,
    LET fs == GetAccount(In(1), Depth, AddressOf(Arg(1)), FALSE)
        f == fs[Depth]
        known == Has(fs, Depth, AddressOf(Arg(1)))
        acc == f.accounts[AddressOf(Arg(1))]
    IN  With(fs, CASE Op = "BALANCE" -> PushInt(f, IF known THEN acc.balance ELSE 0)
                   [] Op = "EXTCODESIZE" -> PushInt(f, IF known THEN Len(acc.code) ELSE 0)
                   [] OTHER -> IF known /\ acc.code # <<>> THEN Push(f, Optimize(Sha3(Bytes(acc.code))))
                               ELSE Faulted(f, "INVALID_ENV")))
Blockhash == Exec({"BLOCKHASH"}, 1, Faulted(F(1), "UNSUPPORTED"))

\* op_extcodecopy: the code from the offset to its end is aligned to the right.
ExtCodeCopy ==
  ExecAll({"EXTCODECOPY"}, 4,
    LET a == AddressOf(Arg(1))
        fs == GetAccount(In(4), Depth, a, FALSE)
        f == Charge(fs[Depth], 3 * Words(Num(4)))
        code == IF Has(fs, Depth, a) THEN Bytes(f.accounts[a].code) ELSE <<>>
    IN  With(fs, MemWrite(f, Num(2), SubSeq(code, Num(3) + 1, Len(code)), Num(4))))

\* Slots are those of evm->account.
Sload ==
  ExecAll({"SLOAD"}, 1,
    LET k == Val(Arg(1))
        fs == GetStorage(In(1), Depth, Top.account, k, FALSE)
        f == fs[Depth]
    IN  With(fs, Push(f, IF HasSlot(fs, Depth, Top.account, k)
                         THEN Optimize(f.accounts[Top.account].storage[k]) ELSE EnvSlot(f, k))))

\* op_sstore, with the prices of Constantinople.  Where a refund should be taken back, gas
\* is, and may wrap.
Sstore ==
  ExecAll({"SSTORE"}, 2,
    LET k == Val(Arg(1))
        value == Arg(2)
        fs == GetStorage(In(2), Depth, Top.account, k, TRUE)
        f == fs[Depth]
        current == f.accounts[Top.account].storage[k]
        original == EnvSlot(f, k)
        clean == BigCmp(original, current) = 0
        fresh == original = <<>>
        cost == IF BigCmp(value, current) = 0 THEN 200
                ELSE IF clean THEN 5000 + IF fresh THEN 20000 ELSE 0 ELSE 200
        cleared == IF BigCmp(value, current) = 0 THEN 0
                   ELSE IF clean THEN IF Val(value) = 0 THEN 15000 ELSE 0
                   ELSE (IF ~fresh /\ Val(current) # 0 THEN 15000 ELSE 0)
                        + IF BigCmp(original, value) # 0 THEN 0 ELSE IF fresh THEN 19800 ELSE 4800
        back == IF BigCmp(value, current) # 0 /\ ~clean /\ ~fresh /\ Val(current) = 0 THEN 15000 ELSE 0
        paid == Charge([f EXCEPT !.gas = Wrap(@ - back)], cost)
    IN  With(fs, [SetSlot(paid, Top.account, k, Pad(value, Width)) EXCEPT !.refund = @ + cleared]))

\* op_selfdestruct.  For the new account the frame itself pays.
Selfdestruct ==
  ExecAll({"SELFDESTRUCT"}, 1,
    LET heir == AddressOf(Arg(1))
        fs == GetAccount(In(1), Depth, Top.address, TRUE)
        balance == fs[Depth].accounts[Top.address].balance
        gs == GetAccount(fs, Depth, heir, FALSE)
        paid == IF Has(gs, Depth, heir) THEN gs[Depth] ELSE Charge(gs[Depth], 25000)
        moved == Transfer(GetAccount(With(gs, paid), Depth, heir, TRUE), Depth, Top.address, heir,
                          Digits(Width, balance), 0).fs
        hs == IF balance = 0 THEN fs ELSE moved
    IN  IF balance > 0 /\ paid.state # "RUNNING" THEN With(gs, paid)
        ELSE [hs EXCEPT ![Depth].accounts[Top.address] =
                          [balance |-> 0, nonce |-> 0, code |-> <<>>, storage |-> NoSlots],
                        ![Depth].refund = @ + 24000, ![Depth].state = "STOPPED"])

-----------------------------------------------------------------------------
\* Calls and creations

Least(x, y) == IF x < y THEN x ELSE y
Cells(s) == [k \in DOMAIN s |-> [op |-> OpOfByte[s[k]], v |-> s[k]]]
Precompiles == 1 .. 9                          \* evm_is_precompiled

\* evm_prepare_evm: the code is the one of the proof, whatever the frames below changed.
NewFrame(kind, address, dest, caller, value, data, code) ==
  [kind |-> kind, address |-> address, account |-> IF kind = "CALLCODE" THEN address ELSE dest,
   caller |-> caller, code |-> code, pos |-> 0,
   state |-> IF dest \in Precompiles THEN "PRECOMPILED" ELSE "RUNNING", stack |-> <<>>,
   mem |-> Zeros(Width), memLen |-> 0, gas |-> 0, initGas |-> 0, refund |-> 0, ret |-> None,
   last |-> <<>>, value |-> value, data |-> data, accounts |-> NoSlots, logs |-> <<>>,
   outOff |-> 0, outLen |-> 0, dest |-> dest]

\* UPDATE_SUBCALL_GAS: a part of 64 stays with the caller, a value is transferred in the
\* new frame's accounts.  If that fails, or leaves too little gas, the call is refused:
\* evm_run is not reached.
Enter(fs, f, asked) ==
  LET n == Len(fs)
      most == fs[n].gas - fs[n].gas \div 64
      gas == IF f.kind = "CREATE" THEN most ELSE Least(asked, most)
      paying == ~BigIsZero(f.value)
      calling == f.kind \in {"CALL", "CALLCODE"} /\ paying
      given == gas + IF calling THEN 2300 ELSE 0
      gs == Append(fs, [f EXCEPT !.gas = given, !.initGas = given])
      created == GetAccount(GetAccount(gs, n + 1, f.dest, TRUE), n + 1, f.caller, TRUE)
      counted == [created EXCEPT ![n + 1].accounts[f.dest].nonce = @ - (@ % Byte) + 1,
                                 ![n + 1].accounts[f.caller].nonce = @ + 1]
      t == Transfer(IF f.kind = "CREATE" THEN counted ELSE gs, n + 1, fs[n].address, f.address,
                    f.value, IF calling THEN 9000 ELSE 0)
  IN  IF t.error = None /\ t.fs[n].gas >= gas THEN [t.fs EXCEPT ![n].gas = @ - gas]
      ELSE [t.fs EXCEPT ![n + 1].state = "REFUSED"]

CallOps == {"CALL", "CALLCODE", "DELEGATECALL", "STATICCALL"}
\* op_call.  The input is read where the memory would be, allocated or not.
Call ==
  \E junk \in IF Running /\ Op \in CallOps THEN {0, Byte - 1} ELSE {0} :
    LET n == IF Op \in {"CALL", "CALLCODE"} THEN 7 ELSE 6
        to == AddressOf(Arg(2))
        address == IF Op \in {"CALLCODE", "DELEGATECALL"} THEN Top.address ELSE to
        value == CASE n = 7 -> Arg(3) [] Op = "DELEGATECALL" -> Top.value [] OTHER -> <<0>>
        caller == IF Op = "DELEGATECALL" THEN Top.caller ELSE Top.address
        out == IF Num(n) > 0 THEN MemCheck(F(n), Num(n - 1) + Num(n), FALSE) ELSE F(n)
        f == IF Num(n - 2) > 0 THEN MemCheck(out, Num(n - 3) + Num(n - 2), FALSE) ELSE out
        data == [k \in 1 .. Num(n - 2) |-> IF Num(n - 3) + k <= Len(f.mem) THEN f.mem[Num(n - 3) + k] ELSE junk]
        callee == [NewFrame(Op, address, to, caller, value, data, proof[to].code)
                     EXCEPT !.outOff = Num(n - 1), !.outLen = Num(n)]
    IN  ExecAll(CallOps, n, IF f.state = "RUNNING" THEN Enter(With(frames, f), callee, Val(Arg(1)))
                            ELSE With(frames, Faulted(F(n), "ILLEGAL_MEMORY_ACCESS")))

\* op_create: the code is what is allocated of the memory it names.
Create ==
  LET n == IF Op = "CREATE2" THEN 4 ELSE 3
      f == MemCheck(F(n), Num(2) + Num(3), FALSE)
      code == SubSeq(f.mem, Num(2) + 1, Least(Num(2) + Num(3), Len(f.mem)))
      fs == IF Op = "CREATE" THEN GetAccount(With(frames, f), Depth, Top.address, TRUE) ELSE With(frames, f)
      dest == NewAddress(IF Op = "CREATE" THEN <<Top.address, fs[Depth].accounts[Top.address].nonce>>
                         ELSE <<Top.address, Val(Arg(4)), code>>)
  IN  ExecAll({"CREATE", "CREATE2"}, n,
              IF f.state # "RUNNING" THEN With(frames, f)
              ELSE Enter(fs, NewFrame("CREATE", dest, dest, Top.address, Arg(1), <<>>, Cells(code)), 0))

\* evm_run_precompiled.  What the curve and the hashes compute is external.
PrecompiledGas(a, d) ==
  CASE a = 1 -> 3000 [] a = 2 -> 60 + 12 * Words(Len(d)) [] a = 3 -> 600 + 120 * Words(Len(d))
    [] a = 4 -> 15 + 3 * Words(Len(d)) [] a = 6 -> 500 [] a = 7 -> 40000 [] OTHER -> 0
\* pre_modexp: the lengths, the price and the result.
Part(d, k) == Val(SubSeq(d, k * Width + 1, (k + 1) * Width))
ModExp(d) ==
  LET b == Part(d, 0)
      e == Part(d, 1)
      m == Part(d, 2)
      at(k, n) == SubSeq(d, 3 * Width + k + 1, 3 * Width + k + n)
      exponent == at(b, e)
      set == {i \in 1 .. Least(e, Width) : exponent[i] # 0}
      i == CHOOSE x \in set : \A y \in set : x <= y
      high == IF set = {} THEN 0
              ELSE (e - i) * Bits + (CHOOSE n \in 0 .. Bits - 1 : exponent[i] \div 2^n = 1)
      length == high + IF e <= Width THEN 0 ELSE Bits * (e - Width)
      size == Longer(at(0, b), at(b + e, m))
      cost == (size * size * (IF length > 1 THEN length ELSE 1)) \div 20
      modulus == Val(at(b + e, m))
      power == IF modulus = 0 THEN 0
               ELSE FoldLeft(LAMBDA p, x : (p * Val(at(0, b))) % modulus, 1 % modulus, [x \in 1 .. Val(exponent) |-> x])
      out == Minimal(power)
  IN  IF Len(d) < 3 * Width \/ Len(d) < 3 * Width + b + e + m THEN [gas |-> 0, ret |-> None]
      ELSE [gas |-> cost, ret |-> IF power = 0 THEN <<>> ELSE out]

Point == Ones(2 * Width)
\* What the contract at a returns for the input d: a set of [ret, state].
PrecompiledResults(a, d) ==
  LET done(r) == [ret |-> r, state |-> "RETURNED"]
      failed(s) == [ret |-> None, state |-> s]
      point(n) == IF \A k \in 1 .. Least(Len(d), n) : d[k] = 0
                  THEN {[ret |-> Zeros(2 * Width), state |-> "CONSUMED"]}
                  ELSE {done(Point), [ret |-> Zeros(2 * Width), state |-> "INVALID_ENV"]}
  IN  CASE a = 1 -> IF Len(d) < 4 * Width \/ Part(d, 1) >= Byte THEN {done(None)}
                    ELSE {done(r) : r \in {None, Recovered}}
        [] a \in {2, 3} -> {done(Sha3(d))}
        [] a = 4 -> {done(d)}
        [] a = 5 -> IF ModExp(d).ret = None THEN {failed("ERROR")} ELSE {done(ModExp(d).ret)}
        [] a = 6 -> point(4 * Width)
        [] a = 7 -> point(2 * Width)
        [] OTHER -> {failed("ERROR")}         \* 8, and 9 for inputs of another length
Precompiled ==
  /\ frames # <<>> /\ Top.state = "PRECOMPILED"
  /\ LET price == IF Top.dest = 5 THEN ModExp(Top.data).gas ELSE PrecompiledGas(Top.dest, Top.data)
     IN  \E r \in PrecompiledResults(Top.dest, Top.data) :
           frames' = [frames EXCEPT ![Depth] =
                        IF Top.gas < price THEN [@ EXCEPT !.state = "OUT_OF_GAS"]
                        ELSE [@ EXCEPT !.gas = @ - price, !.ret = r.ret, !.state = r.state]]
  /\ UNCHANGED <<result, proof>>

-----------------------------------------------------------------------------
\* The end of a frame

\* A frame that runs off its code ends like one that stops.
Complete(f) == f.state \in {"STOPPED", "REVERTED"} \/ (f.state = "RUNNING" /\ f.pos >= Len(f.code))
Ended == frames # <<>> /\ (Complete(Top) \/ Top.state \in {"RETURNED", "REFUSED", "CONSUMED"} \cup Wrong)
Succeeded(f) == f.state \notin Wrong           \* a reverted or refused call, too
Commits(f) == Succeeded(f) /\ f.state # "REVERTED"

\* finalize_and_refund_gas
Finalized(fs) ==
  LET n == Len(fs)
      used == Wrap(fs[n].initGas - fs[n].gas)
      refund == fs[n].refund
  IN  IF ~Complete(fs[n]) THEN fs
      ELSE IF refund > 0 /\ n > 1
      THEN [fs EXCEPT ![n - 1].gas = Wrap(@ - used), ![n].gas = Wrap(@ + used + refund)]
      ELSE [fs EXCEPT ![n].gas = Wrap(@ + Least(refund, used \div 2))]

\* Mutant of Commit: the state of a reverted call is taken over.
CommitReverted(p, f) ==
  IF Succeeded(f) THEN [CopyState(p, f) EXCEPT !.gas = Wrap(@ + f.gas)] ELSE p

\* finalize_subcall_gas
Commit(p, f) ==
  LET q == IF Commits(f) THEN CopyState(p, f) ELSE p
  IN  IF Succeeded(f) THEN [q EXCEPT !.gas = Wrap(@ + f.gas)] ELSE q

\* The end of evm_sub_call: the caller gets 1 or the new address, the returned data and
\* the gas that is left; a new account gets its code.
Leave ==
  /\ Ended /\ Depth > 1
  /\ LET fs == Finalized(frames)
         f == fs[Depth]
         creates == f.kind = "CREATE" /\ f.ret # None /\ Succeeded(f)
         child == IF creates THEN [f EXCEPT !.accounts[f.dest].code = Cells(f.ret)] ELSE f
         pushed == IF f.kind = "CREATE" /\ Succeeded(f) /\ f.state # "CONSUMED"
                   THEN Push(fs[Depth - 1], Digits(Width, f.account))
                   ELSE PushInt(fs[Depth - 1], IF Succeeded(f) THEN 1 ELSE 0)
         written == IF f.outLen > 0 THEN MemWrite(pushed, f.outOff, f.ret, f.outLen) ELSE pushed
         p == IF ~Succeeded(f) \/ f.ret = None THEN pushed
              ELSE IF written.state = "RUNNING" THEN [written EXCEPT !.last = f.ret] ELSE written
     IN  frames' = [SubSeq(fs, 1, Depth - 1) EXCEPT ![Depth - 1] = Commit(p, child)]
  /\ UNCHANGED <<result, proof>>

Verdict(f) ==
  IF f.state \in Wrong \cup {"CONSUMED"} THEN f.state ELSE IF f.ret = None THEN "NO_RESULT" ELSE "RESULT"
\* The end of evm_call, and what in3_verify_eth_full makes of it.
Answer ==
  /\ Ended /\ Depth = 1
  /\ result' = [verdict |-> Verdict(Top), ret |-> IF Verdict(Top) = "RESULT" THEN Top.ret ELSE None]
  /\ frames' = <<>> /\ UNCHANGED proof

\* in3_verify_eth_full and evm_call: the value of a caller with more than one significant
\* byte is transferred before the frame has any gas.
Start ==
  /\ frames = <<>> /\ result = None
  /\ \E c \in Calls :
       LET f == NewFrame("CALL", c.to, c.to, c.from, c.value, c.data, proof[c.to].code)
           t == IF c.from >= Byte THEN Transfer(<<f>>, 1, c.from, c.to, c.value, 0) ELSE [fs |-> <<f>>, error |-> None]
       IN  IF t.error = None
           THEN frames' = [t.fs EXCEPT ![1].gas = c.gas, ![1].initGas = c.gas] /\ UNCHANGED result
           ELSE result' = [verdict |-> t.error, ret |-> None] /\ UNCHANGED frames
  /\ UNCHANGED proof

Done == result # None /\ UNCHANGED vars
Init == frames = <<>> /\ result = None /\ proof = Accounts
Next ==
  \/ Start \/ Stop \/ Invalid \/ Jumpdest \/ Arithmetic \/ ModArithmetic \/ Signextend \/ Compare
  \/ Unary \/ Bitwise2 \/ HashMemory \/ Values \/ Chainid \/ Dataload \/ Datacopy \/ Pop \/ Mload
  \/ Mstore \/ Jump \/ PushData \/ Dup \/ Swap \/ Log \/ Return \/ Account \/ Blockhash \/ ExtCodeCopy
  \/ Sload \/ Sstore \/ Selfdestruct \/ Call \/ Create \/ Precompiled \/ Leave \/ Answer \/ Done
Spec == Init /\ [][Next]_vars

-----------------------------------------------------------------------------
\* Properties

\* The frame is what evm_t can hold, and no stack is beyond its limit.
TypeOK ==
  /\ result # None => result.verdict \in {"RESULT", "NO_RESULT", "CONSUMED"} \cup Wrong
  /\ \A i \in 1 .. Depth :
       /\ frames[i].state \in States
       /\ Len(frames[i].stack) <= StackLimit
       /\ \A k \in DOMAIN frames[i].stack : frames[i].stack[k] \in Seq(0 .. Byte - 1)
       /\ frames[i].mem \in Seq(0 .. Byte - 1)
       /\ frames[i].gas \in 0 .. GasWrap - 1

\* Whether an instruction starts at pos when the code is read from its beginning.
PushSize(cell) == IF cell.op \in PushOps THEN Size[cell.op] ELSE 0
IsStart(code, pos) ==
  LET last[p \in 0 .. Len(code)] ==          \* the last instruction that starts at or before p
        LET q == last[p - 1]
        IN  IF p = 0 THEN 0 ELSE IF q + 1 + PushSize(code[q + 1]) = p THEN p ELSE q
  IN  last[pos] = pos
\* No byte of push data is ever executed: a jump ends on an instruction, although op_jump
\* scans the code its own way.
OnlyInstructionsRun ==
  \A i \in 1 .. Depth : frames[i].pos < Len(frames[i].code) => IsStart(frames[i].code, frames[i].pos)

Seen(fs, n, a) == {i \in 1 .. n : Has(fs, i, a)}
ViewOf(fs, n, a) ==
  LET acc == IF Seen(fs, n, a) = {} THEN proof[a] ELSE fs[Greatest(Seen(fs, n, a))].accounts[a]
  IN  <<acc.balance, acc.nonce, acc.code>>
Slot(fs, n, a, k) ==
  LET is == {i \in 1 .. n : HasSlot(fs, i, a, k)}
  IN  IF is = {} THEN None ELSE fs[Greatest(is)].accounts[a].storage[k]
Touched(fs) == UNION {DOMAIN fs[i].accounts : i \in DOMAIN fs}
SlotsOf(fs, a) ==
  UNION {DOMAIN fs[i].accounts[a].storage : i \in Seen(fs, Len(fs), a)}
Left(fs, gs) == Len(gs) < Len(fs) /\ Len(gs) > 0

\* A frame changes nothing of the frames below it while it runs, and a call that failed or
\* was reverted leaves their balances, nonces, codes, slots and logs as they were.  Copying
\* accounts and slots up (evm_get_account, evm_get_storage) must not show.
FailedCallLeavesNoTrace ==
  [][\A i \in 1 .. Least(Len(frames), Len(frames')) :
       (i < Len(frames) /\ ~(Left(frames, frames') /\ i = Len(frames') /\ Commits(Top)))
       => /\ frames'[i].logs = frames[i].logs
          /\ \A a \in Touched(frames) \cup Touched(frames') :
               /\ ViewOf(frames', i, a) = ViewOf(frames, i, a)
               /\ \A k \in SlotsOf(frames, a) :
                    Slot(frames, i, a, k) # None => Slot(frames', i, a, k) = Slot(frames, i, a, k)]_vars

\* A call that succeeded leaves its caller with the accounts, slots and logs as it saw them
\* (copy_state).  The code of a new account is only set when the call ends.
CommitIsExact ==
  [][(Left(frames, frames') /\ Commits(Top))
     => /\ \A a \in Touched(frames) :
             /\ ViewOf(frames', Len(frames'), a)[1] = ViewOf(frames, Depth, a)[1]
             /\ ViewOf(frames', Len(frames'), a)[2] = ViewOf(frames, Depth, a)[2]
             /\ \A k \in SlotsOf(frames, a) : Slot(frames', Len(frames'), a, k) = Slot(frames, Depth, a, k)
        /\ frames'[Len(frames')].logs = Top.logs \o Parent.logs]_vars

Wealth(fs, as) == MapThenSumSet(LAMBDA a : ViewOf(fs, Len(fs), a)[1], as)
\* Calls, creations, self-destructions and failures between them make no value: what all
\* accounts hold together never grows within a call.
NoValueIsMade ==
  [][LET touched == Touched(frames) \cup Touched(frames')
     IN  (frames # <<>> /\ frames' # <<>>) => Wealth(frames', touched) <= Wealth(frames, touched)]_vars

Gas(fs) == FoldLeft(LAMBDA g, f : g + f.gas, 0, fs)
Underflown(fs) == \E i \in DOMAIN fs : fs[i].gas > GasWrap \div 2
\* The gas of all frames together only grows by the stipend of a call, by a refund when a
\* frame ends, and by what a refused call was to be given.  (Where op_sstore takes back
\* more than there is, gas has wrapped.)
NoGasIsMade ==
  [][(frames # <<>> /\ frames' # <<>> /\ ~Underflown(frames) /\ ~Underflown(frames'))
     => LET last == frames'[Len(frames')]
        IN  Gas(frames') <= Gas(frames) + (IF Left(frames, frames') THEN Top.refund
                                           ELSE IF Len(frames') = Depth THEN 0
                                           ELSE IF last.state = "REFUSED" THEN last.gas ELSE 2300)]_vars

\* The comment on evm_sub_call: "a failure simply means we write a 0 on the stack".
FailureWritesZero ==
  [][(Left(frames, frames') /\ Top.state \in {"REVERTED", "REFUSED"} \cup Wrong /\ Top.kind # "CREATE")
     => frames'[Len(frames')].stack[1] = <<0>>]_vars
=============================================================================
