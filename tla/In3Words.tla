------------------------------ MODULE In3Words ------------------------------
(***************************************************************************)
(* The arithmetic of in3-c's EVM (verifier/eth1/evm/big.c and the pure      *)
(* part of opcodes.c).  A number is a string of bytes, the highest first,   *)
(* of any length: what the code does depends on the length, not only on the *)
(* value.  A byte has 8 bits, a word 32 bytes and an uint64_t 8 bytes in    *)
(* the code; here these are Bits, Width and Long.                           *)
(***************************************************************************)
EXTENDS Integers, Sequences, SequencesExt, Bitwise

CONSTANTS Bits, Width, Long

Byte == 2^Bits
Zeros(n) == [k \in 1 .. n |-> 0]
Ones(n) == [k \in 1 .. n |-> Byte - 1]
Final(s, n) == SubSeq(s, Len(s) - n + 1, Len(s))      \* the last n bytes
Longer(a, b) == IF Len(a) > Len(b) THEN Len(a) ELSE Len(b)

\* bytes_to_long: the number a string stands for.
Val(s) == FoldLeft(LAMBDA v, b : v * Byte + b, 0, s)
\* long_to_bytes: the last n bytes of a number.
Digits(n, v) == [k \in 1 .. n |-> (v \div Byte^(n - k)) % Byte]

\* optimize_len drops leading zeros but keeps one byte.
Optimize(s) ==
  LET keep == {k \in 1 .. Len(s) : k = Len(s) \/ s[k] # 0}
  IN  IF s = <<>> THEN s ELSE SubSeq(s, CHOOSE k \in keep : \A j \in keep : k <= j, Len(s))
\* uint256_set aligns a string to the right of n bytes.
Pad(s, n) == Zeros(n - Len(s)) \o s
Minimal(v) == Optimize(Digits(2 * Width + 1, v))

\* big_is_zero: not so for a string without bytes.
BigIsZero(s) == Optimize(s) = <<0>>
\* big_log256
BigLog256(s) == IF Val(s) = 0 THEN 0 ELSE Len(Optimize(s))

\* big_cmp
BigCmp(a, b) ==
  LET n == Longer(a, b)
      x == Pad(a, n)
      y == Pad(b, n)
      ks == {k \in 1 .. n : x[k] # y[k]}
      first == CHOOSE k \in ks : \A j \in ks : k <= j
  IN  IF ks = {} THEN 0 ELSE IF x[first] > y[first] THEN 1 ELSE -1

-----------------------------------------------------------------------------
\* Ripple computes n bytes from the last to the first; column(k, c) is what byte k and
\* the carry c make together.
Ripple(column(_, _), n, carry) ==
  FoldLeft(LAMBDA r, j : LET v == column(n + 1 - j, r.carry)
                         IN  [carry |-> v \div Byte, out |-> <<v % Byte>> \o r.out],
           [carry |-> carry, out |-> <<>>], [j \in 1 .. n |-> j])
\* The byte k of n when s is aligned to the right.
At(s, n, k) == IF k > n - Len(s) THEN s[k - (n - Len(s))] ELSE 0

\* big_sign: the two's complement within the length of the string.
BigSign(s) == Ripple(LAMBDA k, c : Byte - 1 - s[k] + c, Len(s), 1).out
\* big_signed looks at the first byte, whatever the length; the value is then made absolute.
BigSigned(s) == s # <<>> /\ s[1] >= Byte \div 2
Absolute(s) == IF BigSigned(s) THEN BigSign(s) ELSE s

\* big_add: at most max bytes, any number of them if max is 0.
BigAdd(a, b, max) ==
  LET x == Optimize(a)
      y == Optimize(b)
      n == Longer(x, y) + 1
      l == IF max > 0 /\ n > max THEN max ELSE n
  IN  Ripple(LAMBDA k, c : At(x, l, k) + At(y, l, k) + c, l, 0).out

\* big_sub: a negative result is filled to a word.
BigSub(a, b) ==
  LET x == Optimize(a)
      y == Optimize(b)
      n == Longer(x, y) + 1
      l == IF n > Width THEN Width ELSE n
      r == Ripple(LAMBDA k, c : At(x, l, k) - At(y, l, k) + c, l, 0)
  IN  IF r.carry < 0 /\ l < Width THEN Ones(Width - l) \o r.out ELSE r.out

\* big_mul: a product of longs, or column by column; the last max bytes.
BigMul(a, b, max) ==
  LET x == Optimize(a)
      y == Optimize(b)
      n == Len(x) + Len(y)
      Column(k, c) ==
        c + FoldLeft(LAMBDA v, i : IF k - i \in 1 .. Len(y) THEN v + x[i] * y[k - i] ELSE v,
                     0, [i \in 1 .. Len(x) |-> i])
      product == IF n < Long + 1 THEN Optimize(Digits(Long, Val(x) * Val(y)))
                 ELSE Optimize(Ripple(Column, n, 0).out)
  IN  IF Len(product) > max THEN Final(product, max) ELSE product

\* mp_exptmod, a library function, with the modulus of a word.
ExptMod(v, n) ==
  FoldLeft(LAMBDA p, i : (p * v) % Byte^Width, 1 % Byte^Width, [i \in 1 .. n |-> i])
\* big_exp: shortcuts for the exponents 0 and 1 and for the base 2, else the library.
BigExp(a, b) ==
  LET x == Optimize(a)
      y == Optimize(b)
      shifted == Optimize(Digits(2 * Width, 2^Val(y)))
  IN  IF y \in {<<>>, <<0>>} THEN <<1>>
      ELSE IF y = <<1>> THEN x
      ELSE IF x = <<2>>
      THEN IF Len(y) > 1 THEN <<0>>
           ELSE IF Len(shifted) > Width THEN Final(shifted, Width) ELSE shifted
      ELSE Minimal(ExptMod(Val(x), Val(y)))

\* big_divmod: longs, long division by a long, or the library.
BigDivmod(a, b) ==
  LET n == Optimize(a)
      d == Optimize(b)
      ud == Val(d)
      r == FoldLeft(LAMBDA r, byte :
                      LET ur == r.rest * Byte + byte
                      IN  [rest |-> ur % ud,
                           q |-> IF ur >= ud THEN Append(r.q, ur \div ud)
                                 ELSE IF r.q = <<>> THEN r.q ELSE Append(r.q, 0)],
                    [rest |-> 0, q |-> <<>>], n)
  IN  IF Len(d) < Long /\ Len(n) < Long + 1
      THEN [q |-> Optimize(Digits(Long, Val(n) \div ud)), r |-> Optimize(Digits(Long, Val(n) % ud))]
      ELSE IF Len(d) < Long THEN [q |-> r.q, r |-> Optimize(Digits(Long, r.rest))]
      ELSE [q |-> Minimal(Val(n) \div ud), r |-> Minimal(Val(n) % ud)]

\* big_div: zero bytes at the end of both are dropped; the signs are those of the strings.
BigDiv(a, b, signed) ==
  LET x0 == Optimize(a)
      y0 == Optimize(b)
      ends == {k \in 0 .. Longer(x0, y0) :
                 /\ k = 0 \/ (k < Len(x0) /\ k < Len(y0))
                 /\ \A j \in 1 .. k : x0[Len(x0) + 1 - j] = 0 /\ y0[Len(y0) + 1 - j] = 0}
      cut == CHOOSE k \in ends : \A j \in ends : j <= k
      x == SubSeq(x0, 1, Len(x0) - cut)
      y == SubSeq(y0, 1, Len(y0) - cut)
      quotient == BigDivmod(Absolute(x), Absolute(y)).q
  IN  IF y \in {<<>>, <<0>>} THEN <<0>>
      ELSE IF ~signed THEN BigDivmod(x, y).q
      ELSE IF BigSigned(x) # BigSigned(y) THEN BigSign(Pad(quotient, Width)) ELSE quotient

\* big_mod, with a shortcut for the powers of two.
BigMod(a, b, signed) ==
  LET x == Optimize(a)
      y == Optimize(b)
      power == (y[1] & (y[1] - 1)) = 0 /\ \A k \in 2 .. Len(y) : y[k] = 0
      rest == BigDivmod(Absolute(x), Absolute(y)).r
  IN  IF Len(y) > Len(x) /\ ~signed THEN x
      ELSE IF y \in {<<>>, <<0>>} THEN <<0>>
      ELSE IF signed THEN IF BigSigned(x) THEN BigSign(Pad(rest, Width)) ELSE rest
      ELSE IF power
      THEN <<x[Len(x) - Len(y) + 1] & (y[1] - 1)>> \o Final(x, Len(y) - 1)
      ELSE BigDivmod(x, y).r

\* big_shift_left and big_shift_right: the bits within the bytes, then the bytes.
BigShiftLeft(s, bits) ==
  LET r == bits % Bits
      n == (bits - r) \div Bits
      x == IF r = 0 THEN s ELSE Ripple(LAMBDA k, c : s[k] * 2^r + c, Len(s), 0).out
  IN  [k \in 1 .. Len(s) |-> IF k + n <= Len(s) THEN x[k + n] ELSE 0]

\* Mutant of BigShiftRight: the bits of the byte before are lost.
BigShiftRightBytewise(s, bits) ==
  LET r == bits % Bits
      n == (bits - r) \div Bits
  IN  [k \in 1 .. Len(s) |-> IF k - n >= 1 THEN s[k - n] \div 2^r ELSE 0]

BigShiftRight(s, bits) ==
  LET r == bits % Bits
      n == (bits - r) \div Bits
      x == [k \in 1 .. Len(s) |->
              (s[k] \div 2^r) + (IF k > 1 /\ r > 0 THEN (s[k - 1] * 2^(Bits - r)) % Byte ELSE 0)]
  IN  [k \in 1 .. Len(s) |-> IF k - n >= 1 THEN x[k - n] ELSE 0]

-----------------------------------------------------------------------------
\* The opcodes on words (opcodes.c): the entries they take, the entry they push.

\* evm_stack_pop_byte: the byte, or -1 if the entry does not fit one.
PopByte(s) == IF s = <<>> \/ \E k \in 1 .. Len(s) - 1 : s[k] # 0 THEN -1 ELSE s[Len(s)]

OpIsZero(a) == IF \A k \in 1 .. Len(a) : a[k] = 0 THEN <<1>> ELSE <<0>>
OpNot(a) == Optimize([k \in 1 .. Width |-> Byte - 1 - Pad(a, Width)[k]])
OpBit(op, a, b) ==
  LET n == Longer(a, b)
      x == Pad(a, n)
      y == Pad(b, n)
  IN  Optimize([k \in 1 .. n |-> CASE op = "AND" -> x[k] & y[k]
                                    [] op = "OR" -> x[k] | y[k]
                                    [] op = "XOR" -> x[k] ^^ y[k]])
OpByte(index, b) ==
  LET pos == PopByte(index)
  IN  IF pos = -1 \/ pos >= Width \/ pos < Width - Len(b) THEN <<0>>
      ELSE <<b[pos + Len(b) - Width + 1]>>

\* op_signextend for k < Width: the bytes above byte k are filled with its sign.  When the
\* entry is shorter, what is before the buffer is read: junk stands for it.
OpSignextend(k, val, junk) ==
  LET l == Len(val)
      negative == l > k /\ val[l - k] >= Byte \div 2
      tail == IF l > k THEN Final(val, k + 1) ELSE junk \o val
  IN  Optimize((IF negative THEN Ones(Width - 1 - k) ELSE Zeros(Width - 1 - k)) \o tail)

\* op_cmp: sign is -1 for less, 0 for equal, 1 for greater.
OpCmp(sign, signed, a, b) ==
  LET cmp == IF signed THEN BigCmp(Absolute(a), Absolute(b)) ELSE BigCmp(a, b)
  IN  IF signed /\ sign # 0 /\ BigSigned(a) /\ BigSigned(b) THEN cmp # sign
      ELSE IF signed /\ sign # 0 /\ (BigSigned(a) \/ BigSigned(b))
      THEN IF sign < 0 THEN BigSigned(a) ELSE BigSigned(b)
      ELSE cmp = sign

\* op_shift: a shift that does not fit a byte leaves zero, or the sign.
OpShift(op, index, b) ==
  LET pos == PopByte(index)
      negative == Len(b) = Width /\ b[1] >= Byte \div 2
      word == Pad(b, Width)
      right == BigShiftRight(word, pos)
      fill(k) == IF k <= pos \div Bits THEN Byte - 1
                 ELSE IF k = pos \div Bits + 1
                 THEN right[k] | (Byte - 2^(Bits - (pos % Bits)))
                 ELSE right[k]
  IN  IF pos = -1 THEN IF op = "SAR" /\ negative THEN Ones(Width) ELSE <<0>>
      ELSE IF op = "SHL" THEN Optimize(BigShiftLeft(word, pos))
      ELSE IF op = "SAR" /\ negative THEN [k \in 1 .. Width |-> fill(k)]
      ELSE Optimize(right)

\* op_math without a modulus, and with the one ADDMOD and MULMOD take from the stack.
OpMath(op, a, b) ==
  CASE op = "ADD" -> BigAdd(a, b, Width)
    [] op = "SUB" -> BigSub(a, b)
    [] op = "MUL" -> BigMul(a, b, Width)
    [] op = "DIV" -> BigDiv(a, b, FALSE)
    [] op = "SDIV" -> BigDiv(a, b, TRUE)
    [] op = "MOD" -> BigMod(a, b, FALSE)
    [] op = "SMOD" -> BigMod(a, b, TRUE)
    [] op = "EXP" -> BigExp(a, b)
OpMathMod(op, a, b, m) ==
  Optimize(BigMod(IF op = "ADDMOD" THEN BigAdd(a, b, 2 * Width) ELSE BigMul(a, b, 2 * Width + 1),
                  m, FALSE))
-----------------------------------------------------------------------------
(* Properties of two numbers a and b; a may be longer than a word *)

Modulus == Byte^Width
Signed(s) == IF s[1] >= Byte \div 2 THEN Val(s) - Byte^Len(s) ELSE Val(s)
Towards0(x, y) ==
  LET q == (IF x < 0 THEN -x ELSE x) \div (IF y < 0 THEN -y ELSE y)
  IN  IF (x < 0) # (y < 0) THEN -q ELSE q
Whole(s) == Len(s) = Width

\* Sums, differences, products and powers of words of any length are those of the integers
\* modulo 2^256, and quotients and remainders those of the integers (big.c).
ArithmeticIsExact(a, b) ==
  /\ Len(a) <= Width =>
       /\ Val(BigAdd(a, b, Width)) = (Val(a) + Val(b)) % Modulus
       /\ Val(BigSub(a, b)) = (Val(a) - Val(b)) % Modulus
       /\ Val(BigMul(a, b, Width)) = (Val(a) * Val(b)) % Modulus
       /\ BigCmp(a, b) = (IF Val(a) < Val(b) THEN -1 ELSE IF Val(a) = Val(b) THEN 0 ELSE 1)
  /\ Val(b) # 0 =>
       /\ Len(a) <= Width => Val(BigDiv(a, b, FALSE)) = Val(a) \div Val(b)
       /\ Val(BigMod(a, b, FALSE)) = Val(a) % Val(b)

\* SDIV, SMOD, SLT and SGT take whole words as two's complement (big.c, opcodes.c op_cmp).  The
\* code misses that a negative word is neither less nor greater than itself, and the sign of a
\* positive divisor or dividend whose first byte that is not zero has the upper bit set.
SignsAreKept(a, b) ==
  LET sure(s) == Optimize(s) = s \/ Optimize(s)[1] < Byte \div 2
      quotient == Towards0(Signed(a), Signed(b))
  IN  Whole(a) /\ Whole(b) =>
        /\ (Val(b) # 0 /\ sure(a) /\ sure(b)) =>
             /\ Val(BigDiv(a, b, TRUE)) = quotient % Modulus
             /\ Val(BigMod(a, b, TRUE)) = (Signed(a) - Signed(b) * quotient) % Modulus
        /\ (a # b \/ Signed(a) >= 0) =>
             /\ OpCmp(1, TRUE, a, b) = (Signed(a) > Signed(b))
             /\ OpCmp(-1, TRUE, a, b) = (Signed(a) < Signed(b))

\* SHL, SHR and SAR multiply or divide by a power of two, by any number of bits up to what
\* evm_stack_pop_byte can return and beyond the width of a word (opcodes.c op_shift).
ShiftsArePowers(a, b) ==
  LET p == PopByte(b)
  IN  (Len(a) <= Width /\ p # -1) =>
        /\ Val(OpShift("SHL", b, a)) = (Val(a) * 2^p) % Modulus
        /\ Val(OpShift("SHR", b, a)) = Val(a) \div 2^p
        /\ Whole(a) => Val(OpShift("SAR", b, a)) = (Signed(a) \div 2^p) % Modulus
=============================================================================
