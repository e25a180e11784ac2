------------------------------- MODULE Processor -------------------------------
(***************************************************************************)
(* What an i386 promises of the operations in Alu, said without the code's *)
(* formulas: sums and quotients of integers, shifts one bit at a time, bit *)
(* by bit for the logical operations.  Every flag is compared where the    *)
(* processor defines it: CF, PF, AF, ZF, SF and OF of sums and             *)
(* differences; CF, OF, PF, ZF and SF of logic; CF, PF, ZF and SF of       *)
(* shifts, and OF of shifts and rotates by one; CF and OF of products; CF  *)
(* of bit tests, ZF of scans.                                              *)
(***************************************************************************)
EXTENDS Alu

Bool(flag, r) == flag \in r.flags

(* Is the number of ones among the low bits even?  Bit after bit.           *)
EvenOnes(x) ==
    LET even[n \in 0 .. PARITY_BITS] == IF n = 0 THEN TRUE ELSE even[n - 1] <=> Bit(x, n - 1) = 0
    IN  even[PARITY_BITS]

SignZeroParity(r) ==
    /\ Bool("ZF", r) <=> r.res = 0
    /\ Bool("SF", r) <=> Signed(r.res) < 0
    /\ Bool("PF", r) <=> EvenOnes(r.res)

(* The carry into the bit above the nibble.                                 *)
NibbleCarry(a, b, r) == Bool("AF", r) <=> (((a ^^ b) ^^ r.res) \div NIBBLE) % 2 = 1

AddRight(a, b, c, r) ==
    /\ (r.res + (IF Bool("CF", r) THEN MASK + 1 ELSE 0)) = a + b + c
    /\ Bool("OF", r) <=> ~Fits(Signed(a) + Signed(b) + c)
    /\ SignZeroParity(r) /\ NibbleCarry(a, b, r)

SubRight(a, b, c, r) ==
    /\ (r.res - (IF Bool("CF", r) THEN MASK + 1 ELSE 0)) = a - b - c
    /\ Bool("OF", r) <=> ~Fits(Signed(a) - Signed(b) - c)
    /\ SignZeroParity(r) /\ NibbleCarry(a, b, r)

(* Comparing: the conditions of jcc and setcc order the two operands, and   *)
(* tell sign, overflow and parity of their difference.                      *)
CompareRight(a, b, f) ==
    /\ _cond("o",  f) <=> ~Fits(Signed(a) - Signed(b))
    /\ _cond("s",  f) <=> Neg((a - b) % (MASK + 1))
    /\ _cond("p",  f) <=> EvenOnes((a - b) % (MASK + 1))
    /\ _cond("b",  f) <=> a < b
    /\ _cond("be", f) <=> a <= b
    /\ _cond("e",  f) <=> a = b
    /\ _cond("l",  f) <=> Signed(a) < Signed(b)
    /\ _cond("le", f) <=> Signed(a) <= Signed(b)

Each(P(_, _, _), a, b, t) == \A i \in 0 .. Bits - 1 : P(Bit(a, i), Bit(b, i), Bit(t, i))
LogicRight(op, a, b, r) ==
    /\ CASE op = "or"  -> Each(LAMBDA x, y, z : z = 1 <=> 1 \in {x, y}, a, b, r.res)
         [] op = "and" -> Each(LAMBDA x, y, z : z = 0 <=> 0 \in {x, y}, a, b, r.res)
         [] op = "xor" -> Each(LAMBDA x, y, z : z = 1 <=> x # y, a, b, r.res)
    /\ ~Bool("CF", r) /\ ~Bool("OF", r) /\ SignZeroParity(r)

AluRight(a, b, f) ==
    \A op \in AluOps :
        LET r == _alu_body(op, a, b, f)
        IN  /\ Bool("DF", r) <=> "DF" \in f
            /\ CASE op = "add" -> AddRight(a, b, 0, r)
                 [] op = "adc" -> AddRight(a, b, Carry(f), r)
                 [] op = "sub" -> SubRight(a, b, 0, r)
                 [] op = "sbb" -> SubRight(a, b, Carry(f), r)
                 [] op = "cmp" -> SubRight(a, b, 0, r) /\ CompareRight(a, b, r.flags)
                 [] OTHER      -> LogicRight(op, a, b, r)

(* inc and dec are an add and a sub of 1 that leave the carry alone.        *)
UnaryRight(a, f) ==
    LET same(r, s) == r.res = s.res /\ r.flags \ {"CF"} = s.flags \ {"CF"}
    IN  /\ same(Unary("inc", a, f), _f_add(a, 1, 0, f))
        /\ same(Unary("dec", a, f), _f_sub(a, 1, 0, f))
        /\ \A op \in {"inc", "dec"} : Bool("CF", Unary(op, a, f)) <=> "CF" \in f
        /\ SubRight(0, a, 0, Unary("neg", a, f))
        /\ Unary("not", a, f).res + a = MASK /\ Unary("not", a, f).flags = f

-----------------------------------------------------------------------------
(* Shifts, one bit after the other: the value, and the bit that went out.   *)

OneBit(kind, a) ==
    LET low == a % 2   high == IF Neg(a) THEN 1 ELSE 0   top == 2 ^ (Bits - 1)
    IN  CASE kind = "shl" -> <<(2 * a) % (MASK + 1), high>>
          [] kind = "rol" -> <<((2 * a) % (MASK + 1)) + high, high>>
          [] kind = "shr" -> <<a \div 2, low>>
          [] kind = "sar" -> <<(a \div 2) + high * top, low>>
          [] kind = "ror" -> <<(a \div 2) + low * top, low>>

ShiftRight(a, f) ==
    \A kind \in Shifts :
        LET by[n \in 0 .. COUNT_MASK] ==
                IF n = 0 THEN <<a, Carry(f)>> ELSE OneBit(kind, by[n - 1][1])
        IN  \A cnt \in 0 .. COUNT_MASK :
                LET r == Shift(kind, a, cnt, f)
                IN  /\ r.res = by[cnt][1] /\ (Bool("CF", r) <=> by[cnt][2] = 1)
                    /\ Bool("DF", r) <=> "DF" \in f
                    /\ cnt = 1 => (Bool("OF", r) <=> Neg(r.res) # Neg(a))
                    /\ IF cnt = 0 THEN r.flags = f
                       ELSE IF kind \in {"rol", "ror"}
                       THEN r.flags \ {"CF", "OF"} = f \ {"CF", "OF"}
                       ELSE SignZeroParity(r)

(* shld and shrd: the operand with the other one's bits coming in.          *)
DoubleRight(dst, src, f) ==
    LET in(x, i)  == IF i \in 0 .. Bits - 1 THEN Bit(x, i) ELSE 0
        left(i)   == IF i >= 0 THEN in(dst, i) ELSE in(src, Bits + i)
        right(i)  == IF i < Bits THEN in(dst, i) ELSE in(src, i - Bits)
    IN  \A cnt \in 1 .. Bits :
            LET l == _h_shd(TRUE, dst, src, cnt, f)   r == _h_shd(FALSE, dst, src, cnt, f)
            IN  /\ \A i \in 0 .. Bits - 1 : Bit(l.res, i) = left(i - cnt) /\ Bit(r.res, i) = right(i + cnt)
                /\ Bool("CF", l) <=> left(Bits - cnt) = 1
                /\ Bool("CF", r) <=> right(cnt - 1) = 1
                /\ SignZeroParity(l) /\ SignZeroParity(r)

-----------------------------------------------------------------------------
(* Multiplication and division.                                             *)

Wide(hi, lo) == hi * (MASK + 1) + lo

MulRight(a, b, f) ==
    LET u == _mul_unsigned(a, b, f)   s == _mul_signed(a, b, f)
    IN  /\ Wide(u.hi, u.lo) = a * b
        /\ ("CF" \in u.flags) <=> a * b > MASK
        /\ Wide(Signed(s.hi), s.lo) = Signed(a) * Signed(b)
        /\ ("CF" \in s.flags) <=> Signed(s.lo) # Signed(a) * Signed(b)
        /\ \A p \in {u, s} : ("CF" \in p.flags <=> "OF" \in p.flags) /\ ("DF" \in p.flags <=> "DF" \in f)

(* The quotient is cut towards zero, so the remainder has the sign of the   *)
(* dividend; #DE exactly when no quotient fits.                             *)
DivRight(hi, lo, src) ==
    LET n == Wide(hi, lo)   m == Wide(Signed(hi), lo)   d == Signed(src)
        cut(q) == LET r == m - Signed(q) * d IN Abs(r) < Abs(d) /\ (r = 0 \/ (r < 0) = (m < 0))
        u == _div_unsigned(hi, lo, src)   s == _div_signed(hi, lo, src)
    IN  /\ (u = {}) <=> ~\E q \in Operand : n - q * src \in 0 .. src - 1
        /\ \A x \in u : x.lo * src + x.hi = n /\ x.hi < src /\ x.lo \in Operand
        /\ (s = {}) <=> ~\E q \in Operand : cut(q)
        /\ \A x \in s : Signed(x.lo) * d + Signed(x.hi) = m /\ cut(x.lo)

-----------------------------------------------------------------------------
BitsRight(val, off, f) ==
    \A sub \in BitOps :
        LET r == _bt_impl(sub, val, off, f)
        IN  /\ Bool("CF", r) <=> Bit(val, off % Bits) = 1
            /\ r.flags \ {"CF"} = f \ {"CF"}
            /\ \A i \in 0 .. Bits - 1 :
                  Bit(r.res, i) = IF i # off % Bits \/ sub = "bt" THEN Bit(val, i)
                                  ELSE CASE sub = "bts" -> 1 [] sub = "btr" -> 0
                                         [] sub = "btc" -> 1 - Bit(val, i)

(* bsf and bsr: the number of the lowest and of the highest bit that is set.*)
ScanRight(v, f) ==
    LET lowest == _h_bsf(TRUE, v, 0, f).res   highest == _h_bsf(FALSE, v, 0, f).res
    IN  IF v = 0 THEN "ZF" \in _h_bsf(TRUE, v, 0, f).flags
        ELSE /\ 2 ^ highest <= v /\ v < 2 ^ (highest + 1)
             /\ v % 2 ^ lowest = 0 /\ v % 2 ^ (lowest + 1) # 0

(* Everything above for one content of the registers and every operand.     *)
RightFor(lo, hi, f) ==
    /\ \A b \in Operand : AluRight(lo, b, f) /\ MulRight(lo, b, f) /\ DivRight(hi, lo, b)
    /\ \A off \in 0 .. 2 * Bits - 1 : BitsRight(lo, off, f)
    /\ UnaryRight(lo, f) /\ ShiftRight(lo, f) /\ DoubleRight(lo, hi, f) /\ ScanRight(lo, f)
    /\ Wide(Signed(_h_cwd(lo)), lo) = Signed(lo)
=============================================================================
