---------------------------------- MODULE Alu ----------------------------------
(***************************************************************************)
(* What the handlers of cpu86.py compute: results and flags of arithmetic, *)
(* shifts, multiplication and division, bit instructions and conditions,   *)
(* for an operand of Bits bits.  EFLAGS is the set of the flags that are   *)
(* set; its constant bits are left out.                                    *)
(***************************************************************************)
EXTENDS Integers, FiniteSets, Bitwise, TLC

CONSTANTS Bits,        \* width of the operand: 8, 16 or 32
          NIBBLE,      \* 16: what AF looks at is a % NIBBLE
          PARITY_BITS, \* 8: PF looks at so many low bits
          COUNT_MASK   \* 31: largest count of a shift

ASSUME AluAssumption ==
    /\ {Bits, NIBBLE, PARITY_BITS, COUNT_MASK} \subseteq Nat \ {0}
    /\ NIBBLE < 2 ^ Bits

Flag == {"CF", "PF", "AF", "ZF", "SF", "DF", "OF"}
MASK == 2 ^ Bits - 1
Operand   == 0 .. MASK
Neg(x)    == x >= 2 ^ (Bits - 1)                      \* x & SIGN
Signed(x) == IF Neg(x) THEN x - (MASK + 1) ELSE x
Bit(x, i) == (x \div 2 ^ i) % 2
If(c, flag) == IF c THEN {flag} ELSE {}

_PARITY(x) == If(Cardinality({i \in 0 .. PARITY_BITS - 1 : Bit(x, i) = 1}) % 2 = 0, "PF")
Szp(t)     == If(t = 0, "ZF") \cup If(Neg(t), "SF") \cup _PARITY(t)
Result(res, flags) == [res |-> res, flags |-> flags]

-----------------------------------------------------------------------------
(* _alu_body and the pieces it is put together from.                        *)

_f_add(a, b, c, f) ==
    LET t == (a + b + c) % (MASK + 1)
    IN  Result(t, (f \cap {"DF"}) \cup Szp(t) \cup If(a + b + c > MASK, "CF")
                  \cup If(Neg(a) = Neg(b) /\ Neg(a) # Neg(t), "OF")
                  \cup If((a % NIBBLE) + (b % NIBBLE) + c >= NIBBLE, "AF"))

_f_sub_NoBorrow(a, b, c, f) ==
    LET t == (a - b - c) % (MASK + 1)
    IN  Result(t, (f \cap {"DF"}) \cup Szp(t) \cup If(a < b, "CF")
                  \cup If(Neg(a) # Neg(b) /\ Neg(a) # Neg(t), "OF")
                  \cup If((a % NIBBLE) < (b % NIBBLE) + c, "AF"))
_f_sub(a, b, c, f) ==
    LET t == (a - b - c) % (MASK + 1)
    IN  Result(t, (f \cap {"DF"}) \cup Szp(t) \cup If(a - b - c < 0, "CF")
                  \cup If(Neg(a) # Neg(b) /\ Neg(a) # Neg(t), "OF")
                  \cup If((a % NIBBLE) < (b % NIBBLE) + c, "AF"))

_F_LOGIC(res, f) == Result(res, (f \cap {"DF"}) \cup Szp(res))

Carry(f) == IF "CF" \in f THEN 1 ELSE 0

AluOps == {"add", "or", "adc", "sbb", "and", "sub", "xor", "cmp"}
_alu_body(op, a, b, f) ==
    CASE op = "add"           -> _f_add(a, b, 0, f)
      [] op = "adc"           -> _f_add(a, b, Carry(f), f)
      [] op \in {"sub", "cmp"} -> _f_sub(a, b, 0, f)
      [] op = "sbb"           -> _f_sub(a, b, Carry(f), f)
      [] op = "or"            -> _F_LOGIC(a | b, f)
      [] op = "and"           -> _F_LOGIC(a & b, f)
      [] op = "xor"           -> _F_LOGIC(a ^^ b, f)

(* inc, dec and neg, which take one operand.                                *)
UnaryOps == {"inc", "dec", "neg", "not"}
Unary(op, a, f) ==
    LET up   == (a + 1) % (MASK + 1)
        down == (a - 1) % (MASK + 1)
        kept == f \cap {"DF", "CF"}
    IN  CASE op = "inc" -> Result(up,   kept \cup Szp(up) \cup If(~Neg(a) /\ Neg(up), "OF")
                                             \cup If((a % NIBBLE) + 1 >= NIBBLE, "AF"))
          [] op = "dec" -> Result(down, kept \cup Szp(down) \cup If(Neg(a) /\ ~Neg(down), "OF")
                                             \cup If(a % NIBBLE < 1, "AF"))
          [] op = "neg" -> _f_sub(0, a, 0, f)
          [] op = "not" -> Result(MASK - a, f)

-----------------------------------------------------------------------------
(* _shift_body and _shift_flags.  A count of 0 changes nothing.             *)

Shifts == {"rol", "ror", "shl", "shr", "sar"}

_shift_body(kind, a, cnt) ==
    LET c   == cnt % Bits
        shl == a * 2 ^ cnt
        rol == IF c = 0 THEN a ELSE (a * 2 ^ c + a \div 2 ^ (Bits - c)) % (MASK + 1)
        ror == IF c = 0 THEN a ELSE (a \div 2 ^ c + a * 2 ^ (Bits - c)) % (MASK + 1)
        top(x, cf) == Neg(x) # cf
    IN  CASE kind = "shl" -> LET t == shl % (MASK + 1)  cf == Bit(shl, Bits) = 1
                             IN  [res |-> t, cf |-> cf, of |-> top(t, cf)]
          [] kind = "shr" -> [res |-> a \div 2 ^ cnt,
                              cf  |-> cnt <= Bits /\ Bit(a, cnt - 1) = 1,
                              of  |-> cnt = 1 /\ Neg(a)]
          [] kind = "sar" -> [res |-> (Signed(a) \div 2 ^ cnt) % (MASK + 1),
                              cf  |-> (Signed(a) \div 2 ^ (cnt - 1)) % 2 = 1, of |-> FALSE]
          [] kind = "rol" -> [res |-> rol, cf |-> Bit(rol, 0) = 1, of |-> top(rol, Bit(rol, 0) = 1)]
          [] kind = "ror" -> [res |-> ror, cf |-> Neg(ror), of |-> Neg(ror) # (Bit(ror, Bits - 2) = 1)]

Shift(kind, a, cnt, f) ==
    LET s    == _shift_body(kind, a, cnt)
        kept == (f \cap {"DF"}) \cup If(s.cf, "CF")
    IN  IF cnt = 0 THEN Result(a, f)
        ELSE IF kind \in {"rol", "ror"}
             THEN Result(s.res, kept \cup If(s.of, "OF") \cup (f \cap {"ZF", "SF", "PF", "AF"}))
             ELSE Result(s.res, kept \cup Szp(s.res) \cup If(s.of /\ cnt = 1, "OF"))

(* shld and shrd by at most the width; a shld by more raises ValueError.    *)
_h_shd(left, dst, src, cnt, f) ==
    LET res == IF left THEN (((dst * (MASK + 1) + src) * 2 ^ cnt) \div (MASK + 1)) % (MASK + 1)
               ELSE ((src * (MASK + 1) + dst) \div 2 ^ cnt) % (MASK + 1)
        cf  == IF left THEN Bit(dst, Bits - cnt) = 1 ELSE Bit(dst, cnt - 1) = 1
    IN  IF cnt = 0 THEN Result(dst, f)
        ELSE Result(res, (f \cap {"DF"}) \cup If(cf, "CF") \cup Szp(res))

-----------------------------------------------------------------------------
(* Multiplication and division.  hi is EDX (AH for bytes), lo is EAX.       *)

Split(n) == [lo |-> n % (MASK + 1), hi |-> (n \div (MASK + 1)) % (MASK + 1)]
MulFlags(lo, over, f) == (f \cap {"DF"}) \cup (IF over THEN {"CF", "OF"} ELSE {}) \cup Szp(lo)

_mul_unsigned(a, b, f) ==
    LET p == Split(a * b) IN p @@ [flags |-> MulFlags(p.lo, p.hi # 0, f)]

Fits(n) == n \in -(2 ^ (Bits - 1)) .. 2 ^ (Bits - 1) - 1

_mul_signed(a, b, f) ==
    LET n == Signed(a) * Signed(b)
        p == Split(n)
    IN  p @@ [flags |-> MulFlags(p.lo, ~Fits(n), f)]

Abs(n) == IF n < 0 THEN -n ELSE n
_trunc_divmod(a, b) ==
    LET q == IF (a < 0) # (b < 0) THEN -(Abs(a) \div Abs(b)) ELSE Abs(a) \div Abs(b)
    IN  [q |-> q, r |-> a - q * b]

(* The error #DE is the empty set of results.                               *)
_div_unsigned(hi, lo, src) ==
    LET n == hi * (MASK + 1) + lo
    IN  IF src = 0 THEN {} ELSE IF n \div src > MASK THEN {}
        ELSE {[lo |-> n \div src, hi |-> n % src]}

_div_signed(hi, lo, src) ==
    LET d == _trunc_divmod(Signed(hi) * (MASK + 1) + lo, Signed(src))
    IN  IF src = 0 THEN {} ELSE IF ~Fits(d.q) THEN {}
        ELSE {[lo |-> d.q % (MASK + 1), hi |-> d.r % (MASK + 1)]}

_h_cwd(lo) == IF Neg(lo) THEN MASK ELSE 0

-----------------------------------------------------------------------------
(* Bit instructions on a register, and conditions.                          *)

BitOps == {"bt", "bts", "btr", "btc"}
_bt_impl(sub, val, off, f) ==
    LET bit == off % Bits
        cur == Bit(val, bit)
    IN  Result(CASE sub = "bt"  -> val
                 [] sub = "bts" -> val + (1 - cur) * 2 ^ bit
                 [] sub = "btr" -> val - cur * 2 ^ bit
                 [] sub = "btc" -> val + (1 - 2 * cur) * 2 ^ bit,
               (f \ {"CF"}) \cup If(cur = 1, "CF"))

_h_bsf(forward, v, old, f) ==
    LET set == {i \in 0 .. Bits - 1 : Bit(v, i) = 1}
    IN  IF v = 0 THEN Result(old, f \cup {"ZF"})
        ELSE Result(IF forward THEN CHOOSE i \in set : \A j \in set : i <= j
                    ELSE CHOOSE i \in set : \A j \in set : i >= j, f \ {"ZF"})

Conditions == {"o", "b", "e", "be", "s", "p", "l", "le"}   \* and their negations
SfNeOf(f) == ("SF" \in f) # ("OF" \in f)
_cond(cc, f) ==
    CASE cc = "o"  -> "OF" \in f
      [] cc = "b"  -> "CF" \in f
      [] cc = "e"  -> "ZF" \in f
      [] cc = "be" -> f \cap {"CF", "ZF"} # {}
      [] cc = "s"  -> "SF" \in f
      [] cc = "p"  -> "PF" \in f
      [] cc = "l"  -> SfNeOf(f)
      [] cc = "le" -> "ZF" \in f \/ SfNeOf(f)
=============================================================================
