---------------------------------- MODULE Cpu ----------------------------------
(***************************************************************************)
(* Processes executing: the turns of CPU.run that leave memory alone and   *)
(* compute in registers, beside those of Memory.                           *)
(*                                                                         *)
(* The registers a handler computes with, lo (EAX) and hi (EDX), and the   *)
(* flags are kept, for the one CPU that runs.                              *)
(***************************************************************************)
EXTENDS Memory, Processor

VARIABLES lo, hi, flags

registers == <<lo, hi, flags>>
vars == <<memVars, registers>>

Init == MemInit /\ lo = 0 /\ hi = 0 /\ flags = {}

-----------------------------------------------------------------------------
(* Instructions on registers.  A #DE leaves them as they are.               *)

Becomes(r) == lo' = r.res /\ flags' = r.flags /\ UNCHANGED hi
Pair(r)    == lo' = r.lo /\ hi' = r.hi /\ UNCHANGED flags

Arithmetic(b) ==
    \/ \E op \in AluOps :
          LET r == _alu_body(op, lo, b, flags)
          IN  IF op = "cmp" THEN flags' = r.flags /\ UNCHANGED <<lo, hi>> ELSE Becomes(r)
    \/ \E op \in UnaryOps : Becomes(Unary(op, lo, flags))
    \/ \E kind \in Shifts : Becomes(Shift(kind, lo, b, flags))
    \/ b <= Bits /\ \E left \in BOOLEAN : Becomes(_h_shd(left, lo, hi, b, flags))
    \/ \E sub \in BitOps : Becomes(_bt_impl(sub, lo, b, flags))
    \/ \E forward \in BOOLEAN : Becomes(_h_bsf(forward, b, lo, flags))

Multiply(b) ==
    \E r \in {_mul_unsigned(lo, b, flags), _mul_signed(lo, b, flags)} :
        lo' = r.lo /\ hi' = r.hi /\ flags' = r.flags
Divide(b) == \E r \in _div_unsigned(hi, lo, b) \cup _div_signed(hi, lo, b) : Pair(r)
Widen     == Pair([lo |-> lo, hi |-> _h_cwd(lo)])
Direction == flags' \in {flags \cup {"DF"}, flags \ {"DF"}} /\ UNCHANGED <<lo, hi>>

Compute ==
    /\ UNCHANGED memVars
    /\ \/ \E b \in Operand : Arithmetic(b) \/ Multiply(b) \/ Divide(b)
       \/ Widen \/ Direction

Back     == "DF" \in flags
InMemory == MemStep(Back) /\ UNCHANGED registers

Next == InMemory \/ Compute

Spec == Init /\ [][Next]_vars

-----------------------------------------------------------------------------
(* Whatever ran before, each operation of Alu gives the result and all the  *)
(* flags an i386 defines for it, for every operand: carries and borrows     *)
(* through adc and sbb, parity, conditions that order what cmp compared,    *)
(* counts beyond the width, quotients that do not fit (_alu_body,           *)
(* _shift_body, _mul_*, _div_*, _bt_impl, _h_bsf, _h_shd).                  *)
ArithmeticIsRight == RightFor(lo, hi, flags)
=============================================================================
