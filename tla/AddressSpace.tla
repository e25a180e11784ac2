------------------------------ MODULE AddressSpace ------------------------------
(***************************************************************************)
(* The memory of a process (x86mem.py), the instruction cache kept beside  *)
(* it, what the decoder puts into that cache (CPU._decode, CPU.run), the   *)
(* repeated string instructions, and the loader of programs (kexec.py), as *)
(* operators over one space.  Cpu puts them together.                      *)
(*                                                                         *)
(* An instruction is what the decoder sees of it: any number of prefixes,  *)
(* an opcode and its operand bytes.  low_end and stack_low are the lengths *)
(* of the two byte arrays, as in the code.                                 *)
(***************************************************************************)
EXTENDS Integers, SequencesExt

CONSTANTS TASK_SIZE, PAGE_SIZE, DEFAULT_STACK, STACK_GROW_STEP, BRK_STACK_GAP, ARG_AREA,
          FLUSH_BACK,     \* 15: how far before a write _flush_icache starts
          MAX_SCRIPTS,    \* 4: how many interpreters of interpreters
          WORD, BASE,     \* bytes of a word (4), values of a byte (256)
          PREFIXES,       \* the opcodes in _PREFIXES
          OpLength,       \* how long an instruction without prefixes is, by its opcode
          Files,          \* what can be executed, by path; a path is a string of bytes
          None

Byte == 0 .. BASE - 1
File == [kind : {"aout"}, executable : BOOLEAN, valid : BOOLEAN,
         text : Seq(Byte), data : Seq(Byte), bss : Nat]
        \cup [kind : {"script"}, interp : Seq(Byte), arg : Seq(Byte) \cup {None}]
        \cup [kind : {"other"}]

(* A memory, with the cache beside it.                                      *)
Entry == [length : Nat, bytes : Seq(Byte)]
Space == [low : Seq(Byte), stack : Seq(Byte), brk : Nat, text_end : Nat, start_stack : Int,
          icache : Seq(Entry \cup {None})]

(* How many numbers a word can hold: BASE ^ WORD.                           *)
Words == LET power[i \in 0 .. WORD] == IF i = 0 THEN 1 ELSE BASE * power[i - 1] IN power[WORD]

ASSUME SpaceAssumption ==
    /\ {TASK_SIZE, PAGE_SIZE, STACK_GROW_STEP, WORD, BASE} \subseteq Nat \ {0}
    /\ {DEFAULT_STACK, BRK_STACK_GAP, ARG_AREA, FLUSH_BACK, MAX_SCRIPTS} \subseteq Nat
    /\ DEFAULT_STACK <= TASK_SIZE /\ TASK_SIZE < Words
    /\ PREFIXES \subseteq Byte /\ OpLength \in [Byte \ PREFIXES -> 1 .. FLUSH_BACK]
    /\ None \notin Seq(Byte) /\ None \notin Space
    /\ DOMAIN Files \subseteq Seq(Byte) /\ \A path \in DOMAIN Files : Files[path] \in File

Zeros(n)     == [i \in 1 .. n |-> 0]
Larger(a, b) == IF a >= b THEN a ELSE b
RoundUp(n)   == ((n + PAGE_SIZE - 1) \div PAGE_SIZE) * PAGE_SIZE

Empty == [low |-> <<>>, stack |-> Zeros(RoundUp(DEFAULT_STACK)), brk |-> 0, text_end |-> 0,
          start_stack |-> TASK_SIZE, icache |-> <<>>]

LowEnd(m)   == Len(m.low)
StackLow(m) == TASK_SIZE - Len(m.stack)

-----------------------------------------------------------------------------
(* Reading and writing.                                                     *)

InLow(m, addr, n)   == addr >= 0 /\ addr + n <= LowEnd(m)
InStack(m, addr, n) == addr >= StackLow(m) /\ addr + n <= TASK_SIZE
Mapped(m, addr, n)  == InLow(m, addr, n) \/ InStack(m, addr, n)

Read(m, addr, n) ==
    IF InLow(m, addr, n) THEN SubSeq(m.low, addr + 1, addr + n)
    ELSE SubSeq(m.stack, addr - StackLow(m) + 1, addr - StackLow(m) + n)

Cell(m, addr) == IF InLow(m, addr, 1) THEN m.low[addr + 1] ELSE m.stack[addr - StackLow(m) + 1]

(* grow_stack.                                                              *)
CanGrow(m, addr) == LowEnd(m) <= addr /\ addr < StackLow(m)
Grown(m, addr) ==
    LET step    == RoundUp(Larger(StackLow(m) - addr, STACK_GROW_STEP))
        new_low == Larger(StackLow(m) - step, LowEnd(m))
    IN  [m EXCEPT !.stack = Zeros(StackLow(m) - new_low) \o @]

Patched(bytes, at, data) ==
    SubSeq(bytes, 1, at) \o data \o SubSeq(bytes, at + Len(data) + 1, Len(bytes))

(* The entries whose instruction may lie over addr .. addr + n - 1.         *)
Flushed_NoBack(icache, addr, n) ==
    [i \in DOMAIN icache |-> IF i - 1 \in addr .. addr + n - 1 THEN None ELSE icache[i]]
Flushed(icache, addr, n) ==
    [i \in DOMAIN icache |-> IF i - 1 \in addr - FLUSH_BACK .. addr + n - 1 THEN None ELSE icache[i]]

InPlace(m, addr, data) ==
    IF InLow(m, addr, Len(data))
    THEN [m EXCEPT !.low = Patched(@, addr, data),
                   !.icache = IF addr < m.text_end THEN Flushed(@, addr, Len(data)) ELSE @]
    ELSE [m EXCEPT !.stack = Patched(@, addr - StackLow(m), data)]

(* A write below the stack makes it grow, even when it then fails.          *)
Write(m, addr, data) ==
    LET n == Len(data)
        g == IF ~Mapped(m, addr, n) /\ CanGrow(m, addr) THEN Grown(m, addr) ELSE m
    IN  IF Mapped(g, addr, n) THEN [m |-> InPlace(g, addr, data), fault |-> FALSE]
        ELSE [m |-> g, fault |-> TRUE]

WithBrk(m, addr) ==
    IF m.text_end <= addr /\ addr < m.start_stack - BRK_STACK_GAP
    THEN [m EXCEPT !.low = @ \o Zeros(Larger(addr - LowEnd(m), 0)), !.brk = addr]
    ELSE m

-----------------------------------------------------------------------------
(* Decoding, and the cache of what was decoded.                             *)

(* The prefixes end at a: with the opcode, or where there is no memory.     *)
NoPrefix(m, a) == ~Mapped(m, a, 1) \/ Cell(m, a) \notin PREFIXES

(* Where the opcode is of the instruction at eip.                           *)
Opcode(m, eip) ==
    CHOOSE a \in eip .. TASK_SIZE : NoPrefix(m, a) /\ \A b \in eip .. a - 1 : ~NoPrefix(m, b)

(* The instruction at eip, None when one of its bytes is not mapped.        *)
Decoded(m, eip) ==
    LET o      == Opcode(m, eip)
        length == o + OpLength[Cell(m, o)] - eip
    IN  IF ~Mapped(m, o, 1) \/ \E a \in o .. eip + length - 1 : ~Mapped(m, a, 1) THEN None
        ELSE [length |-> length, bytes |-> [i \in 1 .. length |-> Cell(m, eip + i - 1)]]

Hit(m, eip) == eip < Len(m.icache) /\ m.icache[eip + 1] # None

(* What CPU.run executes at eip, and the space with that entry filled in;   *)
(* only an instruction that lies in the text as a whole is kept.            *)
Fetched(m, eip) == IF Hit(m, eip) THEN m.icache[eip + 1] ELSE Decoded(m, eip)
WithEntry(m, eip) ==
    LET e == Fetched(m, eip)
    IN  IF eip + e.length <= Len(m.icache) THEN [m EXCEPT !.icache[eip + 1] = e] ELSE m

-----------------------------------------------------------------------------
(* rep movs and rep stos: CPU._string_op_impl.  The result is the space,    *)
(* whether it faulted, and how many elements ECX counts as done.            *)

Distance(a, b) == IF a >= b THEN a - b ELSE b - a

(* Source and destination do not overlap.                                   *)
Apart_Elements(src, dst, cnt, size) == Distance(src, dst) >= cnt
Apart(src, dst, cnt, size)          == Distance(src, dst) >= cnt * size

CopyFrom(m, src, dst, n) ==
    IF Mapped(m, src, n) THEN Write(m, dst, Read(m, src, n)) ELSE [m |-> m, fault |-> TRUE]

(* An element: bytes that are given, or those found at an address.          *)
PutAt(at, data)       == [kind |-> "given", at |-> at, data |-> data]
CopyTo(at, from, len) == [kind |-> "copy", at |-> at, from |-> from, len |-> len]
Stored(m, x) ==
    IF x.kind = "copy" THEN CopyFrom(m, x.from, x.at, x.len) ELSE Write(m, x.at, x.data)

(* One element after the other, up to the first that faults.                *)
ByElement(m, elements) ==
    LET after[n \in 0 .. Len(elements)] ==
            IF n = 0 THEN [m |-> m, fault |-> FALSE, done |-> 0]
            ELSE LET st == after[n - 1]
                     w  == Stored(st.m, elements[n])
                 IN  IF st.fault THEN st
                     ELSE [m |-> w.m, fault |-> w.fault, done |-> IF w.fault THEN n - 1 ELSE n]
    IN  after[Len(elements)]

AtOnce(w, cnt) == [m |-> w.m, fault |-> w.fault, done |-> IF w.fault THEN 0 ELSE cnt]

At(addr, n, size, back) == IF back THEN addr - n * size ELSE addr + n * size

Moves(src, dst, cnt, size, back) ==
    [i \in 1 .. cnt |-> CopyTo(At(dst, i - 1, size, back), At(src, i - 1, size, back), size)]
Moved(m, src, dst, cnt, size, back) ==
    IF ~back /\ cnt > 1 /\ Apart(src, dst, cnt, size)
    THEN AtOnce(CopyFrom(m, src, dst, cnt * size), cnt)
    ELSE ByElement(m, Moves(src, dst, cnt, size, back))

Fills(val, dst, cnt, back) == [i \in 1 .. cnt |-> PutAt(At(dst, i - 1, Len(val), back), val)]
Filled(m, val, dst, cnt, back) ==
    IF ~back /\ cnt > 1
    THEN AtOnce(Write(m, dst, [i \in 1 .. cnt * Len(val) |-> val[((i - 1) % Len(val)) + 1]]), cnt)
    ELSE ByElement(m, Fills(val, dst, cnt, back))

-----------------------------------------------------------------------------
(* The loader.                                                              *)

(* resolve_exec: path and argv after so many interpreters.                  *)
Interpreted(path, argv) ==
    LET try[d \in 0 .. MAX_SCRIPTS] ==
            IF d = 0 THEN [path |-> path, argv |-> argv]
            ELSE LET t == try[d - 1]
                     f == IF t.path \in DOMAIN Files THEN Files[t.path] ELSE [kind |-> "other"]
                 IN  IF f.kind # "script" THEN t
                     ELSE [path |-> f.interp,
                           argv |-> <<f.interp>> \o (IF f.arg = None THEN <<>> ELSE <<f.arg>>)
                                    \o <<t.path>> \o Tail(t.argv)]
    IN  try[MAX_SCRIPTS]

(* resolve_exec's and load_aout's reasons to refuse.                        *)
Loadable(path) ==
    /\ path \in DOMAIN Files
    /\ Files[path].kind = "aout" /\ Files[path].executable /\ Files[path].valid

Loaded(m, f) ==
    [m EXCEPT !.low = f.text \o f.data \o Zeros(f.bss), !.text_end = Len(f.text),
              !.brk = Len(f.text) + Len(f.data) + f.bss,
              !.icache = [i \in 1 .. Len(f.text) |-> None]]

Word(n) ==
    LET rest[i \in 0 .. WORD] == IF i = 0 THEN n ELSE rest[i - 1] \div BASE
    IN  [i \in 1 .. WORD |-> rest[i - 1] % BASE]

(* setup_stack: the strings from TASK_SIZE down, envp above argv; below     *)
(* them, aligned, the two arrays of pointers and argc, argv, envp.          *)
Extent(strings) ==
    LET upto[i \in 0 .. Len(strings)] == IF i = 0 THEN 0 ELSE upto[i - 1] + Len(strings[i]) + 1
    IN  upto[Len(strings)]

(* Where the strings from, from + 1, ... (n of them) of all strings lie.    *)
Addresses_TopDown(strings, from, n) ==
    [i \in 1 .. n |-> TASK_SIZE - Extent(SubSeq(strings, from + n - i, Len(strings)))]
Addresses(strings, from, n) ==
    [i \in 1 .. n |-> TASK_SIZE - Extent(SubSeq(strings, from + i - 1, Len(strings)))]

Pointers(base, addrs) ==
    [i \in 1 .. Len(addrs) + 1 |->
        PutAt(base + WORD * (i - 1), Word(IF i <= Len(addrs) THEN addrs[i] ELSE 0))]

StackImage(argv, envp) ==
    LET strings   == argv \o envp
        p         == TASK_SIZE - Extent(strings)
        envp_base == p - (p % WORD) - WORD * (Len(envp) + 1)
        argv_base == envp_base - WORD * (Len(argv) + 1)
        esp       == argv_base - 3 * WORD
        text      == [i \in DOMAIN strings |->
                         PutAt(TASK_SIZE - Extent(SubSeq(strings, i, Len(strings))),
                               Append(strings[i], 0))]
    IN  [esp |-> esp,
         writes |-> Reverse(text)
                    \o << PutAt(esp + 2 * WORD, Word(envp_base)),
                          PutAt(esp + WORD,     Word(argv_base)),
                          PutAt(esp,            Word(Len(argv))) >>
                    \o Pointers(argv_base, Addresses(strings, 1, Len(argv)))
                    \o Pointers(envp_base, Addresses(strings, Len(argv) + 1, Len(envp)))]

WithStack(m, argv, envp) ==
    LET image == StackImage(argv, envp)
        st    == ByElement(m, image.writes)
    IN  [m     |-> [st.m EXCEPT !.start_stack = (image.esp \div PAGE_SIZE) * PAGE_SIZE],
         fault |-> st.fault, esp |-> image.esp]
=============================================================================
