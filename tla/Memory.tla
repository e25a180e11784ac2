--------------------------------- MODULE Memory ---------------------------------
(***************************************************************************)
(* The memories of processes: the system calls that replace, copy or       *)
(* stretch one (execve, fork, brk, exit), and the turn of CPU.run, which   *)
(* fetches an instruction from the cache or decodes it, and executes it,   *)
(* as far as memory is concerned.                                          *)
(*                                                                         *)
(* A program may jump anywhere, so eip is any address of the text, and the *)
(* registers that hold addresses and counts are any of Targets and Counts. *)
(***************************************************************************)
EXTENDS AddressSpace

CONSTANTS Procs,
          Calls,                    \* what execve is called with
          Targets, Datas, Counts,   \* addresses, what is stored there, counts of elements
          MaxStores                 \* bound: stores of the running processes since their execve

Addr == 0 .. TASK_SIZE - 1
Text == Seq(Byte \ {0})   \* what read_cstr returns
Call == [path : Text, argv : Seq(Text), envp : Seq(Text)]

ASSUME MemoryAssumption ==
    /\ Calls \subseteq Call /\ Targets \subseteq Addr
    /\ Datas \subseteq Seq(Byte) \ {<<>>} /\ Counts \subseteq Nat

VARIABLES space,  \* the memory of each process, None before fork and after exit
          given,  \* history: what execve was given, esp then, and the stores since
          flat    \* history: the bytes each process would find in one flat memory

memVars == <<space, given, flat>>

Unset == [a \in Addr |-> 0]
(* The bytes a process finds, and 0 where it finds none.                    *)
FlatBytes(m) == [a \in Addr |-> IF Mapped(m, a, 1) THEN Cell(m, a) ELSE 0]

Live(p)    == space[p] # None
Running(p) == given[p] # None

(* A process has a memory as soon as it is in the table (_new_process), and *)
(* runs once boot has loaded its program.                                   *)
MemInit ==
    \E p \in Procs :
        /\ space = [q \in Procs |-> IF q = p THEN Empty ELSE None]
        /\ given = [q \in Procs |-> None]
        /\ flat = [q \in Procs |-> Unset]

-----------------------------------------------------------------------------
(* System calls.                                                            *)

(* boot and execve.  Whatever is wrong with the file or the arguments, the  *)
(* memory stays what it was.                                                *)
Resolved(c) == Interpreted(c.path, IF c.argv = <<>> THEN <<c.path>> ELSE c.argv)
Accepted(c) == Loadable(Resolved(c).path) /\ Extent(Resolved(c).argv \o c.envp) <= ARG_AREA
Started ==
    {LET t == Resolved(c) IN [argv |-> t.argv, envp |-> c.envp,
                              result |-> WithStack(Loaded(Empty, Files[t.path]), t.argv, c.envp)] :
        c \in {x \in Calls : Accepted(x)}}

Exec(p) ==
    /\ Live(p)
    /\ \E s \in Started :
          LET m == s.result.m
          IN  /\ ~s.result.fault
              /\ space' = [space EXCEPT ![p] = m]
              /\ given' = [given EXCEPT ![p] = [argv |-> s.argv, envp |-> s.envp,
                                                esp |-> s.result.esp, stores |-> 0]]
              /\ flat'  = [flat EXCEPT ![p] = FlatBytes(m)]

Fork(p, q) ==
    /\ Running(p) /\ ~Live(q)
    /\ space' = [space EXCEPT ![q] = space[p]]
    /\ given' = [given EXCEPT ![q] = given[p]]
    /\ flat'  = [flat EXCEPT ![q] = flat[p]]

Exit(p) ==
    /\ Running(p)
    /\ space' = [space EXCEPT ![p] = None]
    /\ given' = [given EXCEPT ![p] = None]
    /\ flat'  = [flat EXCEPT ![p] = Unset]

Brk(p, addr) ==
    /\ Running(p)
    /\ space' = [space EXCEPT ![p] = WithBrk(@, addr)]
    /\ UNCHANGED <<given, flat>>

-----------------------------------------------------------------------------
(* One turn of CPU.run: fetch, from the cache or by decoding, then execute. *)
(* eip is in the text or, for text that is not there to cache, at text_end. *)

CanFetch(p, eip) == Running(p) /\ eip <= space[p].text_end /\ Fetched(space[p], eip) # None

(* One that leaves memory alone.                                            *)
Execute(p, eip) ==
    /\ CanFetch(p, eip)
    /\ space' = [space EXCEPT ![p] = WithEntry(@, eip)]
    /\ UNCHANGED <<given, flat>>

(* Storing data at addr: mov, push, a system call that stores its result.   *)
Overwritten(bytes, at, data) ==
    [a \in Addr |-> IF a - at + 1 \in DOMAIN data THEN data[a - at + 1] ELSE bytes[a]]

Counted(p) ==
    /\ FoldFunction(+, 0, [q \in Procs |-> IF Running(q) THEN given[q].stores ELSE 0]) < MaxStores
    /\ given' = [given EXCEPT ![p].stores = @ + 1]

Store(p, eip, addr, data) ==
    /\ CanFetch(p, eip) /\ Counted(p)
    /\ LET w == Write(WithEntry(space[p], eip), addr, data)
       IN  /\ space' = [space EXCEPT ![p] = w.m]
           /\ flat' = [flat EXCEPT ![p] = IF w.fault THEN @ ELSE Overwritten(@, addr, data)]

(* What an i386 does for rep movs and rep stos: one element after another.  *)
BytesOf(x, bytes) ==
    IF x.kind = "copy" THEN [k \in 1 .. x.len |-> bytes[x.from + k - 1]] ELSE x.data
OneByOne(bytes, elements, n) ==
    LET after[i \in 0 .. Len(elements)] ==
            IF i = 0 THEN bytes
            ELSE LET b == after[i - 1]
                 IN  Overwritten(b, elements[i].at, BytesOf(elements[i], b))
    IN  after[n]

(* back: the direction flag is set.                                         *)
RepMovs(p, eip, src, dst, cnt, size, back) ==
    /\ CanFetch(p, eip) /\ Counted(p)
    /\ LET w == Moved(WithEntry(space[p], eip), src, dst, cnt, size, back)
       IN  /\ space' = [space EXCEPT ![p] = w.m]
           /\ flat' = [flat EXCEPT ![p] = OneByOne(@, Moves(src, dst, cnt, size, back), w.done)]

RepStos(p, eip, data, dst, cnt, back) ==
    /\ CanFetch(p, eip) /\ Counted(p)
    /\ LET w == Filled(WithEntry(space[p], eip), data, dst, cnt, back)
       IN  /\ space' = [space EXCEPT ![p] = w.m]
           /\ flat' = [flat EXCEPT ![p] = OneByOne(@, Fills(data, dst, cnt, back), w.done)]

MemStep(back) ==
    \E p \in Procs :
        \/ Exec(p)
        \/ \E q \in Procs : Fork(p, q)
        \/ Exit(p)
        \/ \E addr \in Targets : Brk(p, addr)
        \/ \E eip \in Addr :
              \/ Execute(p, eip)
              \/ \E addr \in Targets, data \in Datas :
                    \/ Store(p, eip, addr, data)
                    \/ \E cnt \in Counts : RepStos(p, eip, data, addr, cnt, back)
              \/ \E src, dst \in Targets, cnt \in Counts, size \in 1 .. WORD :
                    RepMovs(p, eip, src, dst, cnt, size, back)

MemNext == \E back \in BOOLEAN : MemStep(back)
MemSpec == MemInit /\ [][MemNext]_memVars

-----------------------------------------------------------------------------
(* An instruction with so many prefixes that _flush_icache would not reach  *)
(* back to it, and a heap that was stretched over the stack, are left out.  *)
ShortInstructions ==
    \A p \in Procs : Live(p) =>
        \A eip \in 0 .. space[p].text_end :
            LET e == Decoded(space[p], eip) IN e # None => e.length <= FLUSH_BACK + 1
HeapBelowStack == \A p \in Procs : Live(p) => LowEnd(space[p]) <= StackLow(space[p])

(* No script has a zero byte in its first line: what is behind one would    *)
(* not arrive.                                                              *)
TextScripts ==
    \A path \in DOMAIN Files :
        Files[path].kind = "script" =>
            Files[path].interp \in Text /\ Files[path].arg \in Text \cup {None}

(* What is in the instruction cache is what decoding the memory of this     *)
(* very process gives now, however the text was written since: by an        *)
(* instruction into itself or the one before, by a system call, by a        *)
(* repeated move, before or after fork (AddressSpace._flush_icache, clone,  *)
(* CPU.run, which fills it before it executes).                             *)
CacheIsCoherent ==
    \A p \in Procs : Live(p) =>
        \A i \in DOMAIN space[p].icache :
            LET e == space[p].icache[i]
            IN  e # None => e = Decoded(space[p], i - 1) /\ i - 1 + e.length <= space[p].text_end

(* The two byte arrays, the stack that grows in front, the heap that grows  *)
(* behind, the copy of fork and the moves in one piece are one flat memory  *)
(* in which an i386 stores byte after byte and moves element after element: *)
(* whatever is mapped reads as last stored, and as 0 before (AddressSpace,  *)
(* CPU._string_op_impl).                                                    *)
MemoryIsFlat ==
    \A p \in Procs : Live(p) =>
        \A a \in Addr : Mapped(space[p], a, 1) => Cell(space[p], a) = flat[p][a]

(* Until a program stores something it finds argc, argv and envp where      *)
(* create_tables of the kernel puts them, with every string whole, also     *)
(* when the stack had to grow to hold them, after brk and in a child of     *)
(* fork (kexec.setup_stack, resolve_exec, AddressSpace.read_cstr).          *)
WordAt(m, addr) ==
    LET upper[i \in 0 .. WORD] == IF i = 0 THEN 0 ELSE upper[i - 1] * BASE + Cell(m, addr + WORD - i)
    IN  upper[WORD]
StringAt(m, addr) ==
    LET n == CHOOSE k \in Addr : Cell(m, addr + k) = 0 /\ \A j \in 0 .. k - 1 : Cell(m, addr + j) # 0
    IN  Read(m, addr, n)
Vector(m, table, strings) ==
    /\ \A i \in DOMAIN strings : StringAt(m, WordAt(m, table + WORD * (i - 1))) = strings[i]
    /\ WordAt(m, table + WORD * Len(strings)) = 0

ArgumentsArrive ==
    \A p \in Procs : Running(p) =>
        LET g == given[p]   m == space[p]
        IN  g.stores = 0 =>
                /\ g.esp % WORD = 0 /\ m.start_stack <= g.esp
                /\ WordAt(m, g.esp) = Len(g.argv)
                /\ Vector(m, WordAt(m, g.esp + WORD), g.argv)
                /\ Vector(m, WordAt(m, g.esp + 2 * WORD), g.envp)
=============================================================================
