------------------------------ MODULE Memory_proofs ------------------------------
(***************************************************************************)
(* Proofs about Memory, for any sizes, any files and any number of         *)
(* processes: the instruction cache tells what decoding would, the byte    *)
(* arrays are one flat memory, and a program finds its arguments in it.    *)
(***************************************************************************)
EXTENDS Memory, Counting, SequenceTheorems, TLAPS

-----------------------------------------------------------------------------
(* Sequences of bytes.                                                      *)

(* What the assumptions say of the constants.                               *)
LEMMA Constants ==
    /\ TASK_SIZE \in Nat /\ TASK_SIZE > 0 /\ PAGE_SIZE \in Nat /\ PAGE_SIZE > 0
    /\ STACK_GROW_STEP \in Nat /\ WORD \in Nat /\ WORD > 0 /\ BASE \in Nat /\ BASE > 0
    /\ DEFAULT_STACK \in Nat /\ BRK_STACK_GAP \in Nat /\ FLUSH_BACK \in Nat /\ MAX_SCRIPTS \in Nat
    /\ 0 \in Byte /\ Byte \subseteq Nat
BY SpaceAssumption DEF Byte

(* A function on 1 .. n is a sequence.                                      *)
LEMMA AsSequence ==
    ASSUME NEW S, NEW n \in Nat, NEW f \in [1 .. n -> S]
    PROVE  f \in Seq(S) /\ Len(f) = n
<1>1. f \in Seq(S)
  BY SeqDef
<1> QED BY <1>1, LenProperties

(* A sequence over a set is one over a larger set.                          *)
LEMMA MoreSequences ==
    ASSUME NEW S, NEW T, S \subseteq T, NEW s \in Seq(S)
    PROVE  s \in Seq(T)
<1>1. s \in [1 .. Len(s) -> S] /\ Len(s) \in Nat
  BY LenProperties
<1>2. s \in [1 .. Len(s) -> T]
  BY <1>1
<1> QED BY <1>1, <1>2, AsSequence

(* Strings without a zero byte are strings.                                 *)
LEMMA TextIsBytes ==
    Text \subseteq Seq(Byte)
<1>1. \A s \in Text : s \in Seq(Byte)
  BY MoreSequences DEF Text
<1> QED BY <1>1

(* So many bytes, all 0.                                                    *)
LEMMA ZerosFacts ==
    ASSUME NEW n \in Nat
    PROVE  Zeros(n) \in Seq(Byte) /\ Len(Zeros(n)) = n /\ \A i \in 1 .. n : Zeros(n)[i] = 0
<1>1. Zeros(n) \in [1 .. n -> Byte]
  BY Constants DEF Zeros
<1> QED BY <1>1, AsSequence DEF Zeros

(* Rounding to pages stays among the numbers.                               *)
LEMMA RoundUpNat ==
    ASSUME NEW n \in Nat
    PROVE  RoundUp(n) \in Nat
<1>1. PAGE_SIZE \in Nat /\ PAGE_SIZE > 0 /\ n + PAGE_SIZE - 1 \in Nat
  BY Constants
<1>2. (n + PAGE_SIZE - 1) \div PAGE_SIZE \in Nat
  BY <1>1
<1> QED BY <1>1, <1>2 DEF RoundUp

(* A slice is replaced, the rest and the length stay (bytearray slices).    *)
LEMMA PatchedFacts ==
    ASSUME NEW bytes \in Seq(Byte), NEW data \in Seq(Byte), NEW at \in Nat,
           at + Len(data) <= Len(bytes)
    PROVE  /\ Patched(bytes, at, data) \in Seq(Byte)
           /\ Len(Patched(bytes, at, data)) = Len(bytes)
           /\ \A i \in 1 .. Len(bytes) :
                 Patched(bytes, at, data)[i] = IF i - at \in 1 .. Len(data) THEN data[i - at] ELSE bytes[i]
<1> DEFINE n == Len(data)
           l == Len(bytes)
           front == SubSeq(bytes, 1, at)
           rear == SubSeq(bytes, at + n + 1, l)
           fd == front \o data
<1>1. n \in Nat /\ l \in Nat /\ at + n <= l
  BY LenProperties
<1>2. \A i \in 1 .. l : bytes[i] \in Byte
  BY ElementOfSeq
<1>3. front \in Seq(Byte) /\ Len(front) = at /\ \A i \in 1 .. at : front[i] = bytes[i]
  <2>1. \A i \in 1 .. at : bytes[i] \in Byte
    BY <1>1, <1>2
  <2>2. /\ SubSeq(bytes, 1, at) \in Seq(Byte) 
        /\ Len(SubSeq(bytes, 1, at)) = IF 1 <= at THEN at - 1 + 1 ELSE 0
        /\ \A i \in 1 .. at - 1 + 1 : SubSeq(bytes, 1, at)[i] = bytes[1 + i - 1]
    BY <2>1, SubSeqProperties
  <2> QED BY <2>2
<1>4. rear \in Seq(Byte) /\ Len(rear) = l - (at + n) /\ \A i \in 1 .. l - (at + n) : rear[i] = bytes[at + n + i]
  <2>1. \A i \in at + n + 1 .. l : bytes[i] \in Byte
    BY <1>1, <1>2
  <2>2. at + n + 1 \in Int /\ l \in Int
    BY <1>1
  <2> HIDE DEF n, l
  <2>3. /\ SubSeq(bytes, at + n + 1, l) \in Seq(Byte) 
        /\ Len(SubSeq(bytes, at + n + 1, l)) = IF at + n + 1 <= l THEN l - (at + n + 1) + 1 ELSE 0
        /\ \A i \in 1 .. l - (at + n + 1) + 1 : SubSeq(bytes, at + n + 1, l)[i] = bytes[(at + n + 1) + i - 1]
    BY <2>1, <2>2, SubSeqProperties
  <2> QED BY <2>3, <1>1
<1> HIDE DEF front, rear
<1>5. fd \in Seq(Byte) /\ Len(fd) = at + n /\ \A i \in 1 .. at + n : fd[i] = IF i <= at THEN front[i] ELSE data[i - at]
  BY <1>3, ConcatProperties
<1> HIDE DEF fd
<1>6. /\ fd \o rear \in Seq(Byte) /\ Len(fd \o rear) = l
      /\ \A i \in 1 .. l : (fd \o rear)[i] = IF i <= at + n THEN fd[i] ELSE rear[i - (at + n)]
  <2> HIDE DEF n, l
  <2>1. /\ fd \o rear \in Seq(Byte) /\ Len(fd \o rear) = Len(fd) + Len(rear)
        /\ \A i \in 1 .. Len(fd) + Len(rear) :
              (fd \o rear)[i] = IF i <= Len(fd) THEN fd[i] ELSE rear[i - Len(fd)]
    <3>1. fd \in Seq(Byte) /\ rear \in Seq(Byte)
      BY <1>4, <1>5
    <3> HIDE DEF Byte
    <3> QED BY ONLY <3>1, ConcatProperties
  <2>2. Len(fd) + Len(rear) = l
    BY <1>1, <1>4, <1>5
  <2> QED BY <1>5, <2>1, <2>2
<1>7. Patched(bytes, at, data) = fd \o rear
  BY DEF Patched, fd, front, rear
<1> HIDE DEF n, l
<1>8. ASSUME NEW i \in 1 .. l
      PROVE  (fd \o rear)[i] = IF i - at \in 1 .. n THEN data[i - at] ELSE bytes[i]
  <2>1. CASE i <= at
    BY <2>1, <1>1, <1>3, <1>5, <1>6
  <2>2. CASE ~(i <= at) /\ i <= at + n
    BY <2>2, <1>1, <1>5, <1>6
  <2>3. CASE ~(i <= at + n)
    <3>1. i - (at + n) \in 1 .. l - (at + n) /\ at + n + (i - (at + n)) = i /\ ~(i - at \in 1 .. n)
      BY <2>3, <1>1
    <3>2. rear[i - (at + n)] = bytes[i]
      BY <3>1, <1>4
    <3> QED BY <2>3, <3>1, <3>2, <1>6
  <2> QED BY <2>1, <2>2, <2>3
<1> QED BY <1>6, <1>7, <1>8 DEF n, l

-----------------------------------------------------------------------------
(* One memory.                                                              *)

Typed(m) == m \in Space /\ m.text_end <= LowEnd(m) /\ Len(m.icache) = m.text_end

(* The types of the parts of a memory.                                      *)
LEMMA TypedFacts ==
    ASSUME NEW m, Typed(m)
    PROVE  /\ m.low \in Seq(Byte) /\ m.stack \in Seq(Byte) /\ m.brk \in Nat /\ m.text_end \in Nat
           /\ m.start_stack \in Int /\ m.icache \in Seq(Entry \cup {None})
           /\ LowEnd(m) \in Nat /\ Len(m.stack) \in Nat /\ StackLow(m) \in Int
           /\ LowEnd(m) = Len(m.low) /\ StackLow(m) = TASK_SIZE - Len(m.stack)
           /\ m.text_end <= LowEnd(m) /\ Len(m.icache) = m.text_end
           /\ DOMAIN m.icache = 1 .. m.text_end
           /\ \A i \in 1 .. LowEnd(m) : m.low[i] \in Byte
           /\ \A i \in 1 .. Len(m.stack) : m.stack[i] \in Byte
<1>1. /\ m.low \in Seq(Byte) /\ m.stack \in Seq(Byte) /\ m.brk \in Nat /\ m.text_end \in Nat
      /\ m.start_stack \in Int /\ m.icache \in Seq(Entry \cup {None})
      /\ m.text_end <= LowEnd(m) /\ Len(m.icache) = m.text_end
  BY DEF Typed, Space
<1>2. Len(m.low) \in Nat /\ Len(m.stack) \in Nat /\ DOMAIN m.icache = 1 .. Len(m.icache)
  BY <1>1, LenProperties
<1>3. /\ \A i \in 1 .. Len(m.low) : m.low[i] \in Byte
      /\ \A i \in 1 .. Len(m.stack) : m.stack[i] \in Byte
  BY <1>1, ElementOfSeq
<1> QED BY <1>1, <1>2, <1>3, Constants DEF LowEnd, StackLow

(* Where a byte of the stack is in its array.                               *)
LEMMA StackIndex ==
    ASSUME NEW m, Typed(m), NEW a \in Int, StackLow(m) <= a, a < TASK_SIZE
    PROVE  /\ a - StackLow(m) + 1 \in 1 .. Len(m.stack)
           /\ \A b \in Int : (a - StackLow(m) + 1) - (b - StackLow(m)) = a - b + 1
<1> DEFINE l == Len(m.stack)
           s == StackLow(m)
<1>1. s \in Int /\ l \in Nat /\ s = TASK_SIZE - l /\ TASK_SIZE \in Nat /\ s <= a
  BY TypedFacts, Constants
<1> HIDE DEF l, s
<1>2. a - s + 1 \in 1 .. l /\ \A b \in Int : (a - s + 1) - (b - s) = a - b + 1
  BY <1>1
<1> QED BY <1>2 DEF l, s

(* A byte of a memory.                                                      *)
LEMMA CellFacts ==
    ASSUME NEW m, Typed(m), NEW a \in Int
    PROVE  /\ Mapped(m, a, 1) <=> (0 <= a /\ a < LowEnd(m)) \/ (StackLow(m) <= a /\ a < TASK_SIZE)
           /\ Mapped(m, a, 1) => Cell(m, a) \in Byte
           /\ 0 <= a /\ a < LowEnd(m) => Cell(m, a) = m.low[a + 1]
           /\ LowEnd(m) <= a => Cell(m, a) = m.stack[a - StackLow(m) + 1]
<1>1. /\ InLow(m, a, 1) <=> 0 <= a /\ a < LowEnd(m)
      /\ InStack(m, a, 1) <=> StackLow(m) <= a /\ a < TASK_SIZE
  BY TypedFacts, Constants DEF InLow, InStack
<1>2. InLow(m, a, 1) => m.low[a + 1] \in Byte /\ Cell(m, a) = m.low[a + 1]
  BY <1>1, TypedFacts DEF Cell
<1>3. ~InLow(m, a, 1) => Cell(m, a) = m.stack[a - StackLow(m) + 1]
  BY DEF Cell
<1>4. InStack(m, a, 1) => m.stack[a - StackLow(m) + 1] \in Byte
  <2>1. InStack(m, a, 1) => a - StackLow(m) + 1 \in 1 .. Len(m.stack)
    BY <1>1, TypedFacts, Constants
  <2> QED BY <2>1, TypedFacts
<1> QED BY <1>1, <1>2, <1>3, <1>4, TypedFacts DEF Mapped

(* What is mapped is an address.                                            *)
LEMMA MappedAddr ==
    ASSUME NEW m, Typed(m), LowEnd(m) <= StackLow(m), NEW a \in Int, Mapped(m, a, 1)
    PROVE  a \in Addr
<1> DEFINE l == Len(m.stack)
           s == StackLow(m)
<1>1. l \in Nat /\ s = TASK_SIZE - l /\ TASK_SIZE \in Nat /\ s \in Int
  BY TypedFacts, Constants
<1>2. LowEnd(m) \in Nat /\ LowEnd(m) <= s /\ ((0 <= a /\ a < LowEnd(m)) \/ (s <= a /\ a < TASK_SIZE))
  BY TypedFacts, CellFacts
<1> HIDE DEF l, s
<1>3. s <= TASK_SIZE
  BY ONLY <1>1
<1>4. LowEnd(m) \in Nat /\ LowEnd(m) <= s
  BY TypedFacts DEF s
<1>5. 0 <= a /\ a < TASK_SIZE
  BY <1>1, <1>2, <1>3, <1>4
<1> QED BY <1>1, <1>5 DEF Addr

(* Several, in one piece.                                                   *)
LEMMA ReadFacts ==
    ASSUME NEW m, Typed(m), LowEnd(m) <= StackLow(m), NEW addr \in Int, NEW n \in Nat, Mapped(m, addr, n)
    PROVE  /\ Read(m, addr, n) \in Seq(Byte) /\ Len(Read(m, addr, n)) = n
           /\ \A k \in 1 .. n : /\ Mapped(m, addr + k - 1, 1)
                                /\ Read(m, addr, n)[k] = Cell(m, addr + k - 1)
<1>1. CASE InLow(m, addr, n)
  <2>1. addr >= 0 /\ addr + n <= LowEnd(m) /\ Read(m, addr, n) = SubSeq(m.low, addr + 1, addr + n)
    BY <1>1 DEF InLow, Read
  <2>2. \A i \in addr + 1 .. addr + n : m.low[i] \in Byte
    BY <2>1, TypedFacts
  <2>3. /\ SubSeq(m.low, addr + 1, addr + n) \in Seq(Byte)
        /\ Len(SubSeq(m.low, addr + 1, addr + n)) = IF addr + 1 <= addr + n THEN addr + n - (addr + 1) + 1 ELSE 0
        /\ \A i \in 1 .. addr + n - (addr + 1) + 1 :
              SubSeq(m.low, addr + 1, addr + n)[i] = m.low[addr + 1 + i - 1]
    BY <2>2, SubSeqProperties
  <2>4. ASSUME NEW k \in 1 .. n
        PROVE  Mapped(m, addr + k - 1, 1) /\ SubSeq(m.low, addr + 1, addr + n)[k] = Cell(m, addr + k - 1)
    <3>1. /\ addr + k - 1 \in Int /\ 0 <= addr + k - 1 /\ addr + k - 1 < LowEnd(m)
          /\ k \in 1 .. addr + n - (addr + 1) + 1 /\ addr + 1 + k - 1 = (addr + k - 1) + 1
      BY <2>1, TypedFacts
    <3> QED BY <3>1, <2>3, CellFacts
  <2>5. SubSeq(m.low, addr + 1, addr + n) \in Seq(Byte) /\ Len(SubSeq(m.low, addr + 1, addr + n)) = n
    BY <2>3
  <2> QED BY ONLY <2>1, <2>4, <2>5
<1>2. CASE ~InLow(m, addr, n)
  <2> DEFINE b == addr - StackLow(m)
  <2>0. addr >= StackLow(m) /\ addr + n <= TASK_SIZE
    BY <1>2 DEF Mapped, InStack
  <2>1. b \in Int /\ b + n <= Len(m.stack) /\ b >= 0
    BY <2>0, TypedFacts, Constants
  <2>6. Read(m, addr, n) = SubSeq(m.stack, b + 1, b + n)
    BY <1>2 DEF Read
  <2> HIDE DEF b
  <2>2. \A i \in b + 1 .. b + n : m.stack[i] \in Byte
    BY <2>1, TypedFacts
  <2>3. /\ SubSeq(m.stack, b + 1, b + n) \in Seq(Byte)
        /\ Len(SubSeq(m.stack, b + 1, b + n)) = IF b + 1 <= b + n THEN b + n - (b + 1) + 1 ELSE 0
        /\ \A i \in 1 .. b + n - (b + 1) + 1 :
              SubSeq(m.stack, b + 1, b + n)[i] = m.stack[b + 1 + i - 1]
    BY <2>1, <2>2, SubSeqProperties
  <2>4. ASSUME NEW k \in 1 .. n
        PROVE  Mapped(m, addr + k - 1, 1) /\ SubSeq(m.stack, b + 1, b + n)[k] = Cell(m, addr + k - 1)
    <3>1. /\ addr + k - 1 \in Int /\ LowEnd(m) <= addr + k - 1
          /\ StackLow(m) <= addr + k - 1 /\ addr + k - 1 < TASK_SIZE
          /\ k \in 1 .. b + n - (b + 1) + 1 /\ b + 1 + k - 1 = (addr + k - 1) - StackLow(m) + 1
      <4> DEFINE l == LowEnd(m)
                 s == StackLow(m)
                 t == TASK_SIZE
      <4>1. l \in Int /\ s \in Int /\ t \in Int /\ l <= s
        BY TypedFacts, Constants
      <4>2. b \in Int /\ b = addr - s /\ s <= addr /\ addr + n <= t
        BY <2>0, <2>1 DEF b
      <4> HIDE DEF l, s, t
      <4>3. /\ addr + k - 1 \in Int /\ l <= addr + k - 1 /\ s <= addr + k - 1 /\ addr + k - 1 < t
            /\ k \in 1 .. b + n - (b + 1) + 1 /\ b + 1 + k - 1 = (addr + k - 1) - s + 1
        BY ONLY <4>1, <4>2, addr \in Int, n \in Nat, k \in 1 .. n
      <4> QED BY <4>3 DEF l, s, t
    <3> QED BY <3>1, <2>3, CellFacts
  <2>5. SubSeq(m.stack, b + 1, b + n) \in Seq(Byte) /\ Len(SubSeq(m.stack, b + 1, b + n)) = n
    BY <2>1, <2>3
  <2> QED BY ONLY <2>6, <2>4, <2>5
<1> QED BY <1>1, <1>2

-----------------------------------------------------------------------------
(* Writing.                                                                 *)

Longer(m, k) == [m EXCEPT !.stack = Zeros(k) \o m.stack]

(* The stack grows by bytes that are 0, in front, and not into the heap.    *)
LEMMA GrownFacts ==
    ASSUME NEW m, Typed(m), NEW addr \in Int, CanGrow(m, addr)
    PROVE  \E k \in Nat : Grown(m, addr) = Longer(m, k) /\ LowEnd(m) <= StackLow(m) - k
<1> DEFINE need == Larger(StackLow(m) - addr, STACK_GROW_STEP)
           step == RoundUp(need)
           new_low == Larger(StackLow(m) - step, LowEnd(m))
<1>1. LowEnd(m) <= addr /\ addr < StackLow(m) /\ LowEnd(m) \in Nat /\ StackLow(m) \in Int
  BY TypedFacts DEF CanGrow
<1>2. need \in Nat
  BY <1>1, Constants DEF Larger
<1>3. step \in Nat
  BY <1>2, RoundUpNat
<1> HIDE DEF step
<1>4. new_low \in Int /\ LowEnd(m) <= new_low /\ StackLow(m) - new_low \in Nat
  BY <1>1, <1>3 DEF Larger
<1>5. Grown(m, addr) = Longer(m, StackLow(m) - new_low)
  BY DEF Grown, Longer, step
<1> HIDE DEF new_low
<1>6. LowEnd(m) <= StackLow(m) - (StackLow(m) - new_low)
  BY <1>1, <1>4
<1> QED BY <1>4, <1>5, <1>6

(* A stack that has grown: zeros in front, the old bytes behind them.       *)
LEMMA GrowthFacts ==
    ASSUME NEW m, Typed(m), NEW k \in Nat, NEW g, g = Longer(m, k)
    PROVE  /\ Typed(g) /\ LowEnd(g) = LowEnd(m) /\ StackLow(g) = StackLow(m) - k
           /\ g.low = m.low /\ g.text_end = m.text_end /\ g.icache = m.icache
           /\ \A i \in 1 .. k : g.stack[i] = 0
           /\ \A i \in 1 .. Len(m.stack) : g.stack[k + i] = m.stack[i]
<1>1. /\ Zeros(k) \o m.stack \in Seq(Byte) /\ Len(Zeros(k) \o m.stack) = k + Len(m.stack)
      /\ \A i \in 1 .. k + Len(m.stack) :
            (Zeros(k) \o m.stack)[i] = IF i <= k THEN Zeros(k)[i] ELSE m.stack[i - k]
  <2>1. Zeros(k) \in Seq(Byte) /\ Len(Zeros(k)) = k /\ m.stack \in Seq(Byte)
    BY ZerosFacts, TypedFacts
  <2> DEFINE z == Zeros(k)
             t == m.stack
  <2>2. /\ z \o t \in Seq(Byte) /\ Len(z \o t) = Len(z) + Len(t)
        /\ \A i \in 1 .. Len(z) + Len(t) : (z \o t)[i] = IF i <= Len(z) THEN z[i] ELSE t[i - Len(z)]
    <3>1. z \in Seq(Byte) /\ t \in Seq(Byte)
      BY <2>1
    <3> HIDE DEF z, t, Byte
    <3> QED BY ONLY <3>1, ConcatProperties
  <2> QED BY <2>1, <2>2
<1>2. /\ g \in Space /\ g.stack = Zeros(k) \o m.stack
      /\ g.low = m.low /\ g.text_end = m.text_end /\ g.icache = m.icache
  <2> DEFINE st == Zeros(k) \o m.stack
  <2>1. st \in Seq(Byte)
    BY <1>1
  <2>2. g = [m EXCEPT !.stack = st]
    BY DEF Longer
  <2> HIDE DEF st
  <2>3. /\ g \in Space /\ g.stack = st
        /\ g.low = m.low /\ g.text_end = m.text_end /\ g.icache = m.icache
    BY <2>1, <2>2 DEF Typed, Space
  <2> QED BY <2>3 DEF st
<1>3. Typed(g) /\ LowEnd(g) = LowEnd(m) /\ StackLow(g) = StackLow(m) - k
  <2>1. LowEnd(g) = LowEnd(m)
    BY <1>2 DEF LowEnd
  <2>2. Typed(g)
    BY <1>2, <2>1 DEF Typed
  <2>3. Len(g.stack) = k + Len(m.stack)
    BY <1>1, <1>2
  <2>4. Len(m.stack) \in Nat /\ TASK_SIZE \in Nat
    BY TypedFacts, Constants
  <2>5. StackLow(g) = StackLow(m) - k
    BY ONLY <2>3, <2>4, k \in Nat DEF StackLow
  <2> QED BY <2>1, <2>2, <2>5
<1>4. \A i \in 1 .. k : g.stack[i] = 0
  BY <1>1, <1>2, TypedFacts, ZerosFacts
<1>5. ASSUME NEW i \in 1 .. Len(m.stack) PROVE g.stack[k + i] = m.stack[i]
  <2>1. k + i \in 1 .. k + Len(m.stack) /\ ~(k + i <= k) /\ (k + i) - k = i
    BY TypedFacts
  <2> QED BY <2>1, <1>1, <1>2
<1> QED BY <1>2, <1>3, <1>4, <1>5
(* Cleared entries are None, the others stay.                               *)
LEMMA FlushedFacts ==
    ASSUME NEW m, Typed(m), NEW addr \in Int, NEW n \in Nat
    PROVE  /\ Flushed(m.icache, addr, n) \in Seq(Entry \cup {None})
           /\ Len(Flushed(m.icache, addr, n)) = m.text_end
           /\ \A i \in 1 .. m.text_end :
                 Flushed(m.icache, addr, n)[i] =
                     IF i - 1 \in addr - FLUSH_BACK .. addr + n - 1 THEN None ELSE m.icache[i]
<1> DEFINE f == Flushed(m.icache, addr, n)
           l == m.text_end
<1>1. l \in Nat /\ DOMAIN m.icache = 1 .. l /\ \A i \in 1 .. l : m.icache[i] \in Entry \cup {None}
  <2>1. Len(m.icache) = l /\ m.icache \in Seq(Entry \cup {None})
    BY TypedFacts
  <2> QED BY <2>1, TypedFacts, ElementOfSeq
<1>2. f = [i \in 1 .. l |-> IF i - 1 \in addr - FLUSH_BACK .. addr + n - 1 THEN None ELSE m.icache[i]]
  BY <1>1 DEF Flushed
<1>3. f \in [1 .. l -> Entry \cup {None}]
  BY <1>1, <1>2
<1> HIDE DEF l
<1>4. f \in Seq(Entry \cup {None}) /\ Len(f) = l
  BY <1>1, <1>3, AsSequence
<1> QED BY <1>2, <1>4 DEF l

(* Bytes written over the low array.                                        *)
LEMMA LowWrite ==
    ASSUME NEW m, Typed(m), NEW addr \in Int, NEW data \in Seq(Byte), InLow(m, addr, Len(data)),
           NEW w, w = InPlace(m, addr, data)
    PROVE  /\ Typed(w) /\ LowEnd(w) = LowEnd(m) /\ StackLow(w) = StackLow(m)
           /\ w.text_end = m.text_end /\ w.stack = m.stack
           /\ \A i \in 1 .. LowEnd(m) :
                 w.low[i] = IF i - addr \in 1 .. Len(data) THEN data[i - addr] ELSE m.low[i]
           /\ w.icache = IF addr < m.text_end THEN Flushed(m.icache, addr, Len(data)) ELSE m.icache
<1> DEFINE low == Patched(m.low, addr, data)
           icache == IF addr < m.text_end THEN Flushed(m.icache, addr, Len(data)) ELSE m.icache
<1>1. addr \in Nat /\ addr + Len(data) <= Len(m.low) /\ Len(data) \in Nat
  BY LenProperties DEF InLow, LowEnd
<1>2. /\ low \in Seq(Byte) /\ Len(low) = LowEnd(m)
      /\ \A i \in 1 .. LowEnd(m) : low[i] = IF i - addr \in 1 .. Len(data) THEN data[i - addr] ELSE m.low[i]
  BY <1>1, TypedFacts, PatchedFacts
<1>3. icache \in Seq(Entry \cup {None}) /\ Len(icache) = m.text_end
  BY <1>1, FlushedFacts, TypedFacts
<1>4. w = [m EXCEPT !.low = low, !.icache = icache]
  BY DEF InPlace
<1> HIDE DEF low, icache
<1>5. /\ w \in Space /\ w.low = low /\ w.icache = icache /\ w.stack = m.stack
      /\ w.text_end = m.text_end
  BY <1>2, <1>3, <1>4 DEF Typed, Space
<1>6. Typed(w) /\ LowEnd(w) = LowEnd(m) /\ StackLow(w) = StackLow(m)
  BY <1>2, <1>3, <1>5, TypedFacts DEF Typed, LowEnd, StackLow
<1> QED BY <1>2, <1>5, <1>6 DEF icache

(* Bytes written over the stack.                                            *)
LEMMA StackWrite ==
    ASSUME NEW m, Typed(m), NEW addr \in Int, NEW data \in Seq(Byte),
           ~InLow(m, addr, Len(data)), InStack(m, addr, Len(data)),
           NEW w, w = InPlace(m, addr, data)
    PROVE  /\ Typed(w) /\ LowEnd(w) = LowEnd(m) /\ StackLow(w) = StackLow(m)
           /\ w.text_end = m.text_end /\ w.low = m.low /\ w.icache = m.icache
           /\ \A i \in 1 .. Len(m.stack) :
                 w.stack[i] = IF i - (addr - StackLow(m)) \in 1 .. Len(data) THEN data[i - (addr - StackLow(m))]
                              ELSE m.stack[i]
<1> DEFINE at == addr - StackLow(m)
           stack == Patched(m.stack, at, data)
<1>1. at \in Nat /\ at + Len(data) <= Len(m.stack) /\ Len(data) \in Nat
  <2>1. addr >= StackLow(m) /\ addr + Len(data) <= TASK_SIZE /\ Len(data) \in Nat
    BY LenProperties DEF InStack
  <2>2. /\ StackLow(m) \in Int /\ Len(m.stack) \in Nat /\ StackLow(m) = TASK_SIZE - Len(m.stack)
        /\ TASK_SIZE \in Nat
    BY TypedFacts, Constants
  <2> QED BY <2>1, <2>2
<1> HIDE DEF at
<1>2. /\ stack \in Seq(Byte) /\ Len(stack) = Len(m.stack)
      /\ \A i \in 1 .. Len(m.stack) : stack[i] = IF i - at \in 1 .. Len(data) THEN data[i - at] ELSE m.stack[i]
  BY <1>1, TypedFacts, PatchedFacts
<1>4. w = [m EXCEPT !.stack = stack]
  BY DEF InPlace, at
<1> HIDE DEF stack
<1>5. /\ w \in Space /\ w.low = m.low /\ w.icache = m.icache /\ w.stack = stack
      /\ w.text_end = m.text_end
  BY <1>2, <1>4 DEF Typed, Space
<1>6. Typed(w) /\ LowEnd(w) = LowEnd(m) /\ StackLow(w) = StackLow(m)
  BY <1>2, <1>5 DEF Typed, LowEnd, StackLow
<1> QED BY <1>2, <1>5, <1>6 DEF at

-----------------------------------------------------------------------------
(* Decoding.                                                                *)

(* The instruction at eip has its opcode at o, and all of it is there.      *)
Length(m, eip, o) == o + OpLength[Cell(m, o)] - eip
DecodesAt(m, eip, o) ==
    /\ o \in eip .. TASK_SIZE /\ \A b \in eip .. o - 1 : ~NoPrefix(m, b)
    /\ Mapped(m, o, 1) /\ Cell(m, o) \notin PREFIXES
    /\ \A a \in o .. eip + Length(m, eip, o) - 1 : Mapped(m, a, 1)
EntryOf(m, eip, o) ==
    [length |-> Length(m, eip, o), bytes |-> [i \in 1 .. Length(m, eip, o) |-> Cell(m, eip + i - 1)]]

(* An instruction reaches beyond its opcode, over bytes that are mapped.    *)
LEMMA LengthFacts ==
    ASSUME NEW m, Typed(m), NEW eip \in Nat, NEW o, DecodesAt(m, eip, o)
    PROVE  /\ o \in Nat /\ Length(m, eip, o) \in Nat /\ o < eip + Length(m, eip, o)
           /\ \A a \in eip .. eip + Length(m, eip, o) - 1 : Mapped(m, a, 1)
           /\ EntryOf(m, eip, o) \in Entry
<1>1. o \in Nat /\ eip <= o /\ Mapped(m, o, 1)
  BY Constants DEF DecodesAt
<1>2. Cell(m, o) \in Byte \ PREFIXES
  BY <1>1, CellFacts DEF DecodesAt
<1>3. OpLength[Cell(m, o)] \in Nat /\ OpLength[Cell(m, o)] > 0
  <2>1. OpLength \in [Byte \ PREFIXES -> 1 .. FLUSH_BACK]
    BY SpaceAssumption
  <2>2. OpLength[Cell(m, o)] \in 1 .. FLUSH_BACK
    BY ONLY <1>2, <2>1
  <2> QED BY ONLY <2>2
<1> DEFINE l == Length(m, eip, o)
<1>4. l \in Nat /\ o < eip + l
  BY <1>1, <1>3 DEF Length
<1> HIDE DEF l
<1>5. ASSUME NEW a \in eip .. eip + l - 1 PROVE Mapped(m, a, 1)
  <2>1. CASE a \in eip .. o - 1
    BY <2>1 DEF DecodesAt, NoPrefix
  <2>2. CASE a \in o .. eip + l - 1
    BY <2>2 DEF DecodesAt, l
  <2> QED BY <1>1, <1>4, <2>1, <2>2
<1>6. \A i \in 1 .. l : Cell(m, eip + i - 1) \in Byte
  <2>1. \A i \in 1 .. l : eip + i - 1 \in Int /\ eip + i - 1 \in eip .. eip + l - 1
    BY <1>4
  <2> QED BY <2>1, <1>5, CellFacts
<1> DEFINE bytes == [i \in 1 .. l |-> Cell(m, eip + i - 1)]
<1>7. bytes \in [1 .. l -> Byte]
  BY <1>6
<1> HIDE DEF bytes
<1>8. bytes \in Seq(Byte)
  BY <1>4, <1>7, AsSequence
<1>9. EntryOf(m, eip, o) = [length |-> l, bytes |-> bytes]
  BY DEF EntryOf, l, bytes
<1> QED BY <1>1, <1>4, <1>5, <1>8, <1>9 DEF l, Entry

(* Where the bytes make up an instruction, that is what decoding gives.     *)
LEMMA ThenDecoded ==
    ASSUME NEW m, Typed(m), NEW eip \in Nat, NEW o, DecodesAt(m, eip, o)
    PROVE  Decoded(m, eip) = EntryOf(m, eip, o)
<1>1. Opcode(m, eip) = o
  <2> DEFINE P(a) == NoPrefix(m, a) /\ \A b \in eip .. a - 1 : ~NoPrefix(m, b)
  <2>1. o \in eip .. TASK_SIZE /\ P(o)
    BY DEF DecodesAt, NoPrefix
  <2>2. ASSUME NEW a \in eip .. TASK_SIZE, P(a) PROVE a = o
    <3>1. ~(a < o) /\ ~(o < a)
      BY <2>1, <2>2, Constants
    <3> QED BY <2>1, <3>1, Constants
  <2> HIDE DEF P
  <2>3. (CHOOSE a \in eip .. TASK_SIZE : P(a)) = o
    BY <2>1, <2>2
  <2> QED BY <2>3 DEF Opcode, P
<1> QED BY <1>1 DEF Decoded, DecodesAt, EntryOf, Length

(* No byte is mapped at the end of the address space, so prefixes do end.   *)
LEMMA DecodedThen ==
    ASSUME NEW m, Typed(m), LowEnd(m) <= StackLow(m), NEW eip \in 0 .. TASK_SIZE,
           Decoded(m, eip) # None
    PROVE  \E o : DecodesAt(m, eip, o) /\ Decoded(m, eip) = EntryOf(m, eip, o)
<1> DEFINE P(a) == NoPrefix(m, a) /\ \A b \in eip .. a - 1 : ~NoPrefix(m, b)
           S == {a \in eip .. TASK_SIZE : NoPrefix(m, a)}
           o == Opcode(m, eip)
<1>1. TASK_SIZE \in S
  <2>1. ~Mapped(m, TASK_SIZE, 1)
    BY TypedFacts, Constants, CellFacts
  <2> QED BY <2>1, Constants DEF NoPrefix
<1>2. S \in SUBSET Nat
  BY Constants
<1> HIDE DEF S
<1>3. PICK n \in S : \A k \in S : n <= k
  BY <1>1, <1>2, LeastNumber
<1>4. n \in eip .. TASK_SIZE /\ P(n)
  <2>1. n \in eip .. TASK_SIZE /\ NoPrefix(m, n)
    BY <1>3 DEF S
  <2>2. ASSUME NEW b \in eip .. n - 1, NoPrefix(m, b) PROVE FALSE
    <3>1. b \in S /\ b < n
      BY <2>1, <2>2, Constants DEF S
    <3> QED BY <3>1, <1>2, <1>3
  <2> QED BY <2>1, <2>2
<1> HIDE DEF P
<1>5. o \in eip .. TASK_SIZE /\ P(o)
  <2>1. o = CHOOSE a \in eip .. TASK_SIZE : P(a)
    BY DEF Opcode, P
  <2> HIDE DEF o
  <2> QED BY <1>4, <2>1
<1>6. Mapped(m, o, 1) /\ \A a \in o .. eip + Length(m, eip, o) - 1 : Mapped(m, a, 1)
  BY DEF Decoded, Length
<1>7. DecodesAt(m, eip, o)
  BY <1>5, <1>6 DEF DecodesAt, P, NoPrefix
<1> QED BY <1>7, ThenDecoded

(* Decoding looks at the bytes of the instruction only.                     *)
LEMMA DecodedAlike ==
    ASSUME NEW m, Typed(m), NEW w, Typed(w), NEW eip \in Nat, NEW o, DecodesAt(m, eip, o),
           \A a \in eip .. eip + Length(m, eip, o) - 1 : Mapped(w, a, 1) /\ Cell(w, a) = Cell(m, a)
    PROVE  DecodesAt(w, eip, o) /\ EntryOf(w, eip, o) = EntryOf(m, eip, o)
<1> DEFINE l == Length(m, eip, o)
<1>1. o \in Nat /\ l \in Nat /\ eip <= o /\ o < eip + l
  BY LengthFacts, Constants DEF DecodesAt
<1>2. \A a \in eip .. eip + l - 1 : Mapped(w, a, 1) /\ Cell(w, a) = Cell(m, a)
  OBVIOUS
<1>3. Mapped(w, o, 1) /\ Cell(w, o) = Cell(m, o)
  <2> HIDE DEF l
  <2> QED BY <1>1, <1>2
<1>4. Length(w, eip, o) = l
  BY <1>3 DEF Length
<1> HIDE DEF l
<1>5. ASSUME NEW b \in eip .. o - 1 PROVE ~NoPrefix(w, b)
  <2>1. Mapped(w, b, 1) /\ Cell(w, b) = Cell(m, b)
    BY <1>1, <1>2
  <2> QED BY <2>1 DEF DecodesAt, NoPrefix
<1>6. \A a \in o .. eip + l - 1 : Mapped(w, a, 1)
  BY <1>1, <1>2
<1>7. DecodesAt(w, eip, o)
  BY <1>3, <1>4, <1>5, <1>6 DEF DecodesAt
<1>8. [i \in 1 .. l |-> Cell(w, eip + i - 1)] = [i \in 1 .. l |-> Cell(m, eip + i - 1)]
  <2>1. \A i \in 1 .. l : eip + i - 1 \in eip .. eip + l - 1
    BY <1>1
  <2> QED BY <1>2, <2>1
<1> QED BY <1>4, <1>7, <1>8 DEF EntryOf, l

-----------------------------------------------------------------------------
(* What is written, and the cache.                                          *)

(* Every entry is what the text holds there, lies in the text, and is short.*)
Coherent(m) ==
    \A i \in 1 .. m.text_end : m.icache[i] # None =>
        \E o : /\ DecodesAt(m, i - 1, o) /\ m.icache[i] = EntryOf(m, i - 1, o)
              /\ i - 1 + Length(m, i - 1, o) <= m.text_end
              /\ Length(m, i - 1, o) <= FLUSH_BACK + 1

Sound(m) == Typed(m) /\ LowEnd(m) <= StackLow(m) /\ Coherent(m)

(* Entries of which no byte has changed stay right.                         *)
LEMMA CoherentKept ==
    ASSUME NEW m, Sound(m), NEW w, Typed(w), w.text_end = m.text_end,
           \A i \in 1 .. m.text_end : w.icache[i] \in {None, m.icache[i]},
           \A i \in 1 .. m.text_end : w.icache[i] # None =>
               \A a \in i - 1 .. i - 1 + FLUSH_BACK : a < m.text_end => w.low[a + 1] = m.low[a + 1]
    PROVE  Coherent(w)
<1> SUFFICES ASSUME NEW i \in 1 .. m.text_end, w.icache[i] # None
             PROVE  \E o : /\ DecodesAt(w, i - 1, o) /\ w.icache[i] = EntryOf(w, i - 1, o)
                          /\ i - 1 + Length(w, i - 1, o) <= m.text_end
                          /\ Length(w, i - 1, o) <= FLUSH_BACK + 1
  BY DEF Coherent
<1>1. Typed(m) /\ Typed(w) /\ Coherent(m)
  BY DEF Sound
<1>2. w.icache[i] = m.icache[i]
  OBVIOUS
<1> DEFINE eip == i - 1
<1>3. PICK o : /\ DecodesAt(m, eip, o) /\ m.icache[i] = EntryOf(m, eip, o)
               /\ eip + Length(m, eip, o) <= m.text_end
               /\ Length(m, eip, o) <= FLUSH_BACK + 1
  BY <1>1, <1>2 DEF Coherent
<1>4. /\ m.text_end \in Nat /\ m.text_end <= LowEnd(m) /\ m.text_end <= LowEnd(w)
      /\ LowEnd(m) \in Nat /\ LowEnd(w) \in Nat /\ FLUSH_BACK \in Nat
  BY <1>1, TypedFacts, Constants
<1>5. eip \in Nat
  BY <1>4
<1>6. Length(m, eip, o) \in Nat
  BY <1>1, <1>3, <1>5, LengthFacts
<1>7. \A a \in eip .. eip + FLUSH_BACK : a < m.text_end => w.low[a + 1] = m.low[a + 1]
  OBVIOUS
<1> HIDE DEF eip
<1>8. ASSUME NEW a \in eip .. eip + Length(m, eip, o) - 1
      PROVE  Mapped(w, a, 1) /\ Cell(w, a) = Cell(m, a)
  <2>1. a \in Int /\ 0 <= a /\ a < m.text_end /\ a \in eip .. eip + FLUSH_BACK
    BY <1>3, <1>4, <1>5, <1>6
  <2>2. a < LowEnd(m) /\ a < LowEnd(w)
    BY <2>1, <1>4
  <2>3. Mapped(w, a, 1) /\ Cell(w, a) = w.low[a + 1] /\ Cell(m, a) = m.low[a + 1]
    BY <2>1, <2>2, <1>1, CellFacts
  <2> QED BY <2>1, <2>3, <1>7
<1>9. DecodesAt(w, eip, o) /\ EntryOf(w, eip, o) = EntryOf(m, eip, o)
  BY <1>1, <1>3, <1>5, <1>8, DecodedAlike
<1>10. Length(w, eip, o) = Length(m, eip, o)
  BY <1>9 DEF EntryOf
<1> QED BY <1>2, <1>3, <1>9, <1>10 DEF eip

(* A write over text, data or heap.                                         *)
LEMMA LowWriteSound ==
    ASSUME NEW m, Sound(m), NEW addr \in Int, NEW data \in Seq(Byte), InLow(m, addr, Len(data)),
           NEW w, w = InPlace(m, addr, data)
    PROVE  Sound(w) /\ FlatBytes(w) = Overwritten(FlatBytes(m), addr, data)
<1> DEFINE n == Len(data)
<1>1. Typed(m) /\ LowEnd(m) <= StackLow(m)
  BY DEF Sound
<1>2. /\ Typed(w) /\ LowEnd(w) = LowEnd(m) /\ StackLow(w) = StackLow(m)
      /\ w.text_end = m.text_end /\ w.stack = m.stack
      /\ \A i \in 1 .. LowEnd(m) : w.low[i] = IF i - addr \in 1 .. n THEN data[i - addr] ELSE m.low[i]
      /\ w.icache = IF addr < m.text_end THEN Flushed(m.icache, addr, n) ELSE m.icache
  BY <1>1, LowWrite
<1>3. n \in Nat /\ DOMAIN data = 1 .. n /\ addr >= 0 /\ addr + n <= LowEnd(m)
  BY LenProperties DEF InLow
<1>4. /\ m.text_end \in Nat /\ LowEnd(m) \in Nat /\ m.text_end <= LowEnd(m) /\ FLUSH_BACK \in Nat
      /\ StackLow(m) \in Int
  BY <1>1, TypedFacts, Constants
<1> HIDE DEF n
<1>5. ASSUME NEW i \in 1 .. m.text_end
      PROVE  w.icache[i] = IF addr < m.text_end /\ i - 1 \in addr - FLUSH_BACK .. addr + n - 1 THEN None
                           ELSE m.icache[i]
  BY <1>1, <1>2, <1>3, FlushedFacts
<1>6. ASSUME NEW i \in 1 .. m.text_end, w.icache[i] # None,
             NEW a \in i - 1 .. i - 1 + FLUSH_BACK, a < m.text_end
      PROVE  w.low[a + 1] = m.low[a + 1]
  <2>1. ~(addr < m.text_end /\ i - 1 \in addr - FLUSH_BACK .. addr + n - 1)
    BY <1>5, <1>6
  <2>2. a + 1 \in 1 .. LowEnd(m) /\ ~(a + 1 - addr \in 1 .. n)
    BY <2>1, <1>3, <1>4, <1>6
  <2> QED BY <2>2, <1>2
<1>7. Coherent(w)
  BY <1>2, <1>5, <1>6, CoherentKept
<1>8. ASSUME NEW a \in Addr
      PROVE  FlatBytes(w)[a] = Overwritten(FlatBytes(m), addr, data)[a]
  <2>0. a \in Int /\ 0 <= a
    BY Constants DEF Addr
  <2>1. Mapped(w, a, 1) <=> Mapped(m, a, 1)
    BY <2>0, <1>1, <1>2, CellFacts
  <2>2. CASE a - addr + 1 \in 1 .. n
    <3>1. a < LowEnd(m) /\ a + 1 \in 1 .. LowEnd(m) /\ (a + 1) - addr = a - addr + 1
      BY <2>0, <2>2, <1>3, <1>4
    <3>2. Mapped(w, a, 1) /\ Cell(w, a) = w.low[a + 1]
      BY <2>0, <3>1, <1>2, CellFacts
    <3>3. w.low[a + 1] = data[a - addr + 1]
      BY <2>2, <3>1, <1>2
    <3> QED BY <2>2, <3>2, <3>3, <1>3 DEF FlatBytes, Overwritten
  <2>3. CASE ~(a - addr + 1 \in 1 .. n)
    <3>1. Mapped(m, a, 1) => Cell(w, a) = Cell(m, a)
      <4>1. CASE a < LowEnd(m)
        <5>1. Cell(w, a) = w.low[a + 1] /\ Cell(m, a) = m.low[a + 1]
          BY <2>0, <4>1, <1>1, <1>2, CellFacts
        <5>2. a + 1 \in 1 .. LowEnd(m) /\ (a + 1) - addr = a - addr + 1
          BY <2>0, <4>1, <1>4
        <5> QED BY <5>1, <5>2, <2>3, <1>2
      <4>2. CASE ~(a < LowEnd(m))
        <5>1. LowEnd(m) <= a
          BY <4>2, <2>0, <1>4
        <5> QED BY <2>0, <5>1, <1>1, <1>2, CellFacts
      <4> QED BY <4>1, <4>2
    <3> QED BY <2>1, <2>3, <3>1, <1>3 DEF FlatBytes, Overwritten
  <2> QED BY <2>2, <2>3
<1>9. FlatBytes(w) = Overwritten(FlatBytes(m), addr, data)
  BY <1>8 DEF FlatBytes, Overwritten
<1> QED BY <1>1, <1>2, <1>7, <1>9 DEF Sound

(* A write over the stack.                                                  *)
LEMMA StackWriteSound ==
    ASSUME NEW m, Sound(m), NEW addr \in Int, NEW data \in Seq(Byte),
           ~InLow(m, addr, Len(data)), InStack(m, addr, Len(data)),
           NEW w, w = InPlace(m, addr, data)
    PROVE  Sound(w) /\ FlatBytes(w) = Overwritten(FlatBytes(m), addr, data)
<1> DEFINE n == Len(data)
           at == addr - StackLow(m)
<1>1. Typed(m) /\ LowEnd(m) <= StackLow(m)
  BY DEF Sound
<1>2. /\ Typed(w) /\ LowEnd(w) = LowEnd(m) /\ StackLow(w) = StackLow(m)
      /\ w.text_end = m.text_end /\ w.low = m.low /\ w.icache = m.icache
      /\ \A i \in 1 .. Len(m.stack) : w.stack[i] = IF i - at \in 1 .. n THEN data[i - at] ELSE m.stack[i]
  BY <1>1, StackWrite
<1>3. n \in Nat /\ DOMAIN data = 1 .. n /\ addr >= StackLow(m) /\ addr + n <= TASK_SIZE
  BY LenProperties DEF InStack
<1>4. /\ LowEnd(m) \in Nat /\ StackLow(m) \in Int /\ TASK_SIZE \in Nat /\ m.text_end \in Nat
      /\ addr \in Int
  BY <1>1, TypedFacts, Constants
<1>7. Coherent(w)
  BY <1>2, CoherentKept
<1> HIDE DEF n
<1>8. ASSUME NEW a \in Addr
      PROVE  FlatBytes(w)[a] = Overwritten(FlatBytes(m), addr, data)[a]
  <2>0. a \in Int /\ 0 <= a /\ a < TASK_SIZE
    BY Constants DEF Addr
  <2>1. Mapped(w, a, 1) <=> Mapped(m, a, 1)
    BY <2>0, <1>1, <1>2, CellFacts
  <2>2. CASE a >= StackLow(m)
    <3> DEFINE i == a - StackLow(m) + 1
    <3>1. LowEnd(m) <= a
      BY <2>0, <2>2, <1>1, <1>4
    <3>2. Mapped(w, a, 1) /\ Mapped(m, a, 1) /\ Cell(w, a) = w.stack[i] /\ Cell(m, a) = m.stack[i]
      BY <2>0, <2>2, <3>1, <1>1, <1>2, CellFacts
    <3>3. i \in 1 .. Len(m.stack) /\ i - at = a - addr + 1
      BY <2>0, <2>2, <1>1, StackIndex
    <3> HIDE DEF i
    <3>4. w.stack[i] = IF a - addr + 1 \in 1 .. n THEN data[a - addr + 1] ELSE m.stack[i]
      BY <3>3, <1>2
    <3> QED BY <3>2, <3>4, <1>3 DEF FlatBytes, Overwritten
  <2>3. CASE ~(a >= StackLow(m))
    <3>1. ~(a - addr + 1 \in 1 .. n)
      BY <2>0, <2>3, <1>3, <1>4
    <3>2. Mapped(m, a, 1) => Cell(w, a) = Cell(m, a)
      BY <2>0, <2>3, <1>1, <1>2, <1>4, CellFacts
    <3> QED BY <2>1, <3>1, <3>2, <1>3 DEF FlatBytes, Overwritten
  <2> QED BY <2>2, <2>3
<1>9. FlatBytes(w) = Overwritten(FlatBytes(m), addr, data)
  BY <1>8 DEF FlatBytes, Overwritten
<1> QED BY <1>1, <1>2, <1>7, <1>9 DEF Sound

(* A stack that grows changes no byte.                                      *)
LEMMA GrowthSound ==
    ASSUME NEW m, Sound(m), NEW addr \in Int, CanGrow(m, addr), NEW g, g = Grown(m, addr)
    PROVE  Sound(g) /\ FlatBytes(g) = FlatBytes(m)
<1>1. Typed(m) /\ LowEnd(m) <= StackLow(m)
  BY DEF Sound
<1>2. PICK k \in Nat : g = Longer(m, k) /\ LowEnd(m) <= StackLow(m) - k
  BY <1>1, GrownFacts
<1>3. /\ Typed(g) /\ LowEnd(g) = LowEnd(m) /\ StackLow(g) = StackLow(m) - k
      /\ g.low = m.low /\ g.text_end = m.text_end /\ g.icache = m.icache
      /\ \A i \in 1 .. k : g.stack[i] = 0
      /\ \A i \in 1 .. Len(m.stack) : g.stack[k + i] = m.stack[i]
  BY <1>1, <1>2, GrowthFacts
<1>4. Coherent(g)
  BY <1>3, CoherentKept
<1>5. /\ LowEnd(m) \in Nat /\ StackLow(m) \in Int /\ TASK_SIZE \in Nat /\ k \in Nat
  BY <1>1, TypedFacts, Constants
<1>6. ASSUME NEW a \in Addr PROVE FlatBytes(g)[a] = FlatBytes(m)[a]
  <2>0. a \in Int /\ 0 <= a /\ a < TASK_SIZE
    BY Constants DEF Addr
  <2>1. CASE a < LowEnd(m)
    BY <2>0, <2>1, <1>1, <1>3, CellFacts DEF FlatBytes
  <2>2. CASE LowEnd(m) <= a /\ a < StackLow(m) - k
    <3>1. ~Mapped(g, a, 1) /\ ~Mapped(m, a, 1)
      BY <2>0, <2>2, <1>1, <1>3, <1>5, CellFacts
    <3> QED BY <3>1 DEF FlatBytes
  <2>3. CASE StackLow(m) - k <= a /\ a < StackLow(m)
    <3>1. LowEnd(g) <= a /\ StackLow(g) <= a /\ LowEnd(m) <= a
      BY <2>0, <2>3, <1>2, <1>3, <1>5
    <3>2. ~Mapped(m, a, 1)
      <4>1. ~(a < LowEnd(m)) /\ ~(StackLow(m) <= a)
        BY <2>0, <2>3, <3>1, <1>5
      <4> QED BY <2>0, <4>1, <1>1, CellFacts
    <3>4. Mapped(g, a, 1) /\ Cell(g, a) = g.stack[a - StackLow(g) + 1]
      BY <2>0, <3>1, <1>3, CellFacts
    <3>5. StackLow(g) = StackLow(m) - k
      BY <1>3
    <3>3. a - StackLow(g) + 1 \in 1 .. k
      BY <2>0, <2>3, <3>5, <1>5
    <3> QED BY <3>2, <3>3, <3>4, <1>3 DEF FlatBytes
  <2>4. CASE StackLow(m) <= a
    <3>1. LowEnd(g) <= a /\ StackLow(g) <= a /\ LowEnd(m) <= a
      BY <2>0, <2>4, <1>1, <1>2, <1>3, <1>5
    <3>2. /\ Mapped(m, a, 1) /\ Mapped(g, a, 1) /\ Cell(g, a) = g.stack[a - StackLow(g) + 1]
          /\ Cell(m, a) = m.stack[a - StackLow(m) + 1]
      BY <2>0, <2>4, <3>1, <1>1, <1>3, CellFacts
    <3>3. a - StackLow(m) + 1 \in 1 .. Len(m.stack) /\ a - StackLow(g) + 1 = k + (a - StackLow(m) + 1)
      <4>1. StackLow(g) = StackLow(m) - k
        BY <1>3
      <4>2. a - StackLow(m) + 1 \in 1 .. Len(m.stack)
        BY <2>0, <2>4, <1>1, StackIndex
      <4> QED BY <2>0, <4>1, <4>2, <1>5
    <3> QED BY <3>2, <3>3, <1>3 DEF FlatBytes
  <2>5. \/ a < LowEnd(m)
        \/ (LowEnd(m) <= a /\ a < StackLow(m) - k)
        \/ (StackLow(m) - k <= a /\ a < StackLow(m))
        \/ StackLow(m) <= a
    BY <2>0, <1>5
  <2> QED BY <2>1, <2>2, <2>3, <2>4, <2>5
<1>7. FlatBytes(g) = FlatBytes(m)
  BY <1>6 DEF FlatBytes
<1> QED BY <1>2, <1>3, <1>4, <1>7 DEF Sound

(* A write is the write of an i386, or a fault that leaves every byte.      *)
LEMMA WriteSound ==
    ASSUME NEW m, Sound(m), NEW addr \in Int, NEW data \in Seq(Byte), NEW w, w = Write(m, addr, data)
    PROVE  /\ Sound(w.m) /\ w.fault \in BOOLEAN
           /\ FlatBytes(w.m) = IF w.fault THEN FlatBytes(m) ELSE Overwritten(FlatBytes(m), addr, data)
<1> DEFINE n == Len(data)
           g == IF ~Mapped(m, addr, n) /\ CanGrow(m, addr) THEN Grown(m, addr) ELSE m
<1>1. Sound(g) /\ FlatBytes(g) = FlatBytes(m)
  BY GrowthSound
<1>2. w = IF Mapped(g, addr, n) THEN [m |-> InPlace(g, addr, data), fault |-> FALSE]
          ELSE [m |-> g, fault |-> TRUE]
  BY DEF Write
<1> HIDE DEF g
<1>3. ASSUME Mapped(g, addr, n)
      PROVE  /\ Sound(InPlace(g, addr, data))
             /\ FlatBytes(InPlace(g, addr, data)) = Overwritten(FlatBytes(g), addr, data)
  BY <1>1, <1>3, LowWriteSound, StackWriteSound DEF Mapped
<1> QED BY <1>1, <1>2, <1>3

(* The types hold also where the heap is not below the stack.               *)
LEMMA WriteTyped ==
    ASSUME NEW m, Typed(m), NEW addr \in Int, NEW data \in Seq(Byte), NEW w, w = Write(m, addr, data)
    PROVE  Typed(w.m) /\ w.m.text_end = m.text_end
<1> DEFINE n == Len(data)
           g == IF ~Mapped(m, addr, n) /\ CanGrow(m, addr) THEN Grown(m, addr) ELSE m
<1>1. Typed(g) /\ g.text_end = m.text_end
  BY GrownFacts, GrowthFacts
<1>2. w = IF Mapped(g, addr, n) THEN [m |-> InPlace(g, addr, data), fault |-> FALSE]
          ELSE [m |-> g, fault |-> TRUE]
  BY DEF Write
<1> HIDE DEF g
<1>3. ASSUME Mapped(g, addr, n)
      PROVE  Typed(InPlace(g, addr, data)) /\ InPlace(g, addr, data).text_end = g.text_end
  BY <1>1, <1>3, LowWrite, StackWrite DEF Mapped
<1> QED BY <1>1, <1>2, <1>3

-----------------------------------------------------------------------------
(* Fetching and brk.                                                        *)

(* The same bytes, the same memory.                                         *)
LEMMA SameBytes ==
    ASSUME NEW m, NEW w, w.low = m.low, w.stack = m.stack
    PROVE  /\ LowEnd(w) = LowEnd(m) /\ StackLow(w) = StackLow(m)
           /\ \A a : Mapped(w, a, 1) <=> Mapped(m, a, 1)
           /\ \A a : Cell(w, a) = Cell(m, a)
           /\ FlatBytes(w) = FlatBytes(m)
<1>1. LowEnd(w) = LowEnd(m) /\ StackLow(w) = StackLow(m)
  BY DEF LowEnd, StackLow
<1>2. \A a : Mapped(w, a, 1) <=> Mapped(m, a, 1)
  BY <1>1 DEF Mapped, InLow, InStack
<1>3. \A a : Cell(w, a) = Cell(m, a)
  BY <1>1 DEF Cell, InLow
<1>4. FlatBytes(w) = FlatBytes(m)
  BY <1>2, <1>3 DEF FlatBytes
<1> QED BY <1>1, <1>2, <1>3, <1>4

(* What is executed is what the text holds.                                 *)
LEMMA FetchedFacts ==
    ASSUME NEW m, Sound(m), NEW eip \in 0 .. m.text_end, Fetched(m, eip) # None,
           Decoded(m, eip) # None => Decoded(m, eip).length <= FLUSH_BACK + 1
    PROVE  \E o : /\ DecodesAt(m, eip, o) /\ Fetched(m, eip) = EntryOf(m, eip, o)
                  /\ Length(m, eip, o) <= FLUSH_BACK + 1
<1>1. Typed(m) /\ LowEnd(m) <= StackLow(m) /\ Coherent(m)
  BY DEF Sound
<1>2. m.text_end \in Nat /\ m.text_end <= LowEnd(m) /\ Len(m.icache) = m.text_end
  BY <1>1, TypedFacts
<1>3. StackLow(m) <= TASK_SIZE /\ StackLow(m) \in Int /\ LowEnd(m) \in Nat /\ TASK_SIZE \in Nat
  <2>1. StackLow(m) = TASK_SIZE - Len(m.stack) /\ Len(m.stack) \in Nat /\ TASK_SIZE \in Nat
    BY <1>1, TypedFacts, Constants
  <2>2. StackLow(m) <= TASK_SIZE
    BY ONLY <2>1
  <2> QED BY <1>1, <2>1, <2>2, TypedFacts
<1>4. eip \in Nat /\ eip \in 0 .. TASK_SIZE
  BY <1>1, <1>2, <1>3
<1>5. CASE Hit(m, eip)
  <2>1. eip + 1 \in 1 .. m.text_end /\ m.icache[eip + 1] # None /\ (eip + 1) - 1 = eip
    BY <1>2, <1>4, <1>5 DEF Hit
  <2>2. Fetched(m, eip) = m.icache[eip + 1]
    BY <1>5 DEF Fetched
  <2>3. \E o : /\ DecodesAt(m, (eip + 1) - 1, o) /\ m.icache[eip + 1] = EntryOf(m, (eip + 1) - 1, o)
               /\ Length(m, (eip + 1) - 1, o) <= FLUSH_BACK + 1
    BY <1>1, <2>1 DEF Coherent
  <2> QED BY <2>1, <2>2, <2>3
<1>6. CASE ~Hit(m, eip)
  <2>1. Fetched(m, eip) = Decoded(m, eip) /\ Decoded(m, eip) # None
    BY <1>6 DEF Fetched
  <2>2. PICK o : DecodesAt(m, eip, o) /\ Decoded(m, eip) = EntryOf(m, eip, o)
    BY <1>1, <1>4, <2>1, DecodedThen
  <2>3. EntryOf(m, eip, o).length = Length(m, eip, o)
    BY DEF EntryOf
  <2> QED BY <2>1, <2>2, <2>3
<1> QED BY <1>5, <1>6

(* Filling the cache changes no byte, and the new entry is right.           *)
LEMMA WithEntrySound ==
    ASSUME NEW m, Sound(m), NEW eip \in 0 .. m.text_end, Fetched(m, eip) # None,
           Decoded(m, eip) # None => Decoded(m, eip).length <= FLUSH_BACK + 1
    PROVE  Sound(WithEntry(m, eip)) /\ FlatBytes(WithEntry(m, eip)) = FlatBytes(m)
<1> DEFINE e == Fetched(m, eip)
           w == [m EXCEPT !.icache = [m.icache EXCEPT ![eip + 1] = e]]
<1>1. Typed(m) /\ LowEnd(m) <= StackLow(m) /\ Coherent(m)
  BY DEF Sound
<1>2. PICK o : /\ DecodesAt(m, eip, o) /\ e = EntryOf(m, eip, o)
               /\ Length(m, eip, o) <= FLUSH_BACK + 1
  BY FetchedFacts
<1>3. m.text_end \in Nat /\ Len(m.icache) = m.text_end /\ eip \in Nat
  BY <1>1, TypedFacts
<1>4. /\ o \in Nat /\ Length(m, eip, o) \in Nat /\ eip <= o /\ o < eip + Length(m, eip, o)
      /\ e \in Entry /\ e.length = Length(m, eip, o)
  <2>1. /\ o \in Nat /\ Length(m, eip, o) \in Nat /\ o < eip + Length(m, eip, o)
        /\ EntryOf(m, eip, o) \in Entry
    BY <1>1, <1>2, <1>3, LengthFacts
  <2>2. eip <= o
    BY <1>2, <1>3, Constants DEF DecodesAt
  <2>3. EntryOf(m, eip, o).length = Length(m, eip, o)
    BY DEF EntryOf
  <2> HIDE DEF e
  <2> QED BY <1>2, <2>1, <2>2, <2>3
<1>5. WithEntry(m, eip) = IF eip + e.length <= m.text_end THEN w ELSE m
  BY <1>3 DEF WithEntry
<1> HIDE DEF e
<1>6. ASSUME eip + e.length <= m.text_end
      PROVE  Sound(w) /\ FlatBytes(w) = FlatBytes(m)
  <2> DEFINE ic == [m.icache EXCEPT ![eip + 1] = e]
  <2>1. eip + 1 \in 1 .. m.text_end
    BY <1>3, <1>4, <1>6
  <2>2. /\ m.icache \in [1 .. m.text_end -> Entry \cup {None}]
        /\ m.icache \in Seq(Entry \cup {None})
    <3>1. m.icache \in Seq(Entry \cup {None}) /\ Len(m.icache) = m.text_end
      BY <1>1, TypedFacts
    <3>2. m.icache \in [1 .. Len(m.icache) -> Entry \cup {None}]
      BY <3>1, LenProperties
    <3> QED BY <3>1, <3>2
  <2>3. ic \in [1 .. m.text_end -> Entry \cup {None}]
    BY <2>1, <2>2, <1>4
  <2>4. \A i \in 1 .. m.text_end : ic[i] = IF i = eip + 1 THEN e ELSE m.icache[i]
    BY <2>2
  <2> HIDE DEF ic
  <2>5. ic \in Seq(Entry \cup {None}) /\ Len(ic) = m.text_end
    BY <2>3, <1>3, AsSequence
  <2>6. w = [m EXCEPT !.icache = ic]
    BY DEF ic
  <2> HIDE DEF w
  <2>7. /\ w \in Space /\ w.low = m.low /\ w.stack = m.stack /\ w.text_end = m.text_end
        /\ w.icache = ic
    BY <2>5, <2>6, <1>1 DEF Typed, Space
  <2>8. /\ LowEnd(w) = LowEnd(m) /\ StackLow(w) = StackLow(m) /\ FlatBytes(w) = FlatBytes(m)
        /\ \A a : Mapped(w, a, 1) <=> Mapped(m, a, 1)
        /\ \A a : Cell(w, a) = Cell(m, a)
    BY <2>7, SameBytes
  <2>9. Typed(w)
    BY <2>5, <2>7, <2>8, <1>1 DEF Typed
  <2>10. ASSUME NEW i \in 1 .. m.text_end, ic[i] # None
         PROVE  \E x : /\ DecodesAt(w, i - 1, x) /\ ic[i] = EntryOf(w, i - 1, x)
                       /\ i - 1 + Length(w, i - 1, x) <= m.text_end
                       /\ Length(w, i - 1, x) <= FLUSH_BACK + 1
    <3>1. PICK x : /\ DecodesAt(m, i - 1, x) /\ ic[i] = EntryOf(m, i - 1, x)
                   /\ i - 1 + Length(m, i - 1, x) <= m.text_end
                   /\ Length(m, i - 1, x) <= FLUSH_BACK + 1
      <4>1. CASE i = eip + 1
        <5>1. i - 1 = eip
          BY <4>1, <1>3
        <5> QED BY <5>1, <4>1, <2>4, <1>2, <1>4, <1>6
      <4>2. CASE i # eip + 1
        BY <4>2, <2>4, <2>10, <1>1 DEF Coherent
      <4> QED BY <4>1, <4>2
    <3>2. i - 1 \in Nat
      BY <1>3
    <3>3. DecodesAt(w, i - 1, x) /\ EntryOf(w, i - 1, x) = EntryOf(m, i - 1, x)
      BY <3>1, <3>2, <1>1, <2>8, <2>9, LengthFacts, DecodedAlike
    <3>4. Length(w, i - 1, x) = Length(m, i - 1, x)
      BY <2>8 DEF Length
    <3> QED BY <3>1, <3>3, <3>4
  <2>11. Coherent(w)
    BY <2>7, <2>10 DEF Coherent
  <2> QED BY <1>1, <2>8, <2>9, <2>11 DEF Sound
<1> QED BY <1>5, <1>6

(* A heap that grows, below the stack.                                      *)
LEMMA WithBrkSound ==
    ASSUME NEW m, Sound(m), NEW addr \in Int, NEW w, w = WithBrk(m, addr)
    PROVE  /\ Typed(w)
           /\ LowEnd(w) <= StackLow(w) => Sound(w) /\ FlatBytes(w) = FlatBytes(m)
<1>1. Typed(m) /\ LowEnd(m) <= StackLow(m)
  BY DEF Sound
<1>2. m.text_end \in Nat /\ LowEnd(m) \in Nat /\ StackLow(m) \in Int /\ m.text_end <= LowEnd(m)
  BY <1>1, TypedFacts
<1>3. CASE ~(m.text_end <= addr /\ addr < m.start_stack - BRK_STACK_GAP)
  BY <1>1, <1>3 DEF WithBrk
<1>4. CASE m.text_end <= addr /\ addr < m.start_stack - BRK_STACK_GAP
  <2> DEFINE k == Larger(addr - LowEnd(m), 0)
             low == m.low \o Zeros(k)
  <2>1. k \in Nat /\ addr \in Nat
    BY <1>2, <1>4 DEF Larger
  <2> HIDE DEF k
  <2>2. /\ low \in Seq(Byte) /\ Len(low) = LowEnd(m) + k
        /\ \A i \in 1 .. LowEnd(m) : low[i] = m.low[i]
        /\ \A i \in LowEnd(m) + 1 .. LowEnd(m) + k : low[i] = 0
    <3> DEFINE z == Zeros(k)
               t == m.low
    <3>1. z \in Seq(Byte) /\ Len(z) = k /\ t \in Seq(Byte) /\ \A i \in 1 .. k : z[i] = 0
      BY <2>1, <1>1, ZerosFacts, TypedFacts
    <3>2. LowEnd(m) = Len(t)
      BY DEF LowEnd
    <3> HIDE DEF z, t
    <3>3. /\ t \o z \in Seq(Byte) /\ Len(t \o z) = Len(t) + Len(z)
          /\ \A i \in 1 .. Len(t) + Len(z) : (t \o z)[i] = IF i <= Len(t) THEN t[i] ELSE z[i - Len(t)]
      BY <3>1, ConcatProperties
    <3>4. ASSUME NEW i \in LowEnd(m) + 1 .. LowEnd(m) + k PROVE (t \o z)[i] = 0
      <4>1. i \in 1 .. Len(t) + Len(z) /\ ~(i <= Len(t)) /\ i - Len(t) \in 1 .. k
        BY <3>1, <3>2, <1>2, <2>1
      <4> QED BY <4>1, <3>1, <3>3
    <3>5. ASSUME NEW i \in 1 .. LowEnd(m) PROVE (t \o z)[i] = t[i]
      <4>1. i \in 1 .. Len(t) + Len(z) /\ i <= Len(t)
        BY <3>1, <3>2, <1>2, <2>1
      <4> QED BY <4>1, <3>3
    <3> QED BY <3>1, <3>2, <3>3, <3>4, <3>5 DEF z, t
  <2>3. w = [m EXCEPT !.low = low, !.brk = addr]
    BY <1>4 DEF WithBrk, k
  <2> HIDE DEF low
  <2>4. /\ w \in Space /\ w.low = low /\ w.stack = m.stack /\ w.text_end = m.text_end
        /\ w.icache = m.icache
    BY <1>1, <2>1, <2>2, <2>3 DEF Typed, Space
  <2>5. LowEnd(w) = LowEnd(m) + k /\ StackLow(w) = StackLow(m)
    BY <2>2, <2>4 DEF LowEnd, StackLow
  <2>6. Typed(w)
    BY <1>1, <1>2, <2>1, <2>4, <2>5 DEF Typed
  <2>7. Coherent(w)
    <3>1. \A a \in Nat : a < m.text_end => w.low[a + 1] = m.low[a + 1]
      BY <1>2, <2>2, <2>4
    <3>2. ASSUME NEW i \in 1 .. m.text_end, w.icache[i] # None,
                 NEW a \in i - 1 .. i - 1 + FLUSH_BACK, a < m.text_end
          PROVE  w.low[a + 1] = m.low[a + 1]
      BY <1>2, <3>1, <3>2, Constants
    <3> QED BY <2>4, <2>6, <3>2, CoherentKept
  <2>8. ASSUME LowEnd(w) <= StackLow(w), NEW a \in Addr PROVE FlatBytes(w)[a] = FlatBytes(m)[a]
    <3>1. a \in Int /\ 0 <= a /\ a < TASK_SIZE
      BY Constants DEF Addr
    <3>2. CASE a < LowEnd(m)
      <4>1. a + 1 \in 1 .. LowEnd(m) /\ a < LowEnd(w)
        BY <1>2, <2>1, <2>5, <3>1, <3>2
      <4>2. /\ Mapped(m, a, 1) /\ Cell(m, a) = m.low[a + 1]
            /\ Mapped(w, a, 1) /\ Cell(w, a) = w.low[a + 1]
        BY <1>1, <2>6, <3>1, <3>2, <4>1, CellFacts
      <4> QED BY <2>2, <2>4, <4>1, <4>2 DEF FlatBytes
    <3>3. CASE LowEnd(m) <= a /\ a < LowEnd(w)
      <4>1. /\ ~Mapped(m, a, 1)
            /\ Mapped(w, a, 1) /\ Cell(w, a) = w.low[a + 1]
        <5>1. ~(a < LowEnd(m)) /\ ~(StackLow(m) <= a)
          BY <1>2, <2>1, <2>5, <2>8, <3>1, <3>3
        <5> QED BY <1>1, <2>6, <3>1, <3>3, <5>1, CellFacts
      <4>2. a + 1 \in LowEnd(m) + 1 .. LowEnd(m) + k
        BY <1>2, <2>1, <2>5, <3>1, <3>3
      <4> QED BY <2>2, <2>4, <4>1, <4>2 DEF FlatBytes
    <3>4. CASE LowEnd(w) <= a
      <4>1. LowEnd(m) <= a /\ ~(a < LowEnd(m)) /\ ~(a < LowEnd(w))
        BY <1>2, <2>1, <2>5, <3>1, <3>4
      <4>2. Mapped(w, a, 1) <=> Mapped(m, a, 1)
        BY <1>1, <2>5, <2>6, <3>1, <4>1, CellFacts
      <4>3. Cell(w, a) = Cell(m, a)
        BY <1>1, <2>4, <2>5, <2>6, <3>1, <3>4, <4>1, CellFacts
      <4> QED BY <4>2, <4>3 DEF FlatBytes
    <3> QED BY <1>2, <2>1, <2>5, <3>1, <3>2, <3>3, <3>4
  <2>9. LowEnd(w) <= StackLow(w) => FlatBytes(w) = FlatBytes(m)
    BY <2>8 DEF FlatBytes
  <2> QED BY <2>6, <2>7, <2>9 DEF Sound
<1> QED BY <1>3, <1>4

-----------------------------------------------------------------------------
(* Elements, one after the other.                                           *)

Element == [kind : {"given"}, at : Int, data : Seq(Byte)]
           \cup [kind : {"copy"}, at : Int, from : Int, len : Nat]

(* Storing an element is what an i386 does, or a fault.                     *)
LEMMA StoredSound ==
    ASSUME NEW m, Sound(m), NEW x \in Element, NEW w, w = Stored(m, x)
    PROVE  /\ Sound(w.m) /\ w.fault \in BOOLEAN
           /\ FlatBytes(w.m) = IF w.fault THEN FlatBytes(m)
                               ELSE Overwritten(FlatBytes(m), x.at, BytesOf(x, FlatBytes(m)))
           /\ x.kind = "copy" /\ ~w.fault =>
                 \A k \in 1 .. x.len : x.from + k - 1 \in Addr
<1>0. Typed(m) /\ LowEnd(m) <= StackLow(m)
  BY DEF Sound
<1>1. CASE x \in [kind : {"given"}, at : Int, data : Seq(Byte)]
  <2>1. x.kind = "given" /\ x.at \in Int /\ x.data \in Seq(Byte)
    BY <1>1
  <2>2. w = Write(m, x.at, x.data) /\ BytesOf(x, FlatBytes(m)) = x.data
    BY <2>1 DEF Stored, BytesOf
  <2> QED BY <2>1, <2>2, WriteSound
<1>2. CASE x \in [kind : {"copy"}, at : Int, from : Int, len : Nat]
  <2>1. x.kind = "copy" /\ x.at \in Int /\ x.from \in Int /\ x.len \in Nat
    BY <1>2
  <2> DEFINE from == x.from
             n == x.len
             b == FlatBytes(m)
  <2>2. /\ w = IF Mapped(m, from, n) THEN Write(m, x.at, Read(m, from, n)) ELSE [m |-> m, fault |-> TRUE]
        /\ BytesOf(x, b) = [k \in 1 .. n |-> b[from + k - 1]]
    BY <2>1 DEF Stored, CopyFrom, BytesOf
  <2>3. from \in Int /\ n \in Nat
    BY <2>1
  <2> HIDE DEF from, n
  <2>4. CASE ~Mapped(m, from, n)
    BY <2>2, <2>4
  <2>5. CASE Mapped(m, from, n)
    <3> DEFINE r == Read(m, from, n)
    <3>1. /\ r \in Seq(Byte) /\ Len(r) = n
          /\ \A k \in 1 .. n : Mapped(m, from + k - 1, 1) /\ r[k] = Cell(m, from + k - 1)
      BY <1>0, <2>3, <2>5, ReadFacts
    <3> HIDE DEF r
    <3>2. ASSUME NEW k \in 1 .. n PROVE from + k - 1 \in Addr /\ r[k] = b[from + k - 1]
      <4>1. Mapped(m, from + k - 1, 1) /\ r[k] = Cell(m, from + k - 1) /\ from + k - 1 \in Int
        BY <2>3, <3>1
      <4>2. from + k - 1 \in Addr
        BY <1>0, <4>1, MappedAddr
      <4> QED BY <4>1, <4>2 DEF FlatBytes
    <3>3. r = [k \in 1 .. n |-> b[from + k - 1]]
      <4>1. r \in [1 .. n -> Byte]
        <5>1. r \in [1 .. Len(r) -> Byte]
          BY <3>1, LenProperties
        <5> QED BY <3>1, <5>1
      <4> HIDE DEF b
      <4> QED BY <3>2, <4>1
    <3>4. w = Write(m, x.at, r)
      BY <2>2, <2>5 DEF r
    <3>5. /\ Sound(w.m) /\ w.fault \in BOOLEAN
          /\ FlatBytes(w.m) = IF w.fault THEN b ELSE Overwritten(b, x.at, r)
      BY <2>1, <3>1, <3>4, WriteSound
    <3> QED BY <2>2, <3>2, <3>3, <3>5 DEF from, n
  <2> QED BY <2>4, <2>5
<1> QED BY <1>1, <1>2 DEF Element

(* The result after element i, from the one before it.                      *)
NextResult(elements, st, i) ==
    IF st.fault THEN st
    ELSE LET w == Stored(st.m, elements[i])
         IN  [m |-> w.m, fault |-> w.fault, done |-> IF w.fault THEN i - 1 ELSE i]
ByElementUpto(T, m, elements, N, f) ==
    /\ f \in [0 .. N -> [m : T, fault : BOOLEAN, done : Nat]]
    /\ f[0] = [m |-> m, fault |-> FALSE, done |-> 0]
    /\ \A i \in 1 .. N : f[i] = NextResult(elements, f[i - 1], i)

(* The recursion of ByElement, whatever of the space every element keeps.   *)
LEMMA ByElementUnfolds ==
    ASSUME NEW T, NEW m \in T, NEW elements, NEW N \in Nat, Len(elements) = N,
           \A x \in T : \A i \in 1 .. N :
               Stored(x, elements[i]).m \in T /\ Stored(x, elements[i]).fault \in BOOLEAN
    PROVE  \E f : ByElementUpto(T, m, elements, N, f) /\ ByElement(m, elements) = f[N]
<1> DEFINE R == [m : T, fault : BOOLEAN, done : Nat]
           s0 == [m |-> m, fault |-> FALSE, done |-> 0]
           Step(st, i) == NextResult(elements, st, i)
           F == [st \in R |-> [i \in 1 .. N |-> Step(st, i)]]
           Is(f) == f = [i \in 0 .. N |-> IF i = 0 THEN s0 ELSE Step(f[i - 1], i)]
           after == CHOOSE f : Is(f)
<1>1. s0 \in R
  OBVIOUS
<1>2. \A st \in R : \A i \in 1 .. N : Step(st, i) \in R
  <2> SUFFICES ASSUME NEW st \in R, NEW i \in 1 .. N PROVE Step(st, i) \in R
    OBVIOUS
  <2> DEFINE w == Stored(st.m, elements[i])
  <2>1. w.m \in T /\ w.fault \in BOOLEAN /\ i \in Nat /\ i - 1 \in Nat
    OBVIOUS
  <2> HIDE DEF w
  <2>2. [m |-> w.m, fault |-> w.fault, done |-> IF w.fault THEN i - 1 ELSE i] \in R
    BY <2>1
  <2> QED BY <2>2 DEF w, NextResult
<1>3. ByElement(m, elements) = after[N]
  BY DEF ByElement, NextResult
<1> HIDE DEF R, s0, Step
<1>4. F \in [R -> [1 .. N -> R]]
  BY <1>2
<1>5. \A st \in R : \A i \in 1 .. N : F[st][i] = Step(st, i)
  OBVIOUS
<1> HIDE DEF F
<1>6. PICK f \in [0 .. N -> R] : f[0] = s0 /\ \A i \in 1 .. N : f[i] = F[f[i - 1]][i]
  <2> HIDE DEF Is, after
  <2>1. \E f : Recurs(R, s0, N, F, f)
    BY <1>1, <1>4, Recursion
  <2> QED BY <2>1 DEF Recurs
<1>7. \A i \in 1 .. N : i - 1 \in 0 .. N /\ f[i - 1] \in R /\ f[i] = Step(f[i - 1], i)
  BY <1>5, <1>6
<1>8. Is(f)
  <2> DEFINE h == [i \in 0 .. N |-> IF i = 0 THEN s0 ELSE Step(f[i - 1], i)]
  <2>1. \A i \in 0 .. N : f[i] = h[i]
    BY <1>6, <1>7
  <2> QED BY <1>6, <2>1
<1>9. Is(after)
  <2> HIDE DEF Is
  <2> QED BY <1>8
<1> HIDE DEF after
<1>10. after[0] = s0 /\ \A i \in 1 .. N : after[i] = Step(after[i - 1], i)
  BY <1>9
<1>11. \A i \in 0 .. N : after[i] \in R
  <2> DEFINE S == {i \in 0 .. N : after[i] \in R}
  <2>1. 0 \in S
    BY <1>1, <1>10
  <2>2. ASSUME NEW n \in 0 .. N, n \in S, n < N PROVE n + 1 \in S
    <3>1. n + 1 \in 1 .. N /\ (n + 1) - 1 = n /\ after[n] \in R
      BY <2>2
    <3>2. after[n + 1] = Step(after[n], n + 1)
      BY <1>10, <3>1
    <3> QED BY <1>2, <3>1, <3>2
  <2> HIDE DEF S
  <2>3. \A n \in 0 .. N : n \in S
    BY <2>1, <2>2, CountUp
  <2> QED BY <2>3 DEF S
<1>12. after \in [0 .. N -> R]
  BY <1>9, <1>11
<1> QED BY <1>3, <1>10, <1>12 DEF R, s0, Step, ByElementUpto

(* The recursion of OneByOne.                                               *)
OneByOneUpto(b, elements, n, f) ==
    f = [i \in 0 .. n |-> IF i = 0 THEN b
                          ELSE Overwritten(f[i - 1], elements[i].at, BytesOf(elements[i], f[i - 1]))]

(* The recursion of OneByOne gives the bytes after each element.            *)
LEMMA OneByOneUnfolds ==
    ASSUME NEW b, NEW elements, NEW N \in Nat, Len(elements) = N
    PROVE  /\ OneByOne(b, elements, 0) = b
           /\ \A i \in 1 .. N :
                 OneByOne(b, elements, i) =
                     Overwritten(OneByOne(b, elements, i - 1), elements[i].at,
                                 BytesOf(elements[i], OneByOne(b, elements, i - 1)))
<1> DEFINE S == {n \in 0 .. N : \E f : OneByOneUpto(b, elements, n, f)}
           Step(y, i) == Overwritten(y, elements[i].at, BytesOf(elements[i], y))
<1>1. 0 \in S
  <2> DEFINE f == [i \in 0 .. 0 |-> b]
  <2>1. \A i \in 0 .. 0 : i = 0
    OBVIOUS
  <2>2. OneByOneUpto(b, elements, 0, f)
    BY <2>1 DEF OneByOneUpto
  <2> HIDE DEF f
  <2> QED BY <2>2
<1> HIDE DEF Step
<1>2. ASSUME NEW n \in 0 .. N, n \in S, n < N PROVE n + 1 \in S
  <2>1. PICK f : OneByOneUpto(b, elements, n, f)
    BY <1>2
  <2> DEFINE g == [i \in 0 .. n + 1 |-> IF i <= n THEN f[i] ELSE Step(f[n], n + 1)]
             h == [i \in 0 .. n + 1 |-> IF i = 0 THEN b ELSE Step(g[i - 1], i)]
  <2>0. \A i \in 0 .. n : f[i] = IF i = 0 THEN b ELSE Step(f[i - 1], i)
    BY <2>1 DEF OneByOneUpto, Step
  <2>2. ASSUME NEW i \in 0 .. n + 1 PROVE g[i] = IF i = 0 THEN b ELSE Step(g[i - 1], i)
    <3>1. CASE i <= n
      <4>1. i \in 0 .. n /\ g[i] = f[i] /\ f[i] = IF i = 0 THEN b ELSE Step(f[i - 1], i)
        BY <3>1, <2>0
      <4>2. i # 0 => i - 1 \in 0 .. n + 1 /\ i - 1 <= n
        BY <3>1
      <4> QED BY <4>1, <4>2
    <3>2. CASE i = n + 1
      <4>1. i # 0 /\ ~(i <= n) /\ i - 1 = n /\ n \in 0 .. n + 1 /\ n <= n
        BY <3>2
      <4> QED BY <4>1, <3>2
    <3> QED BY <3>1, <3>2
  <2>3. g = h
    BY <2>2
  <2>4. OneByOneUpto(b, elements, n + 1, g)
    BY <2>3 DEF OneByOneUpto, Step
  <2> HIDE DEF g
  <2> QED BY <2>4, <1>2
<1>3. \E f : OneByOneUpto(b, elements, N, f)
  <2> HIDE DEF S
  <2>1. \A n \in 0 .. N : n \in S
    BY <1>1, <1>2, CountUp
  <2> QED BY <2>1 DEF S
<1> DEFINE after == CHOOSE f : OneByOneUpto(b, elements, N, f)
<1>4. OneByOneUpto(b, elements, N, after)
  BY <1>3
<1>5. \A i \in 0 .. N : OneByOne(b, elements, i) = after[i]
  BY DEF OneByOne, OneByOneUpto
<1> HIDE DEF after
<1>6. after[0] = b /\ \A i \in 1 .. N : after[i] = Step(after[i - 1], i)
  BY <1>4 DEF OneByOneUpto, Step
<1>7. \A i \in 1 .. N : i \in 0 .. N /\ i - 1 \in 0 .. N
  OBVIOUS
<1> QED BY <1>5, <1>6, <1>7 DEF Step

(* Element after element, the bytes are those of an i386.                   *)
LEMMA ByElementSound ==
    ASSUME NEW m, Sound(m), NEW elements \in Seq(Element), NEW w, w = ByElement(m, elements)
    PROVE  /\ Sound(w.m) /\ w.fault \in BOOLEAN
           /\ FlatBytes(w.m) = OneByOne(FlatBytes(m), elements, w.done)
<1> DEFINE N == Len(elements)
           b == FlatBytes(m)
           T == {x \in Space : Sound(x)}
<1>1. N \in Nat /\ \A i \in 1 .. N : elements[i] \in Element
  BY LenProperties, ElementOfSeq
<1>2. m \in T
  BY DEF Sound, Typed
<1>3. ASSUME NEW x \in T, NEW i \in 1 .. N
      PROVE  Stored(x, elements[i]).m \in T /\ Stored(x, elements[i]).fault \in BOOLEAN
  <2>1. Sound(x) /\ elements[i] \in Element
    BY <1>1
  <2>2. Sound(Stored(x, elements[i]).m) /\ Stored(x, elements[i]).fault \in BOOLEAN
    BY <2>1, StoredSound
  <2> QED BY <2>2 DEF Sound, Typed
<1> HIDE DEF N, T
<1>4. Len(elements) = N
  BY DEF N
<1>10. PICK f : ByElementUpto(T, m, elements, N, f) /\ w = f[N]
  BY <1>1, <1>2, <1>3, <1>4, ByElementUnfolds
<1>5. /\ f \in [0 .. N -> [m : T, fault : BOOLEAN, done : Nat]]
      /\ f[0] = [m |-> m, fault |-> FALSE, done |-> 0]
      /\ \A i \in 1 .. N : f[i] = NextResult(elements, f[i - 1], i)
  BY <1>10 DEF ByElementUpto
<1> DEFINE Right(n, st) == /\ FlatBytes(st.m) = OneByOne(b, elements, st.done)
                           /\ st.fault \/ st.done = n
           S == {n \in 0 .. N : Right(n, f[n])}
<1>6. 0 \in S
  BY <1>1, <1>4, <1>5, OneByOneUnfolds
<1>7. ASSUME NEW n \in 0 .. N, n \in S, n < N PROVE n + 1 \in S
  <2> DEFINE st == f[n]
             y == Stored(st.m, elements[n + 1])
  <2>1. n + 1 \in 1 .. N /\ (n + 1) - 1 = n
    BY <1>1, <1>7
  <2>2. f[n + 1] = IF st.fault THEN st
                   ELSE [m |-> y.m, fault |-> y.fault, done |-> IF y.fault THEN n ELSE n + 1]
    BY <1>5, <2>1 DEF NextResult
  <2>3. Right(n, st) /\ st \in [m : T, fault : BOOLEAN, done : Nat]
    BY <1>5, <1>7
  <2> HIDE DEF st
  <2>4. Sound(st.m) /\ st.m \in T
    BY <2>3 DEF T
  <2>5. /\ y.fault \in BOOLEAN
        /\ FlatBytes(y.m) = IF y.fault THEN FlatBytes(st.m)
                            ELSE Overwritten(FlatBytes(st.m), elements[n + 1].at,
                                             BytesOf(elements[n + 1], FlatBytes(st.m)))
    BY <1>1, <2>1, <2>4, StoredSound
  <2> HIDE DEF y, b
  <2>6. Right(n + 1, f[n + 1])
    <3>1. CASE st.fault
      BY <3>1, <2>2, <2>3
    <3>2. CASE ~st.fault /\ y.fault
      BY <3>2, <2>2, <2>3, <2>5
    <3>3. CASE ~st.fault /\ ~y.fault
      <4>1. FlatBytes(st.m) = OneByOne(b, elements, n)
        BY <3>3, <2>3
      <4>2. OneByOne(b, elements, n + 1) =
                Overwritten(OneByOne(b, elements, n), elements[n + 1].at,
                            BytesOf(elements[n + 1], OneByOne(b, elements, n)))
        <5>1. OneByOne(b, elements, n + 1) =
                  Overwritten(OneByOne(b, elements, (n + 1) - 1), elements[n + 1].at,
                              BytesOf(elements[n + 1], OneByOne(b, elements, (n + 1) - 1)))
          BY <1>1, <1>4, <2>1, OneByOneUnfolds
        <5> QED BY <5>1, <2>1
      <4>3. f[n + 1].m = y.m /\ f[n + 1].done = n + 1
        BY <3>3, <2>2
      <4> QED BY <3>3, <4>1, <4>2, <4>3, <2>5
    <3> QED BY <3>1, <3>2, <3>3
  <2> QED BY <1>1, <2>1, <2>6
<1>8. N \in S
  <2> HIDE DEF S
  <2>1. \A n \in 0 .. N : n \in S
    BY <1>1, <1>6, <1>7, CountUp
  <2> QED BY <1>1, <2>1
<1>9. f[N] \in [m : T, fault : BOOLEAN, done : Nat]
  BY <1>1, <1>5
<1> QED BY <1>8, <1>9, <1>10 DEF T

-----------------------------------------------------------------------------
(* Elements in one piece.                                                   *)

(* Multiples, one after the other.                                          *)
LEMMA Times ==
    ASSUME NEW n \in Nat, NEW l \in Nat
    PROVE  n * l \in Nat /\ 0 * l = 0 /\ (n + 1) * l = n * l + l
OBVIOUS

(* The pieces of n * l bytes, each l long, lie within them.                 *)
LEMMA TimesOrder ==
    ASSUME NEW n \in Nat, NEW i \in 1 .. n, NEW l \in Nat
    PROVE  (i - 1) * l \in Nat /\ (i - 1) * l + l <= n * l
<1> DEFINE d == n - i
           j == i - 1
<1>1. d \in Nat /\ j \in Nat /\ n = j + 1 + d
  OBVIOUS
<1> HIDE DEF d, j
<1>2. n * l = j * l + l + d * l /\ d * l \in Nat /\ j * l \in Nat
  BY <1>1
<1>3. j * l + l <= n * l
  BY <1>2
<1> QED BY <1>2, <1>3 DEF j

(* The rest of a number that lies so far behind a multiple.                 *)
LEMMA RestOf ==
    ASSUME NEW n \in Nat, NEW l \in Nat, NEW r \in 0 .. l - 1
    PROVE  (n * l + r) % l = r
<1> DEFINE v == n * l + r
           q == v \div l
           p == v % l
<1>1. l > 0 /\ v \in Nat
  OBVIOUS
<1>2. q \in Int /\ p \in 0 .. l - 1 /\ v = l * q + p
  BY <1>1
<1> HIDE DEF q, p
<1>3. n * l + r = l * q + p
  BY <1>2
<1>4. CASE q >= n + 1
  <2> DEFINE d == q - (n + 1)
  <2>1. d \in Nat /\ q = n + 1 + d
    BY <1>2, <1>4
  <2> HIDE DEF d
  <2>2. l * q = n * l + l + l * d /\ l * d \in Nat /\ n * l \in Nat
    BY <2>1
  <2> QED BY <1>2, <1>3, <2>2
<1>5. CASE q <= n - 1
  <2> DEFINE d == n - 1 - q
  <2>1. d \in Nat /\ n = q + 1 + d
    BY <1>2, <1>5
  <2> HIDE DEF d
  <2>2. n * l = l * q + l + l * d /\ l * d \in Nat /\ l * q \in Int
    BY <2>1, <1>2
  <2> QED BY <1>2, <1>3, <2>2
<1>6. CASE q = n
  <2>1. l * q = n * l /\ n * l \in Nat
    BY <1>6
  <2>2. p = r
    BY <1>2, <1>3, <2>1
  <2> QED BY <2>2 DEF p
<1> QED BY <1>2, <1>4, <1>5, <1>6

Leading(data, n) == [k \in 1 .. n |-> data[k]]

(* A piece stored behind another is both stored at once.                    *)
LEMMA TwoPieces ==
    ASSUME NEW b, NEW data, NEW dst \in Int, NEW x \in Nat, NEW l \in Nat
    PROVE  Overwritten(Overwritten(b, dst, Leading(data, x)), dst + x, [j \in 1 .. l |-> data[x + j]])
           = Overwritten(b, dst, Leading(data, x + l))
<1> DEFINE f == Leading(data, x)
           piece == [j \in 1 .. l |-> data[x + j]]
           g == Leading(data, x + l)
           o == Overwritten(b, dst, f)
<1>1. /\ DOMAIN f = 1 .. x /\ \A k \in 1 .. x : f[k] = data[k]
      /\ DOMAIN g = 1 .. x + l /\ \A k \in 1 .. x + l : g[k] = data[k]
      /\ DOMAIN piece = 1 .. l /\ \A j \in 1 .. l : piece[j] = data[x + j]
  BY DEF Leading
<1> HIDE DEF f, g, piece
<1>2. \A a \in Addr : o[a] = IF a - dst + 1 \in 1 .. x THEN f[a - dst + 1] ELSE b[a]
  BY <1>1 DEF Overwritten
<1> HIDE DEF o
<1>3. ASSUME NEW a \in Addr
      PROVE  (IF a - (dst + x) + 1 \in 1 .. l THEN piece[a - (dst + x) + 1] ELSE o[a])
             = IF a - dst + 1 \in 1 .. x + l THEN g[a - dst + 1] ELSE b[a]
  <2> DEFINE p == a - dst + 1
  <2>1. p \in Int /\ a - (dst + x) + 1 = p - x
    BY Constants DEF Addr
  <2>2. o[a] = IF p \in 1 .. x THEN f[p] ELSE b[a]
    BY <1>2
  <2> HIDE DEF p
  <2>3. (IF p - x \in 1 .. l THEN piece[p - x] ELSE o[a]) = IF p \in 1 .. x + l THEN g[p] ELSE b[a]
    <3>1. CASE p \in 1 .. x
      <4>1. ~(p - x \in 1 .. l) /\ p \in 1 .. x + l
        BY <3>1
      <4> QED BY <3>1, <4>1, <2>2, <1>1
    <3>2. CASE p \in x + 1 .. x + l
      <4>1. p - x \in 1 .. l /\ p \in 1 .. x + l /\ x + (p - x) = p
        BY <3>2
      <4> QED BY <4>1, <1>1
    <3>3. CASE ~(p \in 1 .. x + l)
      <4>1. ~(p - x \in 1 .. l) /\ ~(p \in 1 .. x)
        BY <2>1, <3>3
      <4> QED BY <3>3, <4>1, <2>2
    <3>4. p \in 1 .. x \/ p \in x + 1 .. x + l \/ ~(p \in 1 .. x + l)
      BY <2>1
    <3> QED BY <3>1, <3>2, <3>3, <3>4
  <2> QED BY <2>1, <2>3 DEF p
<1>4. [a \in Addr |-> IF a - (dst + x) + 1 \in 1 .. l THEN piece[a - (dst + x) + 1] ELSE o[a]]
      = [a \in Addr |-> IF a - dst + 1 \in 1 .. x + l THEN g[a - dst + 1] ELSE b[a]]
  BY <1>3
<1>5. Overwritten(o, dst + x, piece) = Overwritten(b, dst, g)
  BY <1>1, <1>4 DEF Overwritten
<1> QED BY <1>5 DEF o, f, g, piece

Follow(elements, b, data, l, N, dst) ==
    \A i \in 1 .. N :
        /\ elements[i].at = dst + (i - 1) * l
        /\ BytesOf(elements[i], Overwritten(b, dst, Leading(data, (i - 1) * l)))
           = [j \in 1 .. l |-> data[(i - 1) * l + j]]

(* Elements that follow each other are their data in one piece.             *)
LEMMA InPieces ==
    ASSUME NEW b \in [Addr -> Byte], NEW data, NEW l \in Nat, NEW N \in Nat, NEW dst \in Int,
           NEW elements, Len(elements) = N, Follow(elements, b, data, l, N, dst)
    PROVE  OneByOne(b, elements, N) = Overwritten(b, dst, Leading(data, N * l))
<1> DEFINE S == {n \in 0 .. N : OneByOne(b, elements, n) = Overwritten(b, dst, Leading(data, n * l))}
<1>0. \A i \in 1 .. N :
          OneByOne(b, elements, i) =
              Overwritten(OneByOne(b, elements, i - 1), elements[i].at,
                          BytesOf(elements[i], OneByOne(b, elements, i - 1)))
  BY OneByOneUnfolds
<1>1. 0 \in S
  <2>1. DOMAIN Leading(data, 0) = {}
    BY DEF Leading
  <2>2. Overwritten(b, dst, Leading(data, 0)) = b
    BY <2>1 DEF Overwritten
  <2>3. OneByOne(b, elements, 0) = b
    BY OneByOneUnfolds
  <2> QED BY <2>2, <2>3, Times
<1>2. ASSUME NEW n \in 0 .. N, n \in S, n < N PROVE n + 1 \in S
  <2> DEFINE x == n * l
             e == elements[n + 1]
  <2>1. n + 1 \in 1 .. N /\ (n + 1) - 1 = n /\ n \in Nat
    BY <1>2
  <2>2. x \in Nat /\ (n + 1) * l = x + l
    BY <2>1, Times
  <2>3. OneByOne(b, elements, n + 1)
        = Overwritten(OneByOne(b, elements, (n + 1) - 1), e.at, BytesOf(e, OneByOne(b, elements, (n + 1) - 1)))
    BY <1>0, <2>1
  <2>4. OneByOne(b, elements, n) = Overwritten(b, dst, Leading(data, x))
    BY <1>2
  <2>5. /\ e.at = dst + ((n + 1) - 1) * l
        /\ BytesOf(e, Overwritten(b, dst, Leading(data, ((n + 1) - 1) * l)))
           = [j \in 1 .. l |-> data[((n + 1) - 1) * l + j]]
    BY <2>1 DEF Follow
  <2>6. /\ e.at = dst + x
        /\ BytesOf(e, Overwritten(b, dst, Leading(data, x))) = [j \in 1 .. l |-> data[x + j]]
    BY <2>1, <2>5
  <2> HIDE DEF x, e
  <2>7. OneByOne(b, elements, n + 1)
        = Overwritten(Overwritten(b, dst, Leading(data, x)), dst + x, [j \in 1 .. l |-> data[x + j]])
    BY <2>1, <2>3, <2>4, <2>6
  <2>8. OneByOne(b, elements, n + 1) = Overwritten(b, dst, Leading(data, x + l))
    BY <2>2, <2>7, TwoPieces
  <2> QED BY <2>1, <2>2, <2>8
<1>3. N \in S
  <2> HIDE DEF S
  <2>1. \A n \in 0 .. N : n \in S
    BY <1>1, <1>2, CountUp
  <2> QED BY <2>1
<1> QED BY <1>3

(* The flat memory has a byte at each address.                              *)
LEMMA FlatBytesType ==
    ASSUME NEW m, Typed(m)
    PROVE  FlatBytes(m) \in [Addr -> Byte]
<1>1. ASSUME NEW a \in Addr PROVE (IF Mapped(m, a, 1) THEN Cell(m, a) ELSE 0) \in Byte
  <2>1. a \in Int
    BY Constants DEF Addr
  <2> QED BY <2>1, CellFacts, Constants
<1> QED BY <1>1 DEF FlatBytes

(* rep movs, element after element or in one piece.                         *)
LEMMA MovedSound ==
    ASSUME NEW m, Sound(m), NEW src \in Int, NEW dst \in Int, NEW cnt \in Nat, NEW size \in Nat,
           NEW back \in BOOLEAN, NEW w, w = Moved(m, src, dst, cnt, size, back)
    PROVE  /\ Sound(w.m)
           /\ FlatBytes(w.m) = OneByOne(FlatBytes(m), Moves(src, dst, cnt, size, back), w.done)
<1> DEFINE moves == Moves(src, dst, cnt, size, back)
           b == FlatBytes(m)
<1>1. moves \in Seq(Element) /\ Len(moves) = cnt
  <2>1. ASSUME NEW i \in 1 .. cnt
        PROVE  CopyTo(At(dst, i - 1, size, back), At(src, i - 1, size, back), size) \in Element
    <3>1. (i - 1) * size \in Int
      BY TimesOrder
    <3>2. At(dst, i - 1, size, back) \in Int /\ At(src, i - 1, size, back) \in Int
      BY <3>1 DEF At
    <3> QED BY <3>2 DEF CopyTo, Element
  <2>2. moves \in [1 .. cnt -> Element]
    BY <2>1 DEF Moves
  <2> QED BY <2>2, AsSequence
<1>2. CASE ~(~back /\ cnt > 1 /\ Apart(src, dst, cnt, size))
  <2>1. w = ByElement(m, moves)
    BY <1>2 DEF Moved
  <2> QED BY <1>1, <2>1, ByElementSound
<1>3. CASE ~back /\ cnt > 1 /\ Apart(src, dst, cnt, size)
  <2> DEFINE t == cnt * size
             x0 == CopyTo(dst, src, t)
             c == Stored(m, x0)
             data == BytesOf(x0, b)
  <2>1. t \in Nat /\ x0 \in Element
    BY Times DEF CopyTo, Element
  <2>2. x0.kind = "copy" /\ x0.at = dst /\ x0.from = src /\ x0.len = t
    BY DEF CopyTo
  <2>3. w = AtOnce(c, cnt)
    BY <1>3 DEF Moved, Stored, CopyTo
  <2>4. data = [k \in 1 .. t |-> b[src + k - 1]]
    BY <2>2 DEF BytesOf
  <2> HIDE DEF x0
  <2>5. /\ Sound(c.m) /\ c.fault \in BOOLEAN
        /\ FlatBytes(c.m) = IF c.fault THEN b ELSE Overwritten(b, dst, data)
        /\ ~c.fault => \A k \in 1 .. t : src + k - 1 \in Addr
    BY <2>1, <2>2, StoredSound
  <2>6. w.m = c.m /\ w.done = IF c.fault THEN 0 ELSE cnt
    BY <2>3 DEF AtOnce
  <2> HIDE DEF c
  <2>7. CASE c.fault
    BY <1>1, <2>5, <2>6, <2>7, OneByOneUnfolds
  <2>8. CASE ~c.fault
    <3> HIDE DEF data, t
    <3>1. Leading(data, t) = data
      BY <2>4 DEF Leading
    <3>2. ASSUME NEW i \in 1 .. cnt
          PROVE  /\ moves[i].at = dst + (i - 1) * size
                 /\ BytesOf(moves[i], Overwritten(b, dst, Leading(data, (i - 1) * size)))
                    = [j \in 1 .. size |-> data[(i - 1) * size + j]]
      <4> DEFINE x == (i - 1) * size
                 o == Overwritten(b, dst, Leading(data, x))
      <4>1. x \in Nat /\ x + size <= t
        BY TimesOrder DEF t
      <4>2. moves[i] = CopyTo(dst + x, src + x, size)
        BY <1>3 DEF Moves, At
      <4> HIDE DEF x
      <4>3. moves[i].at = dst + x /\ BytesOf(moves[i], o) = [j \in 1 .. size |-> o[src + x + j - 1]]
        BY <4>2 DEF CopyTo, BytesOf
      <4>4. ASSUME NEW j \in 1 .. size PROVE o[src + x + j - 1] = data[x + j]
        <5> DEFINE k == x + j
                   a == src + k - 1
        <5>1. k \in 1 .. t /\ src + x + j - 1 = a
          BY <2>1, <4>1
        <5>2. a \in Addr /\ data[k] = b[a]
          BY <2>4, <2>5, <2>8, <5>1
        <5>3. ~(a - dst + 1 \in 1 .. x)
          <6>1. src - dst >= t \/ dst - src >= t
            BY <1>3, <2>1 DEF Apart, Distance, t
          <6> QED BY <2>1, <4>1, <6>1
        <5> HIDE DEF a
        <5>4. o[a] = b[a]
          BY <5>2, <5>3, <4>1 DEF Overwritten, Leading
        <5> QED BY <5>1, <5>2, <5>4
      <4>5. [j \in 1 .. size |-> o[src + x + j - 1]] = [j \in 1 .. size |-> data[x + j]]
        BY <4>4
      <4> QED BY <4>3, <4>5 DEF x
    <3>3. OneByOne(b, moves, cnt) = Overwritten(b, dst, Leading(data, cnt * size))
      <4>1. b \in [Addr -> Byte]
        BY FlatBytesType DEF Sound
      <4>2. Follow(moves, b, data, size, cnt, dst)
        BY <3>2 DEF Follow
      <4> HIDE DEF b, moves
      <4> QED BY <1>1, <4>1, <4>2, InPieces
    <3> QED BY <2>5, <2>6, <2>8, <3>1, <3>3 DEF t
  <2> QED BY <2>5, <2>7, <2>8
<1> QED BY <1>2, <1>3

(* rep stos, element after element or in one piece.                         *)
LEMMA FilledSound ==
    ASSUME NEW m, Sound(m), NEW val \in Seq(Byte), val # <<>>, NEW dst \in Int, NEW cnt \in Nat,
           NEW back \in BOOLEAN, NEW w, w = Filled(m, val, dst, cnt, back)
    PROVE  /\ Sound(w.m)
           /\ FlatBytes(w.m) = OneByOne(FlatBytes(m), Fills(val, dst, cnt, back), w.done)
<1> DEFINE fills == Fills(val, dst, cnt, back)
           b == FlatBytes(m)
           l == Len(val)
<1>0. /\ l \in Nat /\ l > 0 /\ DOMAIN val = 1 .. l
      /\ val = [j \in 1 .. l |-> val[j]] /\ \A j \in 1 .. l : val[j] \in Byte
  <2>1. l \in Nat /\ val \in [1 .. l -> Byte] /\ l # 0
    BY LenProperties, EmptySeq
  <2> QED BY <2>1
<1> HIDE DEF l
<1>1. fills \in Seq(Element) /\ Len(fills) = cnt /\ \A i \in 1 .. cnt : fills[i] = PutAt(At(dst, i - 1, l, back), val)
  <2>1. ASSUME NEW i \in 1 .. cnt
        PROVE  PutAt(At(dst, i - 1, l, back), val) \in Element
    <3>1. (i - 1) * l \in Int
      BY <1>0, TimesOrder
    <3>2. At(dst, i - 1, l, back) \in Int
      BY <3>1 DEF At
    <3> QED BY <3>2 DEF PutAt, Element
  <2>2. fills = [i \in 1 .. cnt |-> PutAt(At(dst, i - 1, l, back), val)]
    BY DEF Fills, l
  <2>3. fills \in [1 .. cnt -> Element]
    BY <2>1, <2>2
  <2> QED BY <2>2, <2>3, AsSequence
<1>2. CASE ~(~back /\ cnt > 1)
  <2>1. w = ByElement(m, fills)
    BY <1>2 DEF Filled
  <2> QED BY <1>1, <2>1, ByElementSound
<1>3. CASE ~back /\ cnt > 1
  <2> DEFINE t == cnt * l
             data == [i \in 1 .. t |-> val[((i - 1) % l) + 1]]
             c == Write(m, dst, data)
  <2>1. t \in Nat
    BY <1>0, Times
  <2>2. data \in Seq(Byte)
    <3> HIDE DEF t
    <3>1. \A i \in 1 .. t : ((i - 1) % l) + 1 \in 1 .. l
      BY <1>0, <2>1
    <3>2. data \in [1 .. t -> Byte]
      BY <1>0, <3>1
    <3> QED BY <2>1, <3>2, AsSequence
  <2>3. w = AtOnce(c, cnt)
    BY <1>3 DEF Filled, l
  <2>4. /\ Sound(c.m) /\ c.fault \in BOOLEAN
        /\ FlatBytes(c.m) = IF c.fault THEN b ELSE Overwritten(b, dst, data)
    <3> HIDE DEF data
    <3> QED BY <2>2, WriteSound
  <2>6. w.m = c.m /\ w.done = IF c.fault THEN 0 ELSE cnt
    BY <2>3 DEF AtOnce
  <2> HIDE DEF c
  <2>7. CASE c.fault
    BY <1>1, <2>4, <2>6, <2>7, OneByOneUnfolds
  <2>8. CASE ~c.fault
    <3> HIDE DEF t
    <3>1. Leading(data, t) = data
      BY DEF Leading
    <3>2. ASSUME NEW i \in 1 .. cnt
          PROVE  /\ fills[i].at = dst + (i - 1) * l
                 /\ BytesOf(fills[i], Overwritten(b, dst, Leading(data, (i - 1) * l)))
                    = [j \in 1 .. l |-> data[(i - 1) * l + j]]
      <4> DEFINE x == (i - 1) * l
      <4>1. x \in Nat /\ x + l <= t
        BY <1>0, TimesOrder DEF t
      <4>2. fills[i] = PutAt(dst + x, val)
        BY <1>1, <1>3 DEF At
      <4>3. fills[i].at = dst + x /\ BytesOf(fills[i], Overwritten(b, dst, Leading(data, x))) = val
        BY <4>2 DEF PutAt, BytesOf
      <4>4. ASSUME NEW j \in 1 .. l PROVE data[x + j] = val[j]
        <5>1. (x + (j - 1)) % l = j - 1
          <6> DEFINE n == i - 1
                     r == j - 1
          <6>1. n \in Nat /\ r \in 0 .. l - 1
            BY <1>0
          <6> HIDE DEF n, r
          <6>2. (n * l + r) % l = r
            BY <1>0, <6>1, RestOf
          <6> QED BY <6>2 DEF n, r
        <5> HIDE DEF x
        <5>2. x + j \in 1 .. t /\ (x + j) - 1 = x + (j - 1) /\ (j - 1) + 1 = j
          BY <1>0, <2>1, <4>1
        <5>3. data[x + j] = val[((x + (j - 1)) % l) + 1]
          BY <5>2
        <5> QED BY <5>1, <5>2, <5>3
      <4> HIDE DEF x, data
      <4>5. [j \in 1 .. l |-> data[x + j]] = val
        BY <4>4, <1>0
      <4> QED BY <4>3, <4>5 DEF x
    <3>3. OneByOne(b, fills, cnt) = Overwritten(b, dst, Leading(data, cnt * l))
      <4>1. b \in [Addr -> Byte]
        BY FlatBytesType DEF Sound
      <4>2. Follow(fills, b, data, l, cnt, dst)
        <5> HIDE DEF b, fills, data
        <5> QED BY <3>2 DEF Follow
      <4> HIDE DEF b, fills, data
      <4> QED BY <1>0, <1>1, <4>1, <4>2, InPieces
    <3> HIDE DEF data
    <3> QED BY <2>4, <2>6, <2>8, <3>1, <3>3 DEF t
  <2> QED BY <2>4, <2>6, <2>7, <2>8
<1> QED BY <1>2, <1>3

-----------------------------------------------------------------------------
(* The loader.                                                              *)

(* What every step of a recursion hands on is there all along.              *)
LEMMA AllAlong ==
    ASSUME NEW T, NEW N \in Nat, NEW f, f[0] \in T, \A i \in 1 .. N : f[i - 1] \in T => f[i] \in T
    PROVE  \A i \in 0 .. N : f[i] \in T
<1> DEFINE S == {i \in 0 .. N : f[i] \in T}
<1>1. 0 \in S
  OBVIOUS
<1>2. ASSUME NEW n \in 0 .. N, n \in S, n < N PROVE n + 1 \in S
  <2>1. n + 1 \in 1 .. N /\ (n + 1) - 1 = n /\ f[n] \in T
    BY <1>2
  <2>2. f[(n + 1) - 1] \in T => f[n + 1] \in T
    BY <2>1
  <2> QED BY <2>1, <2>2
<1> HIDE DEF S
<1>3. \A n \in 0 .. N : n \in S
  BY <1>1, <1>2, CountUp
<1> QED BY <1>3 DEF S

(* The recursion of Word.                                                   *)
LEMMA WordUnfolds ==
    ASSUME NEW n \in Int
    PROVE  \E rest \in [0 .. WORD -> Int] :
               /\ rest[0] = n /\ \A i \in 1 .. WORD : rest[i] = rest[i - 1] \div BASE
               /\ Word(n) = [i \in 1 .. WORD |-> rest[i - 1] % BASE]
<1> DEFINE F == [x \in Int |-> [i \in 1 .. WORD |-> x \div BASE]]
           Is(f) == f = [i \in 0 .. WORD |-> IF i = 0 THEN n ELSE f[i - 1] \div BASE]
           rest == CHOOSE f : Is(f)
<1>1. WORD \in Nat /\ BASE \in Nat /\ BASE > 0
  BY Constants
<1>2. \A x \in Int : x \div BASE \in Int
  BY <1>1
<1>3. F \in [Int -> [1 .. WORD -> Int]]
  BY <1>2
<1>4. \A x \in Int : \A i \in 1 .. WORD : F[x][i] = x \div BASE
  OBVIOUS
<1> HIDE DEF F
<1>5. PICK f : Recurs(Int, n, WORD, F, f)
  <2> HIDE DEF Is, rest
  <2>1. \E f : Recurs(Int, n, WORD, F, f)
    BY <1>1, <1>3, Recursion
  <2> QED BY <2>1
<1>6. f \in [0 .. WORD -> Int] /\ f[0] = n /\ \A i \in 1 .. WORD : f[i] = f[i - 1] \div BASE
  <2>1. f \in [0 .. WORD -> Int] /\ f[0] = n /\ \A i \in 1 .. WORD : f[i] = F[f[i - 1]][i]
    BY <1>5 DEF Recurs
  <2>2. \A i \in 1 .. WORD : i - 1 \in 0 .. WORD
    BY <1>1
  <2> QED BY <2>1, <2>2, <1>4
<1>7. Is(f)
  <2>1. \A i \in 0 .. WORD : f[i] = IF i = 0 THEN n ELSE f[i - 1] \div BASE
    BY <1>1, <1>6
  <2> QED BY <1>6, <2>1
<1>8. Is(rest)
  <2> HIDE DEF Is
  <2> QED BY <1>7
<1>9. Word(n) = [i \in 1 .. WORD |-> rest[i - 1] % BASE]
  BY DEF Word
<1> HIDE DEF rest
<1>10. rest[0] = n /\ \A i \in 1 .. WORD : rest[i] = rest[i - 1] \div BASE
  BY <1>1, <1>8
<1>11. \A i \in 0 .. WORD : rest[i] \in Int
  <2>1. rest[0] \in Int /\ \A i \in 1 .. WORD : rest[i - 1] \in Int => rest[i] \in Int
    BY <1>1, <1>2, <1>10
  <2> HIDE DEF Is
  <2> QED BY <1>1, <2>1, AllAlong
<1>12. rest \in [0 .. WORD -> Int]
  BY <1>8, <1>11
<1> QED BY <1>9, <1>10, <1>12

(* A word is bytes, whatever the number.                                    *)
LEMMA WordType ==
    ASSUME NEW n \in Int
    PROVE  Word(n) \in Seq(Byte)
<1>1. WORD \in Nat /\ \A x \in Int : x % BASE \in Byte
  BY Constants DEF Byte
<1>2. PICK rest \in [0 .. WORD -> Int] : Word(n) = [i \in 1 .. WORD |-> rest[i - 1] % BASE]
  BY WordUnfolds
<1>3. \A i \in 1 .. WORD : i - 1 \in 0 .. WORD
  BY <1>1
<1>4. Word(n) \in [1 .. WORD -> Byte]
  BY <1>1, <1>2, <1>3
<1> QED BY <1>1, <1>4, AsSequence

(* The recursion of Extent.                                                 *)
LEMMA ExtentUnfolds ==
    ASSUME NEW strings \in Seq(Seq(Byte))
    PROVE  \E upto \in [0 .. Len(strings) -> Nat] :
               /\ Extent(strings) = upto[Len(strings)] /\ upto[0] = 0
               /\ \A i \in 1 .. Len(strings) : upto[i] = upto[i - 1] + Len(strings[i]) + 1
<1> DEFINE N == Len(strings)
           F == [x \in Nat |-> [i \in 1 .. N |-> x + Len(strings[i]) + 1]]
           Is(f) == f = [i \in 0 .. N |-> IF i = 0 THEN 0 ELSE f[i - 1] + Len(strings[i]) + 1]
           upto == CHOOSE f : Is(f)
<1>1. N \in Nat /\ \A i \in 1 .. N : Len(strings[i]) \in Nat
  <2>1. N \in Nat /\ \A i \in 1 .. N : strings[i] \in Seq(Byte)
    BY LenProperties, ElementOfSeq
  <2> QED BY <2>1, LenProperties
<1>2. Extent(strings) = upto[N]
  BY DEF Extent
<1> HIDE DEF N
<1>3. F \in [Nat -> [1 .. N -> Nat]]
  BY <1>1
<1>4. \A x \in Nat : \A i \in 1 .. N : F[x][i] = x + Len(strings[i]) + 1
  OBVIOUS
<1> HIDE DEF F
<1>5. PICK f : Recurs(Nat, 0, N, F, f)
  <2> HIDE DEF Is, upto
  <2>1. \E f : Recurs(Nat, 0, N, F, f)
    BY <1>1, <1>3, Recursion
  <2> QED BY <2>1
<1>6. f \in [0 .. N -> Nat] /\ f[0] = 0 /\ \A i \in 1 .. N : f[i] = f[i - 1] + Len(strings[i]) + 1
  <2>1. f \in [0 .. N -> Nat] /\ f[0] = 0 /\ \A i \in 1 .. N : f[i] = F[f[i - 1]][i]
    BY <1>5 DEF Recurs
  <2>2. \A i \in 1 .. N : i - 1 \in 0 .. N
    BY <1>1
  <2> QED BY <2>1, <2>2, <1>4
<1>7. Is(f)
  <2>1. \A i \in 0 .. N : f[i] = IF i = 0 THEN 0 ELSE f[i - 1] + Len(strings[i]) + 1
    BY <1>1, <1>6
  <2> QED BY <1>6, <2>1
<1>8. Is(upto)
  <2> HIDE DEF Is
  <2> QED BY <1>7
<1> HIDE DEF upto
<1>9. upto[0] = 0 /\ \A i \in 1 .. N : upto[i] = upto[i - 1] + Len(strings[i]) + 1
  BY <1>1, <1>8
<1>10. \A i \in 0 .. N : upto[i] \in Nat
  <2> HIDE DEF Is
  <2>1. upto[0] \in Nat /\ \A i \in 1 .. N : upto[i - 1] \in Nat => upto[i] \in Nat
    <3>1. ASSUME NEW i \in 1 .. N, upto[i - 1] \in Nat PROVE upto[i] \in Nat
      <4>1. upto[i] = upto[i - 1] + Len(strings[i]) + 1 /\ Len(strings[i]) \in Nat
        BY ONLY <1>1, <1>9, <3>1
      <4> QED BY ONLY <3>1, <4>1
    <3>2. upto[0] \in Nat
      BY ONLY <1>9
    <3> QED BY ONLY <3>1, <3>2
  <2> QED BY <1>1, <2>1, AllAlong
<1>11. upto \in [0 .. N -> Nat]
  BY <1>8, <1>10
<1> QED BY <1>2, <1>9, <1>11 DEF N

(* How much room strings take.                                              *)
LEMMA ExtentType ==
    ASSUME NEW strings \in Seq(Seq(Byte))
    PROVE  Extent(strings) \in Nat
<1>1. Len(strings) \in 0 .. Len(strings)
  BY LenProperties
<1> QED BY <1>1, ExtentUnfolds

(* What is put behind a sequence leaves it longer than nothing.             *)
LEMMA LongerEither ==
    ASSUME NEW S, NEW s \in Seq(S), NEW t \in Seq(S), Len(s) > 0
    PROVE  s \o t \in Seq(S) /\ Len(s \o t) > 0
<1>1. s \o t \in Seq(S) /\ Len(s \o t) = Len(s) + Len(t)
  BY ConcatProperties
<1> DEFINE a == Len(s)
           b == Len(t)
           c == Len(s \o t)
<1>2. a \in Nat /\ b \in Nat /\ a > 0 /\ c = a + b
  BY <1>1, LenProperties
<1> HIDE DEF a, b, c
<1>3. c > 0
  BY <1>2
<1> QED BY <1>1, <1>3 DEF c

(* An interpreter is called with arguments, one at least.                   *)
Arguments(Q) == Seq(Q) \ {<<>>}

(* Scripts hand paths and arguments on as such (resolve_exec).              *)
LEMMA InterpretedType ==
    ASSUME NEW Q, NEW path \in Q, NEW argv \in Arguments(Q),
           \A x \in DOMAIN Files : Files[x].kind = "script" => /\ Files[x].interp \in Q
                                                               /\ Files[x].arg \in Q \cup {None}
    PROVE  Interpreted(path, argv) \in [path : Q, argv : Arguments(Q)]
<1> DEFINE T == [path : Q, argv : Arguments(Q)]
           N == MAX_SCRIPTS
           s0 == [path |-> path, argv |-> argv]
           Found(t) == IF t.path \in DOMAIN Files THEN Files[t.path] ELSE [kind |-> "other"]
           Step(t) == IF Found(t).kind # "script" THEN t
                      ELSE [path |-> Found(t).interp,
                            argv |-> <<Found(t).interp>> \o (IF Found(t).arg = None THEN <<>> ELSE <<Found(t).arg>>)
                                     \o <<t.path>> \o Tail(t.argv)]
           F == [t \in T |-> [i \in 1 .. N |-> Step(t)]]
           Is(f) == f = [i \in 0 .. N |-> IF i = 0 THEN s0 ELSE Step(f[i - 1])]
           try == CHOOSE f : Is(f)
<1>1. N \in Nat /\ s0 \in T
  BY Constants
<1>2. ASSUME NEW t \in T PROVE Step(t) \in T
  <2> DEFINE f == Found(t)
  <2>1. CASE f.kind # "script"
    BY <2>1
  <2>2. CASE f.kind = "script"
    <3>2. f.interp \in Q /\ f.arg \in Q \cup {None}
      <4>1. t.path \in DOMAIN Files /\ f = Files[t.path]
        BY <2>2
      <4> QED BY <2>2, <4>1
    <3> HIDE DEF f
    <3>3. t.path \in Q /\ t.argv \in Seq(Q) /\ t.argv # <<>>
      BY DEF Arguments
    <3>4. f.interp \in Q /\ (f.arg # None => f.arg \in Q)
      BY <3>2
    <3> DEFINE x == IF f.arg = None THEN <<>> ELSE <<f.arg>>
               y == <<f.interp>> \o x
               z == y \o <<t.path>>
               v == z \o Tail(t.argv)
    <3>5. <<f.interp>> \in Seq(Q) /\ Len(<<f.interp>>) = 1 /\ x \in Seq(Q) /\ <<t.path>> \in Seq(Q)
      BY <3>3, <3>4
    <3>6. Tail(t.argv) \in Seq(Q)
      BY <3>3, HeadTailProperties
    <3> HIDE DEF x
    <3>7. y \in Seq(Q) /\ Len(y) > 0
      BY <3>5, LongerEither
    <3> HIDE DEF y
    <3>8. z \in Seq(Q) /\ Len(z) > 0
      BY <3>5, <3>7, LongerEither
    <3> HIDE DEF z
    <3>9. v \in Seq(Q) /\ Len(v) > 0
      BY <3>6, <3>8, LongerEither
    <3> HIDE DEF v
    <3>10. v # <<>>
      <4>2. Len(<<>>) = 0
        OBVIOUS
      <4> QED BY <3>9, <4>2
    <3>11. Step(t) = [path |-> f.interp, argv |-> v]
      BY <2>2 DEF f, v, z, y, x
    <3> HIDE DEF Step, Found
    <3>12. v \in Arguments(Q) /\ f.interp \in Q
      BY <3>4, <3>9, <3>10 DEF Arguments
    <3> QED BY <3>11, <3>12
  <2> QED BY <2>1, <2>2
<1>3. Interpreted(path, argv) = try[N]
  BY DEF Interpreted
<1> HIDE DEF N, Step, Found, T, s0
<1>4. F \in [T -> [1 .. N -> T]] /\ \A t \in T : \A i \in 1 .. N : F[t][i] = Step(t)
  BY <1>2
<1> HIDE DEF F
<1>5. PICK f : Recurs(T, s0, N, F, f)
  <2> HIDE DEF Is, try
  <2>1. \E f : Recurs(T, s0, N, F, f)
    BY <1>1, <1>4, Recursion
  <2> QED BY <2>1
<1>6. f \in [0 .. N -> T] /\ f[0] = s0 /\ \A i \in 1 .. N : f[i] = Step(f[i - 1])
  <2>1. f \in [0 .. N -> T] /\ f[0] = s0 /\ \A i \in 1 .. N : f[i] = F[f[i - 1]][i]
    BY <1>5 DEF Recurs
  <2>2. \A i \in 1 .. N : i - 1 \in 0 .. N
    BY <1>1
  <2> QED BY <2>1, <2>2, <1>4
<1>7. Is(f)
  <2>1. \A i \in 0 .. N : f[i] = IF i = 0 THEN s0 ELSE Step(f[i - 1])
    BY <1>1, <1>6
  <2> QED BY <1>6, <2>1
<1>8. Is(try)
  <2> HIDE DEF Is
  <2> QED BY <1>7
<1> HIDE DEF try
<1>9. \A i \in 0 .. N : try[i] \in T
  <2>1. try[0] \in T /\ \A i \in 1 .. N : try[i - 1] \in T => try[i] \in T
    BY <1>1, <1>2, <1>8
  <2> HIDE DEF Is
  <2> QED BY <1>1, <2>1, AllAlong
<1> QED BY <1>1, <1>3, <1>9 DEF T

(* What the loader puts on a stack, and where.                              *)
Given == [kind : {"given"}, at : Int, data : Seq(Byte)]

(* An element with its bytes.                                               *)
LEMMA PutGiven ==
    ASSUME NEW at \in Int, NEW data \in Seq(Byte)
    PROVE  PutAt(at, data) \in Given
BY DEF PutAt, Given

(* An array of pointers, with its 0, is words to store.                     *)
LEMMA PointersGiven ==
    ASSUME NEW base \in Int, NEW addrs \in Seq(Int)
    PROVE  Pointers(base, addrs) \in Seq(Given)
<1> DEFINE n == Len(addrs)
<1>1. n \in Nat /\ \A i \in 1 .. n : addrs[i] \in Int
  BY LenProperties, ElementOfSeq
<1> HIDE DEF n
<1>2. ASSUME NEW i \in 1 .. n + 1
      PROVE  PutAt(base + WORD * (i - 1), Word(IF i <= n THEN addrs[i] ELSE 0)) \in Given
  <2> DEFINE x == IF i <= n THEN addrs[i] ELSE 0
  <2>1. x \in Int
    BY <1>1
  <2> HIDE DEF x
  <2>2. Word(x) \in Seq(Byte)
    BY <2>1, WordType
  <2>3. base + WORD * (i - 1) \in Int
    BY Constants, <1>1
  <2> HIDE DEF Byte
  <2>4. PutAt(base + WORD * (i - 1), Word(x)) \in Given
    BY <2>2, <2>3, PutGiven
  <2> QED BY <2>4 DEF x
<1> DEFINE f == [i \in 1 .. n + 1 |-> PutAt(base + WORD * (i - 1), Word(IF i <= n THEN addrs[i] ELSE 0))]
<1>3. Pointers(base, addrs) = f
  BY DEF Pointers, n
<1>4. f \in [1 .. n + 1 -> Given]
  BY <1>2
<1> HIDE DEF f
<1>5. f \in Seq(Given)
  BY <1>1, <1>4, AsSequence
<1> QED BY <1>3, <1>5

(* How much room the later strings take.                                    *)
LEMMA ExtentOfPart ==
    ASSUME NEW strings \in Seq(Seq(Byte)), NEW i \in Int, i >= 1
    PROVE  Extent(SubSeq(strings, i, Len(strings))) \in Nat
<1> DEFINE n == Len(strings)
           B == Seq(Byte)
<1>1. n \in Nat /\ strings \in Seq(B)
  BY LenProperties
<1>2. \A k \in 1 .. n : strings[k] \in B
  BY <1>1, ElementOfSeq
<1> HIDE DEF n, B
<1>3. \A k \in i .. n : strings[k] \in B
  BY <1>1, <1>2
<1>4. SubSeq(strings, i, n) \in Seq(B)
  BY <1>1, <1>3, SubSeqProperties
<1> QED BY <1>4, ExtentType DEF n, B

(* Where strings lie.                                                       *)
LEMMA AddressesType ==
    ASSUME NEW strings \in Seq(Seq(Byte)), NEW from \in Nat \ {0}, NEW n \in Nat
    PROVE  Addresses(strings, from, n) \in Seq(Int)
<1>1. ASSUME NEW i \in 1 .. n
      PROVE  TASK_SIZE - Extent(SubSeq(strings, from + i - 1, Len(strings))) \in Int
  <2>1. from + i - 1 \in Int /\ from + i - 1 >= 1
    OBVIOUS
  <2>2. Extent(SubSeq(strings, from + i - 1, Len(strings))) \in Nat
    BY <2>1, ExtentOfPart
  <2> QED BY <2>2, Constants
<1>2. Addresses(strings, from, n) \in [1 .. n -> Int]
  BY <1>1 DEF Addresses
<1> QED BY <1>2, AsSequence

(* All that setup_stack stores is bytes, at some address.                   *)
LEMMA StackImageType ==
    ASSUME NEW argv \in Seq(Seq(Byte)), NEW envp \in Seq(Seq(Byte))
    PROVE  StackImage(argv, envp).esp \in Int /\ StackImage(argv, envp).writes \in Seq(Given)
<1> DEFINE B         == Seq(Byte)
           strings   == argv \o envp
           p         == TASK_SIZE - Extent(strings)
           envp_base == p - (p % WORD) - WORD * (Len(envp) + 1)
           argv_base == envp_base - WORD * (Len(argv) + 1)
           esp       == argv_base - 3 * WORD
           text      == [i \in DOMAIN strings |->
                            PutAt(TASK_SIZE - Extent(SubSeq(strings, i, Len(strings))),
                                  Append(strings[i], 0))]
           three     == << PutAt(esp + 2 * WORD, Word(envp_base)),
                           PutAt(esp + WORD,     Word(argv_base)),
                           PutAt(esp,            Word(Len(argv))) >>
           args      == Pointers(argv_base, Addresses(strings, 1, Len(argv)))
           envs      == Pointers(envp_base, Addresses(strings, Len(argv) + 1, Len(envp)))
<1>1. /\ StackImage(argv, envp).esp = esp
      /\ StackImage(argv, envp).writes = Reverse(text) \o three \o args \o envs
  BY DEF StackImage
<1>2. Len(argv) \in Nat /\ Len(envp) \in Nat
  BY LenProperties
<1>3. strings \in Seq(Seq(Byte))
  <2>1. argv \in Seq(B) /\ envp \in Seq(B)
    OBVIOUS
  <2> HIDE DEF B
  <2>2. argv \o envp \in Seq(B)
    BY <2>1, ConcatProperties
  <2> QED BY <2>2 DEF B
<1> HIDE DEF strings
<1>4. p \in Int
  BY <1>3, ExtentType, Constants
<1> HIDE DEF p
<1>5. envp_base \in Int
  BY <1>2, <1>4, Constants
<1> HIDE DEF envp_base
<1>6. argv_base \in Int
  BY <1>2, <1>5, Constants
<1> HIDE DEF argv_base
<1>7. esp \in Int
  BY <1>6, Constants
<1> HIDE DEF esp
<1>8. three \in Seq(Given)
  <2>1. Word(envp_base) \in Seq(Byte) /\ Word(argv_base) \in Seq(Byte) /\ Word(Len(argv)) \in Seq(Byte)
    BY <1>2, <1>5, <1>6, WordType
  <2>2. esp + 2 * WORD \in Int /\ esp + WORD \in Int
    BY <1>7, Constants
  <2> HIDE DEF Byte
  <2>3. /\ PutAt(esp + 2 * WORD, Word(envp_base)) \in Given
        /\ PutAt(esp + WORD, Word(argv_base)) \in Given
        /\ PutAt(esp, Word(Len(argv))) \in Given
    BY <2>1, <2>2, <1>7, PutGiven
  <2> QED BY <2>3
<1> HIDE DEF three
<1>9. args \in Seq(Given) /\ envs \in Seq(Given)
  <2>1. Addresses(strings, 1, Len(argv)) \in Seq(Int) /\ Addresses(strings, Len(argv) + 1, Len(envp)) \in Seq(Int)
    <3> DEFINE la == Len(argv)
               le == Len(envp)
    <3>1. la + 1 \in Nat \ {0} /\ 1 \in Nat \ {0} /\ la \in Nat /\ le \in Nat
      BY <1>2
    <3> HIDE DEF la, le
    <3>2. Addresses(strings, 1, la) \in Seq(Int)
      BY <1>3, <3>1, AddressesType
    <3>3. Addresses(strings, la + 1, le) \in Seq(Int)
      BY <1>3, <3>1, AddressesType
    <3> QED BY <3>2, <3>3 DEF la, le
  <2> QED BY <2>1, <1>5, <1>6, PointersGiven
<1> HIDE DEF args, envs
<1>10. Reverse(text) \in Seq(Given)
  <2> DEFINE n == Len(strings)
  <2>1. n \in Nat /\ DOMAIN strings = 1 .. n
    BY <1>3, LenProperties
  <2>2. \A i \in 1 .. n : strings[i] \in Seq(Byte)
    BY <1>3, ElementOfSeq
  <2>3. ASSUME NEW i \in 1 .. n
        PROVE  PutAt(TASK_SIZE - Extent(SubSeq(strings, i, Len(strings))), Append(strings[i], 0)) \in Given
    <3>1. TASK_SIZE - Extent(SubSeq(strings, i, Len(strings))) \in Int
      <4>1. i \in Int /\ i >= 1
        BY <2>1
      <4>2. Extent(SubSeq(strings, i, Len(strings))) \in Nat
        BY ONLY <1>3, <4>1, ExtentOfPart
      <4> QED BY <4>2, Constants
    <3>2. Append(strings[i], 0) \in Seq(Byte)
      <4>1. strings[i] \in Seq(Byte) /\ 0 \in Byte
        BY <2>2, Constants
      <4> HIDE DEF Byte
      <4> QED BY <4>1, AppendProperties
    <3> HIDE DEF Byte
    <3> QED BY <3>1, <3>2, PutGiven
  <2>4. text \in [1 .. n -> Given]
    BY <2>1, <2>3
  <2> HIDE DEF n, text
  <2>5. text \in Seq(Given) /\ Len(text) = n
    BY <2>1, <2>4, AsSequence
  <2>6. Reverse(text) = [i \in 1 .. n |-> text[(n - i) + 1]]
    BY <2>5 DEF Reverse
  <2>7. \A i \in 1 .. n : (n - i) + 1 \in 1 .. n
    BY <2>1
  <2>8. Reverse(text) \in [1 .. n -> Given]
    BY <2>4, <2>6, <2>7
  <2> QED BY <2>1, <2>8, AsSequence
<1> DEFINE r == Reverse(text)
<1> HIDE DEF text, r
<1>11. r \in Seq(Given)
  BY <1>10 DEF r
<1>12. r \o three \in Seq(Given)
  BY <1>8, <1>11, ConcatProperties
<1>13. (r \o three) \o args \in Seq(Given)
  BY <1>9, <1>12, ConcatProperties
<1>14. ((r \o three) \o args) \o envs \in Seq(Given)
  BY <1>9, <1>13, ConcatProperties
<1> QED BY <1>1, <1>7, <1>14 DEF r

(* A program just loaded: nothing is cached (load_program).                 *)
LEMMA LoadedSound ==
    ASSUME NEW f \in File, f.kind = "aout", NEW m, m = Loaded(Empty, f)
    PROVE  Typed(m) /\ Coherent(m)
<1>1. f.text \in Seq(Byte) /\ f.data \in Seq(Byte) /\ f.bss \in Nat
  BY DEF File
<1> DEFINE B == Byte
           x == f.text
           y == f.data
           z == Zeros(f.bss)
           n == Len(x)
           low == x \o y \o z
           icache == [i \in 1 .. n |-> None]
           stack == Zeros(RoundUp(DEFAULT_STACK))
           brk == Len(x) + Len(y) + f.bss
<1>2. x \in Seq(B) /\ y \in Seq(B) /\ z \in Seq(B) /\ Len(x) \in Nat /\ Len(y) \in Nat /\ Len(z) \in Nat
  BY <1>1, ZerosFacts, LenProperties
<1>3. stack \in Seq(B) /\ brk \in Nat /\ TASK_SIZE \in Int
  <2>1. RoundUp(DEFAULT_STACK) \in Nat /\ TASK_SIZE \in Int
    BY RoundUpNat, Constants
  <2>2. stack \in Seq(B)
    BY <2>1, ZerosFacts
  <2>3. brk \in Nat
    <3> HIDE DEF x, y
    <3> QED BY <1>1, <1>2
  <2> QED BY <2>1, <2>2, <2>3
<1>4. m = [low |-> low, stack |-> stack, brk |-> brk, text_end |-> n, start_stack |-> TASK_SIZE, icache |-> icache]
  BY DEF Loaded, Empty
<1> HIDE DEF B, x, y, z, stack, brk
<1>5. low \in Seq(B) /\ n <= Len(low)
  <2> DEFINE s == x \o y
             a == Len(x)
             b == Len(y)
             c == Len(z)
             d == Len(s \o z)
  <2>1. s \in Seq(B) /\ Len(s) = Len(x) + Len(y)
    BY <1>2, ConcatProperties
  <2> HIDE DEF s
  <2>2. s \o z \in Seq(B) /\ Len(s \o z) = Len(s) + Len(z)
    BY <1>2, <2>1, ConcatProperties
  <2>3. a \in Nat /\ b \in Nat /\ c \in Nat /\ d = a + b + c
    BY <1>2, <2>1, <2>2
  <2> HIDE DEF a, b, c, d
  <2>4. a <= d
    BY <2>3
  <2> QED BY <2>2, <2>4 DEF s, a, d
<1>6. n \in Nat
  BY <1>2
<1> HIDE DEF n, low
<1>7. icache \in Seq(Entry \cup {None}) /\ Len(icache) = n
  <2>1. icache \in [1 .. n -> Entry \cup {None}]
    OBVIOUS
  <2> QED BY <1>6, <2>1, AsSequence
<1>8. \A i \in 1 .. n : icache[i] = None
  OBVIOUS
<1> HIDE DEF icache
<1>9. /\ m \in Space /\ m.low = low /\ m.text_end = n /\ m.icache = icache
  BY <1>3, <1>4, <1>5, <1>6, <1>7 DEF Space, B
<1>10. Typed(m)
  BY <1>5, <1>7, <1>9 DEF Typed, LowEnd
<1>11. Coherent(m)
  BY <1>8, <1>9 DEF Coherent
<1> QED BY <1>10, <1>11

(* A program that reaches over the stack is not mended by what is stored.   *)
LEMMA OverlapStays ==
    ASSUME NEW m, Typed(m), LowEnd(m) > StackLow(m), NEW x \in Given, NEW w, w = Stored(m, x)
    PROVE  Typed(w.m) /\ LowEnd(w.m) > StackLow(w.m) /\ w.fault \in BOOLEAN
<1> DEFINE addr == x.at
           data == x.data
           n == Len(data)
<1>1. addr \in Int /\ data \in Seq(Byte) /\ w = Write(m, addr, data)
  BY DEF Given, Stored
<1>2. ~CanGrow(m, addr)
  BY <1>1, TypedFacts DEF CanGrow
<1>3. w = IF Mapped(m, addr, n) THEN [m |-> InPlace(m, addr, data), fault |-> FALSE]
          ELSE [m |-> m, fault |-> TRUE]
  BY <1>1, <1>2 DEF Write
<1> HIDE DEF addr, data
<1>4. ASSUME Mapped(m, addr, n)
      PROVE  /\ Typed(InPlace(m, addr, data)) /\ LowEnd(InPlace(m, addr, data)) = LowEnd(m)
             /\ StackLow(InPlace(m, addr, data)) = StackLow(m)
  BY <1>1, <1>4, LowWrite, StackWrite DEF Mapped
<1> QED BY <1>3, <1>4

(* However much is stored.                                                  *)
LEMMA OverlapStaysThroughout ==
    ASSUME NEW m, Typed(m), LowEnd(m) > StackLow(m), NEW elements \in Seq(Given),
           NEW w, w = ByElement(m, elements)
    PROVE  Typed(w.m) /\ LowEnd(w.m) > StackLow(w.m)
<1> DEFINE N == Len(elements)
           T == {x \in Space : Typed(x) /\ LowEnd(x) > StackLow(x)}
<1>1. N \in Nat /\ \A i \in 1 .. N : elements[i] \in Given
  BY LenProperties, ElementOfSeq
<1>2. m \in T
  BY DEF Typed
<1>3. ASSUME NEW x \in T, NEW i \in 1 .. N
      PROVE  Stored(x, elements[i]).m \in T /\ Stored(x, elements[i]).fault \in BOOLEAN
  <2>1. Typed(x) /\ LowEnd(x) > StackLow(x) /\ elements[i] \in Given
    BY <1>1
  <2>2. /\ Typed(Stored(x, elements[i]).m) /\ Stored(x, elements[i]).fault \in BOOLEAN
        /\ LowEnd(Stored(x, elements[i]).m) > StackLow(Stored(x, elements[i]).m)
    BY <2>1, OverlapStays
  <2> QED BY <2>2 DEF Typed
<1> HIDE DEF N, T
<1>4. Len(elements) = N
  BY DEF N
<1>5. PICK f : ByElementUpto(T, m, elements, N, f) /\ w = f[N]
  BY <1>1, <1>2, <1>3, <1>4, ByElementUnfolds
<1>6. f[N] \in [m : T, fault : BOOLEAN, done : Nat]
  BY <1>1, <1>5 DEF ByElementUpto
<1> QED BY <1>5, <1>6 DEF T

(* Nothing but start_stack differs.                                         *)
LEMMA StartStackSound ==
    ASSUME NEW m, Typed(m), NEW v \in Int, NEW w, w = [m EXCEPT !.start_stack = v]
    PROVE  /\ LowEnd(w) = LowEnd(m) /\ StackLow(w) = StackLow(m)
           /\ Typed(w)
           /\ Sound(m) => Sound(w)
<1>1. /\ w \in Space /\ w.low = m.low /\ w.stack = m.stack /\ w.text_end = m.text_end
      /\ w.icache = m.icache
  BY DEF Typed, Space
<1>2. LowEnd(w) = LowEnd(m) /\ StackLow(w) = StackLow(m)
  BY <1>1, SameBytes
<1>3. Typed(w)
  BY <1>1, <1>2 DEF Typed
<1>4. Sound(m) => Coherent(w)
  BY <1>1, <1>3, CoherentKept
<1> QED BY <1>2, <1>3, <1>4 DEF Sound

(* A program starts with what it is called with on its stack.               *)
LEMMA StartedWith ==
    ASSUME NEW s \in Started, NEW Q, Text \subseteq Q, Q \subseteq Seq(Byte),
           \A x \in DOMAIN Files : Files[x].kind = "script" => /\ Files[x].interp \in Q
                                                               /\ Files[x].arg \in Q \cup {None}
    PROVE  /\ s.argv \in Seq(Q) /\ s.envp \in Seq(Q)
           /\ \E m : Typed(m) /\ Coherent(m) /\ s.result = WithStack(m, s.argv, s.envp)
<1>1. PICK c \in Calls : /\ Accepted(c)
                         /\ s = [argv |-> Resolved(c).argv, envp |-> c.envp,
                                 result |-> WithStack(Loaded(Empty, Files[Resolved(c).path]),
                                                      Resolved(c).argv, c.envp)]
  BY DEF Started
<1> DEFINE t == Resolved(c)
           f == Files[t.path]
           argv == IF c.argv = <<>> THEN <<c.path>> ELSE c.argv
<1>2. c.path \in Q /\ c.argv \in Seq(Q) /\ c.envp \in Seq(Q)
  <2>1. c.path \in Text /\ c.argv \in Seq(Text) /\ c.envp \in Seq(Text)
    BY MemoryAssumption DEF Call
  <2> QED BY <2>1, MoreSequences
<1>3. argv \in Arguments(Q)
  BY <1>2 DEF Arguments
<1> HIDE DEF argv
<1>4. t \in [path : Q, argv : Arguments(Q)]
  <2>1. Interpreted(c.path, argv) \in [path : Q, argv : Arguments(Q)]
    BY <1>2, <1>3, InterpretedType
  <2> QED BY <2>1 DEF Resolved, argv
<1>5. f \in File /\ f.kind = "aout"
  BY <1>1, SpaceAssumption DEF Accepted, Loadable
<1>6. Typed(Loaded(Empty, f)) /\ Coherent(Loaded(Empty, f))
  BY <1>5, LoadedSound
<1>7. s.argv = t.argv /\ s.envp = c.envp /\ s.result = WithStack(Loaded(Empty, f), t.argv, c.envp)
  BY <1>1
<1> HIDE DEF t, f
<1>8. s.argv \in Seq(Q) /\ s.envp \in Seq(Q)
  BY <1>2, <1>4, <1>7 DEF Arguments
<1> QED BY <1>6, <1>7, <1>8

(* Either way they are bytes.                                               *)
LEMMA StartedBytes ==
    ASSUME NEW s \in Started
    PROVE  /\ s.argv \in Seq(Seq(Byte)) /\ s.envp \in Seq(Seq(Byte))
           /\ \E m : Typed(m) /\ Coherent(m) /\ s.result = WithStack(m, s.argv, s.envp)
<1> DEFINE Q == Seq(Byte)
<1>1. Text \subseteq Q /\ Q \subseteq Seq(Byte)
  BY TextIsBytes
<1>2. \A x \in DOMAIN Files : Files[x].kind = "script" => /\ Files[x].interp \in Q
                                                          /\ Files[x].arg \in Q \cup {None}
  BY SpaceAssumption DEF File
<1> HIDE DEF Q
<1>3. /\ s.argv \in Seq(Q) /\ s.envp \in Seq(Q)
      /\ \E m : Typed(m) /\ Coherent(m) /\ s.result = WithStack(m, s.argv, s.envp)
  BY <1>1, <1>2, StartedWith
<1> QED BY <1>3 DEF Q

(* What is given is an element.                                             *)
LEMMA GivenElements ==
    ASSUME NEW elements \in Seq(Given)
    PROVE  elements \in Seq(Element)
<1>1. Given \subseteq Element
  BY DEF Given, Element
<1> QED BY <1>1, MoreSequences

(* A program starts in a memory that is sound, unless it reaches over its   *)
(* stack.                                                                   *)
LEMMA StartedSound ==
    ASSUME NEW s \in Started
    PROVE  /\ Typed(s.result.m)
           /\ LowEnd(s.result.m) <= StackLow(s.result.m) => Sound(s.result.m)
<1>1. PICK m0 : Typed(m0) /\ Coherent(m0) /\ s.result = WithStack(m0, s.argv, s.envp)
  BY StartedBytes
<1> DEFINE image == StackImage(s.argv, s.envp)
           st == ByElement(m0, image.writes)
           v == (image.esp \div PAGE_SIZE) * PAGE_SIZE
<1>2. image.esp \in Int /\ image.writes \in Seq(Given)
  BY StartedBytes, StackImageType
<1>3. s.result.m = [st.m EXCEPT !.start_stack = v]
  BY <1>1 DEF WithStack
<1>4. v \in Int
  BY <1>2, Constants
<1> HIDE DEF v, image
<1>5. LowEnd(m0) \in Nat /\ StackLow(m0) \in Int
  BY <1>1, TypedFacts
<1>6. CASE LowEnd(m0) <= StackLow(m0)
  <2>1. Sound(m0)
    BY <1>1, <1>6 DEF Sound
  <2>2. image.writes \in Seq(Element)
    BY <1>2, GivenElements
  <2>3. Sound(st.m)
    BY <2>1, <2>2, ByElementSound
  <2> HIDE DEF st
  <2> QED BY <2>3, <1>3, <1>4, StartStackSound DEF Sound
<1>7. CASE LowEnd(m0) > StackLow(m0)
  <2>1. Typed(st.m) /\ LowEnd(st.m) > StackLow(st.m)
    BY <1>1, <1>2, <1>7, OverlapStaysThroughout
  <2> HIDE DEF st
  <2>2. LowEnd(st.m) \in Nat /\ StackLow(st.m) \in Int
    BY <2>1, TypedFacts
  <2>3. /\ Typed(s.result.m)
        /\ LowEnd(s.result.m) = LowEnd(st.m) /\ StackLow(s.result.m) = StackLow(st.m)
    BY <2>1, <1>3, <1>4, StartStackSound
  <2>4. ~(LowEnd(s.result.m) <= StackLow(s.result.m))
    BY <2>1, <2>2, <2>3
  <2> QED BY <2>3, <2>4
<1> QED BY <1>5, <1>6, <1>7

(* The memory a process has before a program is loaded.                     *)
LEMMA EmptySound ==
    ASSUME LowEnd(Empty) <= StackLow(Empty)
    PROVE  Sound(Empty) /\ FlatBytes(Empty) = Unset
<1> DEFINE k == RoundUp(DEFAULT_STACK)
           stack == Zeros(k)
<1>1. k \in Nat
  BY RoundUpNat, Constants
<1> HIDE DEF k
<1>2. stack \in Seq(Byte) /\ Len(stack) = k /\ \A i \in 1 .. k : stack[i] = 0
  BY <1>1, ZerosFacts
<1>3. Empty = [low |-> <<>>, stack |-> stack, brk |-> 0, text_end |-> 0,
               start_stack |-> TASK_SIZE, icache |-> <<>>]
  BY DEF Empty, k
<1> HIDE DEF stack
<1>4. /\ Empty \in Space /\ Empty.low = <<>> /\ Empty.stack = stack /\ Empty.text_end = 0
      /\ Empty.icache = <<>>
  BY <1>2, <1>3, Constants DEF Space
<1>5. Typed(Empty) /\ LowEnd(Empty) = 0
  BY <1>4 DEF Typed, LowEnd
<1>6. Coherent(Empty)
  BY <1>4 DEF Coherent
<1>7. ASSUME NEW a \in Addr PROVE FlatBytes(Empty)[a] = 0
  <2>1. a \in Int /\ 0 <= a /\ a < TASK_SIZE
    BY Constants DEF Addr
  <2>2. CASE Mapped(Empty, a, 1)
    <3>1. StackLow(Empty) <= a /\ Cell(Empty, a) = Empty.stack[a - StackLow(Empty) + 1]
      BY <1>5, <2>1, <2>2, CellFacts
    <3>2. a - StackLow(Empty) + 1 \in 1 .. Len(Empty.stack)
      BY <1>5, <2>1, <3>1, StackIndex
    <3>3. Empty.stack = stack /\ Len(stack) = k
      BY <1>2, <1>4
    <3>4. Cell(Empty, a) = 0
      BY <1>2, <3>1, <3>2, <3>3
    <3> QED BY <2>2, <3>4 DEF FlatBytes
  <2>3. CASE ~Mapped(Empty, a, 1)
    BY <2>3 DEF FlatBytes
  <2> QED BY <2>2, <2>3
<1>8. FlatBytes(Empty) = Unset
  BY <1>7 DEF FlatBytes, Unset
<1> QED BY <1>5, <1>6, <1>8 DEF Sound

-----------------------------------------------------------------------------
(* Words, and how long strings are.                                         *)

(* How many numbers there are, one place more at a time.                    *)
LEMMA WordsUnfold ==
    \E power \in [0 .. WORD -> Nat] :
        /\ Words = power[WORD] /\ power[0] = 1
        /\ \A i \in 1 .. WORD : power[i] = BASE * power[i - 1]
<1> DEFINE F == [x \in Nat |-> [i \in 1 .. WORD |-> BASE * x]]
           Is(f) == f = [i \in 0 .. WORD |-> IF i = 0 THEN 1 ELSE BASE * f[i - 1]]
           power == CHOOSE f : Is(f)
<1>1. WORD \in Nat /\ BASE \in Nat /\ BASE > 0
  BY Constants
<1>2. F \in [Nat -> [1 .. WORD -> Nat]]
  BY <1>1
<1>3. \A x \in Nat : \A i \in 1 .. WORD : F[x][i] = BASE * x
  OBVIOUS
<1> HIDE DEF F
<1>4. PICK f : Recurs(Nat, 1, WORD, F, f)
  <2> HIDE DEF Is, power
  <2>1. \E f : Recurs(Nat, 1, WORD, F, f)
    BY <1>1, <1>2, Recursion
  <2> QED BY <2>1
<1>5. f \in [0 .. WORD -> Nat] /\ f[0] = 1 /\ \A i \in 1 .. WORD : f[i] = BASE * f[i - 1]
  <2>1. f \in [0 .. WORD -> Nat] /\ f[0] = 1 /\ \A i \in 1 .. WORD : f[i] = F[f[i - 1]][i]
    BY <1>4 DEF Recurs
  <2>2. \A i \in 1 .. WORD : i - 1 \in 0 .. WORD
    BY <1>1
  <2> QED BY <2>1, <2>2, <1>3
<1>6. Is(f)
  <2>1. \A i \in 0 .. WORD : f[i] = IF i = 0 THEN 1 ELSE BASE * f[i - 1]
    BY <1>1, <1>5
  <2> QED BY <1>5, <2>1
<1>7. Is(power)
  <2> HIDE DEF Is
  <2> QED BY <1>6
<1>8. Words = power[WORD]
  BY DEF Words
<1> HIDE DEF power
<1>9. power[0] = 1 /\ \A i \in 1 .. WORD : power[i] = BASE * power[i - 1]
  BY <1>1, <1>7
<1>10. \A i \in 0 .. WORD : power[i] \in Nat
  <2>1. power[0] \in Nat /\ \A i \in 1 .. WORD : power[i - 1] \in Nat => power[i] \in Nat
    BY <1>1, <1>9
  <2> HIDE DEF Is
  <2> QED BY <1>1, <2>1, AllAlong
<1>11. power \in [0 .. WORD -> Nat]
  BY <1>7, <1>10
<1> QED BY <1>8, <1>9, <1>11

(* The number in a word, from its upper bytes on.                           *)
LEMMA WordAtUnfolds ==
    ASSUME NEW m, NEW addr \in Int, \A k \in 0 .. WORD - 1 : Cell(m, addr + k) \in Nat
    PROVE  \E upper \in [0 .. WORD -> Nat] :
               /\ WordAt(m, addr) = upper[WORD] /\ upper[0] = 0
               /\ \A i \in 1 .. WORD : upper[i] = upper[i - 1] * BASE + Cell(m, addr + WORD - i)
<1> DEFINE Byte_(i) == Cell(m, addr + WORD - i)
           F == [x \in Nat |-> [i \in 1 .. WORD |-> x * BASE + Byte_(i)]]
           Is(f) == f = [i \in 0 .. WORD |-> IF i = 0 THEN 0 ELSE f[i - 1] * BASE + Byte_(i)]
           upper == CHOOSE f : Is(f)
<1>1. WORD \in Nat /\ BASE \in Nat /\ BASE > 0
  BY Constants
<1>2. \A i \in 1 .. WORD : Byte_(i) \in Nat
  <2> SUFFICES ASSUME NEW i \in 1 .. WORD PROVE Cell(m, addr + WORD - i) \in Nat
    OBVIOUS
  <2>1. WORD - i \in 0 .. WORD - 1 /\ addr + WORD - i = addr + (WORD - i)
    BY <1>1
  <2> QED BY <2>1
<1>0. WordAt(m, addr) = upper[WORD]
  BY DEF WordAt
<1> HIDE DEF Byte_
<1>3. F \in [Nat -> [1 .. WORD -> Nat]]
  BY <1>1, <1>2
<1>4. \A x \in Nat : \A i \in 1 .. WORD : F[x][i] = x * BASE + Byte_(i)
  OBVIOUS
<1> HIDE DEF F
<1>5. PICK f : Recurs(Nat, 0, WORD, F, f)
  <2> HIDE DEF Is, upper
  <2>1. \E f : Recurs(Nat, 0, WORD, F, f)
    BY <1>1, <1>3, Recursion
  <2> QED BY <2>1
<1>6. f \in [0 .. WORD -> Nat] /\ f[0] = 0 /\ \A i \in 1 .. WORD : f[i] = f[i - 1] * BASE + Byte_(i)
  <2>1. f \in [0 .. WORD -> Nat] /\ f[0] = 0 /\ \A i \in 1 .. WORD : f[i] = F[f[i - 1]][i]
    BY <1>5 DEF Recurs
  <2>2. \A i \in 1 .. WORD : i - 1 \in 0 .. WORD
    BY <1>1
  <2> QED BY <2>1, <2>2, <1>4
<1>7. Is(f)
  <2>1. \A i \in 0 .. WORD : f[i] = IF i = 0 THEN 0 ELSE f[i - 1] * BASE + Byte_(i)
    BY <1>1, <1>6
  <2> QED BY <1>6, <2>1
<1>8. Is(upper)
  <2> HIDE DEF Is
  <2> QED BY <1>7
<1> HIDE DEF upper
<1>9. upper[0] = 0 /\ \A i \in 1 .. WORD : upper[i] = upper[i - 1] * BASE + Byte_(i)
  BY <1>1, <1>8
<1>10. \A i \in 0 .. WORD : upper[i] \in Nat
  <2>1. upper[0] \in Nat /\ \A i \in 1 .. WORD : upper[i - 1] \in Nat => upper[i] \in Nat
    BY <1>1, <1>2, <1>9
  <2> HIDE DEF Is
  <2> QED BY <1>1, <2>1, AllAlong
<1>11. upper \in [0 .. WORD -> Nat]
  BY <1>8, <1>10
<1> QED BY <1>0, <1>9, <1>11 DEF Byte_

(* Dividing by the base: what is below so many times the base.              *)
LEMMA Quotient ==
    ASSUME NEW n \in Nat, NEW q \in Nat, n < BASE * q
    PROVE  n \div BASE \in Nat /\ n \div BASE < q /\ (n \div BASE) * BASE + (n % BASE) = n
<1>1. BASE \in Nat /\ BASE > 0
  BY Constants
<1> DEFINE d == n \div BASE
           r == n % BASE
<1>2. d \in Nat /\ r \in Nat /\ n = BASE * d + r
  BY <1>1
<1> HIDE DEF d, r
<1>3. d < q
  <2> SUFFICES ASSUME d >= q PROVE FALSE
    BY <1>2
  <2> DEFINE k == d - q
  <2>1. k \in Nat /\ d = q + k
    BY <1>2
  <2> HIDE DEF k
  <2>2. BASE * d = BASE * q + BASE * k /\ BASE * k \in Nat /\ BASE * q \in Nat /\ BASE * d \in Nat
    BY <1>1, <2>1
  <2> DEFINE a == BASE * d
             b == BASE * q
             c == BASE * k
  <2>3. a = b + c /\ c \in Nat /\ b \in Nat /\ a \in Nat /\ n = a + r /\ n < b
    BY <1>2, <2>2
  <2> HIDE DEF a, b, c
  <2> QED BY <1>2, <2>3
<1>4. d * BASE = BASE * d
  BY <1>1, <1>2
<1> QED BY <1>2, <1>3, <1>4 DEF d, r

(* The bytes of a word make the number again, if it is one that fits.       *)
LEMMA WordArrives ==
    ASSUME NEW n \in Nat, n < Words, NEW m, NEW addr \in Int,
           \A k \in 1 .. WORD : Cell(m, addr + k - 1) = Word(n)[k]
    PROVE  WordAt(m, addr) = n
<1>1. WORD \in Nat /\ BASE \in Nat /\ BASE > 0
  BY Constants
<1>2. PICK power \in [0 .. WORD -> Nat] :
          /\ Words = power[WORD] /\ power[0] = 1
          /\ \A i \in 1 .. WORD : power[i] = BASE * power[i - 1]
  BY WordsUnfold
<1>3. PICK rest \in [0 .. WORD -> Int] :
          /\ rest[0] = n /\ \A i \in 1 .. WORD : rest[i] = rest[i - 1] \div BASE
          /\ Word(n) = [i \in 1 .. WORD |-> rest[i - 1] % BASE]
  BY WordUnfolds
<1>4. \A i \in 0 .. WORD : rest[i] \in Nat /\ rest[i] < power[WORD - i]
  <2> DEFINE S == {i \in 0 .. WORD : rest[i] \in Nat /\ rest[i] < power[WORD - i]}
  <2>1. 0 \in S
    <3>1. WORD - 0 = WORD /\ 0 \in 0 .. WORD
      BY <1>1
    <3> QED BY <1>2, <1>3, <3>1
  <2>2. ASSUME NEW i \in 0 .. WORD, i \in S, i < WORD PROVE i + 1 \in S
    <3>1. i + 1 \in 1 .. WORD /\ (i + 1) - 1 = i /\ WORD - i \in 1 .. WORD
          /\ (WORD - i) - 1 = WORD - (i + 1) /\ WORD - (i + 1) \in 0 .. WORD
      BY <1>1, <2>2
    <3>2. rest[i + 1] = rest[i] \div BASE
      BY <1>3, <3>1
    <3>3. power[WORD - i] = BASE * power[WORD - (i + 1)] /\ power[WORD - (i + 1)] \in Nat
      BY <1>2, <3>1
    <3>4. rest[i] \in Nat /\ rest[i] < BASE * power[WORD - (i + 1)]
      BY <2>2, <3>3
    <3>5. rest[i] \div BASE \in Nat /\ rest[i] \div BASE < power[WORD - (i + 1)]
      BY <3>3, <3>4, Quotient
    <3> QED BY <3>1, <3>2, <3>5
  <2> HIDE DEF S
  <2>3. \A i \in 0 .. WORD : i \in S
    BY <1>1, <2>1, <2>2, CountUp
  <2> QED BY <2>3 DEF S
<1>5. \A i \in 1 .. WORD : rest[i] * BASE + (rest[i - 1] % BASE) = rest[i - 1]
  <2> SUFFICES ASSUME NEW i \in 1 .. WORD PROVE rest[i] * BASE + (rest[i - 1] % BASE) = rest[i - 1]
    OBVIOUS
  <2>1. i - 1 \in 0 .. WORD /\ WORD - (i - 1) \in 1 .. WORD /\ (WORD - (i - 1)) - 1 \in 0 .. WORD
    BY <1>1
  <2>2. power[WORD - (i - 1)] = BASE * power[(WORD - (i - 1)) - 1] /\ power[(WORD - (i - 1)) - 1] \in Nat
    BY <1>2, <2>1
  <2>3. rest[i - 1] \in Nat /\ rest[i - 1] < BASE * power[(WORD - (i - 1)) - 1]
    BY <1>4, <2>1, <2>2
  <2>4. (rest[i - 1] \div BASE) * BASE + (rest[i - 1] % BASE) = rest[i - 1]
    BY <2>2, <2>3, Quotient
  <2> QED BY <2>4, <1>3
<1>6. rest[WORD] = 0
  <2>1. WORD - WORD = 0 /\ WORD \in 0 .. WORD
    BY <1>1
  <2>2. rest[WORD] \in Nat /\ rest[WORD] < 1
    BY <1>2, <1>4, <2>1
  <2> QED BY <2>2
<1>7. \A k \in 0 .. WORD - 1 : Cell(m, addr + k) = rest[k] % BASE
  <2> SUFFICES ASSUME NEW k \in 0 .. WORD - 1 PROVE Cell(m, addr + k) = rest[k] % BASE
    OBVIOUS
  <2>1. k + 1 \in 1 .. WORD /\ addr + (k + 1) - 1 = addr + k /\ (k + 1) - 1 = k
    BY <1>1
  <2>2. Cell(m, addr + (k + 1) - 1) = Word(n)[k + 1]
    BY <2>1
  <2>3. Word(n)[k + 1] = rest[(k + 1) - 1] % BASE
    BY <1>3, <2>1
  <2> QED BY <2>1, <2>2, <2>3
<1>8. \A k \in 0 .. WORD - 1 : Cell(m, addr + k) \in Nat
  <2> SUFFICES ASSUME NEW k \in 0 .. WORD - 1 PROVE rest[k] % BASE \in Nat
    BY <1>7
  <2>1. rest[k] \in Nat
    BY <1>1, <1>4
  <2> QED BY <1>1, <2>1
<1>9. PICK upper \in [0 .. WORD -> Nat] :
          /\ WordAt(m, addr) = upper[WORD] /\ upper[0] = 0
          /\ \A i \in 1 .. WORD : upper[i] = upper[i - 1] * BASE + Cell(m, addr + WORD - i)
  BY <1>8, WordAtUnfolds
<1>10. \A i \in 0 .. WORD : upper[i] = rest[WORD - i]
  <2> DEFINE S == {i \in 0 .. WORD : upper[i] = rest[WORD - i]}
  <2>1. 0 \in S
    <3>1. WORD - 0 = WORD /\ 0 \in 0 .. WORD
      BY <1>1
    <3> QED BY <1>6, <1>9, <3>1
  <2>2. ASSUME NEW i \in 0 .. WORD, i \in S, i < WORD PROVE i + 1 \in S
    <3>1. i + 1 \in 1 .. WORD /\ (i + 1) - 1 = i /\ WORD - i \in 1 .. WORD
          /\ (WORD - i) - 1 = WORD - (i + 1) /\ WORD - (i + 1) \in 0 .. WORD - 1
          /\ addr + WORD - (i + 1) = addr + (WORD - (i + 1))
      BY <1>1, <2>2
    <3>2. upper[i + 1] = upper[(i + 1) - 1] * BASE + Cell(m, addr + WORD - (i + 1))
      BY <1>9, <3>1
    <3>3. Cell(m, addr + WORD - (i + 1)) = rest[WORD - (i + 1)] % BASE
      BY <1>7, <3>1
    <3>4. rest[WORD - i] * BASE + (rest[(WORD - i) - 1] % BASE) = rest[(WORD - i) - 1]
      BY <1>5, <3>1
    <3>5. upper[i] = rest[WORD - i]
      BY <2>2
    <3>6. upper[i + 1] = rest[WORD - i] * BASE + (rest[WORD - (i + 1)] % BASE)
      BY ONLY <3>1, <3>2, <3>3, <3>5
    <3>7. upper[i + 1] = rest[WORD - (i + 1)]
      BY ONLY <3>1, <3>4, <3>6
    <3>8. i + 1 \in 0 .. WORD
      BY <3>1
    <3> QED BY <3>7, <3>8
  <2> HIDE DEF S
  <2>3. \A i \in 0 .. WORD : i \in S
    BY <1>1, <2>1, <2>2, CountUp
  <2> QED BY <2>3 DEF S
<1>11. upper[WORD] = rest[WORD - WORD] /\ WORD - WORD = 0
  BY <1>1, <1>10
<1> QED BY <1>3, <1>9, <1>11

(* What the strings from i on take.                                         *)
Taken(strings, i) == Extent(SubSeq(strings, i, Len(strings)))

(* The strings from i on.                                                   *)
LEMMA Later ==
    ASSUME NEW strings \in Seq(Seq(Byte)), NEW i \in 1 .. Len(strings) + 1,
           NEW t, t = SubSeq(strings, i, Len(strings))
    PROVE  /\ Len(strings) \in Nat /\ t \in Seq(Seq(Byte)) /\ Len(t) = Len(strings) + 1 - i
           /\ \A k \in 1 .. Len(strings) + 1 - i : t[k] = strings[i + k - 1]
           /\ \A k \in 1 .. Len(strings) : strings[k] \in Seq(Byte) /\ Len(strings[k]) \in Nat
<1> DEFINE n == Len(strings)
           B == Seq(Byte)
<1>1. n \in Nat /\ strings \in Seq(B)
  BY LenProperties
<1>2. \A k \in 1 .. n : strings[k] \in B
  BY <1>1, ElementOfSeq
<1>3. \A k \in 1 .. n : Len(strings[k]) \in Nat
  BY <1>2, LenProperties
<1>4. i \in 1 .. n + 1 /\ t = SubSeq(strings, i, n)
  OBVIOUS
<1> HIDE DEF n, B
<1>5. \A k \in i .. n : strings[k] \in B
  BY <1>1, <1>2, <1>4
<1>6. /\ SubSeq(strings, i, n) \in Seq(B)
      /\ Len(SubSeq(strings, i, n)) = IF i <= n THEN n - i + 1 ELSE 0
      /\ \A k \in 1 .. n - i + 1 : SubSeq(strings, i, n)[k] = strings[i + k - 1]
  BY <1>1, <1>4, <1>5, SubSeqProperties
<1>7. Len(t) = n + 1 - i /\ n + 1 - i = n - i + 1
  BY <1>1, <1>4, <1>6
<1> QED BY <1>1, <1>2, <1>3, <1>4, <1>6, <1>7 DEF n, B

(* Each string takes its bytes and the 0 behind it.                         *)
LEMMA TakenFacts ==
    ASSUME NEW strings \in Seq(Seq(Byte)), NEW n, n = Len(strings)
    PROVE  /\ Taken(strings, 1) = Extent(strings) /\ Taken(strings, n + 1) = 0
           /\ \A i \in 1 .. n + 1 : Taken(strings, i) \in Nat
           /\ \A i \in 1 .. n : Taken(strings, i) = Taken(strings, i + 1) + Len(strings[i]) + 1
<1>1. n \in Nat /\ \A k \in 1 .. n : strings[k] \in Seq(Byte) /\ Len(strings[k]) \in Nat
  <2>1. n \in Nat
    BY LenProperties
  <2>2. 1 \in 1 .. Len(strings) + 1
    BY <2>1
  <2> QED BY <2>2, Later
<1>2. ASSUME NEW i \in 1 .. n + 1 PROVE Taken(strings, i) \in Nat
  <2>1. SubSeq(strings, i, n) \in Seq(Seq(Byte))
    BY Later
  <2> QED BY <2>1, ExtentType DEF Taken
<1>3. Taken(strings, 1) = Extent(strings)
  <2> DEFINE t == SubSeq(strings, 1, n)
  <2>1. 1 \in 1 .. Len(strings) + 1
    BY <1>1
  <2>2. t \in Seq(Seq(Byte)) /\ Len(t) = n + 1 - 1 /\ \A k \in 1 .. n + 1 - 1 : t[k] = strings[1 + k - 1]
    BY <2>1, Later
  <2> HIDE DEF t
  <2>3. Len(t) = Len(strings) /\ \A k \in 1 .. Len(t) : t[k] = strings[k]
    BY <1>1, <2>2
  <2>4. t = strings
    BY <2>2, <2>3, SeqEqual
  <2> QED BY <2>4 DEF t, Taken
<1>4. Taken(strings, n + 1) = 0
  <2> DEFINE t == SubSeq(strings, n + 1, n)
  <2>1. n + 1 \in 1 .. Len(strings) + 1
    BY <1>1
  <2>2. t \in Seq(Seq(Byte)) /\ Len(t) = n + 1 - (n + 1)
    BY <2>1, Later
  <2> HIDE DEF t
  <2>3. Len(t) = 0
    BY <1>1, <2>2
  <2>4. Extent(t) = 0
    BY <2>2, <2>3, ExtentUnfolds
  <2> QED BY <2>4 DEF t, Taken
<1>5. ASSUME NEW i \in 1 .. n
      PROVE  Taken(strings, i) = Taken(strings, i + 1) + Len(strings[i]) + 1
  <2> DEFINE t == SubSeq(strings, i, n)
             u == SubSeq(strings, i + 1, n)
             l == Len(strings[i])
             N == n - i
  <2>1. i \in 1 .. Len(strings) + 1 /\ i + 1 \in 1 .. Len(strings) + 1 /\ N \in Nat
    BY <1>1
  <2>2. t \in Seq(Seq(Byte)) /\ Len(t) = n + 1 - i /\ \A k \in 1 .. n + 1 - i : t[k] = strings[i + k - 1]
    BY <2>1, Later
  <2>3. /\ u \in Seq(Seq(Byte)) /\ Len(u) = n + 1 - (i + 1)
        /\ \A k \in 1 .. n + 1 - (i + 1) : u[k] = strings[(i + 1) + k - 1]
    BY <2>1, Later
  <2> HIDE DEF t, u
  <2>4. Len(t) = N + 1 /\ Len(u) = N /\ t[1] = strings[i]
    <3>1. /\ n + 1 - i = N + 1 /\ n + 1 - (i + 1) = N
          /\ 1 \in 1 .. n + 1 - i /\ i + 1 - 1 = i
      BY <1>1
    <3> HIDE DEF N
    <3>2. t[1] = strings[i + 1 - 1]
      BY <3>1, <2>2
    <3> QED BY <3>1, <3>2, <2>2, <2>3
  <2>5. \A k \in 1 .. N : t[k + 1] = u[k]
    <3> SUFFICES ASSUME NEW k \in 1 .. N PROVE t[k + 1] = u[k]
      OBVIOUS
    <3>1. k + 1 \in 1 .. n + 1 - i /\ k \in 1 .. n + 1 - (i + 1) /\ i + (k + 1) - 1 = (i + 1) + k - 1
      BY <1>1, <2>1
    <3> QED BY <3>1, <2>2, <2>3
  <2>6. PICK x \in [0 .. Len(t) -> Nat] :
            /\ Extent(t) = x[Len(t)] /\ x[0] = 0
            /\ \A k \in 1 .. Len(t) : x[k] = x[k - 1] + Len(t[k]) + 1
    BY <2>2, ExtentUnfolds
  <2>7. PICK y \in [0 .. Len(u) -> Nat] :
            /\ Extent(u) = y[Len(u)] /\ y[0] = 0
            /\ \A k \in 1 .. Len(u) : y[k] = y[k - 1] + Len(u[k]) + 1
    BY <2>3, ExtentUnfolds
  <2>8. \A k \in 1 .. N : Len(u[k]) \in Nat
    <3> SUFFICES ASSUME NEW k \in 1 .. N PROVE Len(u[k]) \in Nat
      OBVIOUS
    <3>1. k \in 1 .. n + 1 - (i + 1) /\ (i + 1) + k - 1 \in 1 .. n
      BY <1>1, <2>1
    <3> QED BY <3>1, <1>1, <2>3
  <2> HIDE DEF N
  <2>9. \A k \in 0 .. N : x[k + 1] = y[k] + l + 1
    <3> DEFINE S == {k \in 0 .. N : x[k + 1] = y[k] + l + 1}
    <3>1. 0 \in S
      <4>1. 1 \in 1 .. Len(t) /\ 1 - 1 = 0 /\ 0 + 1 = 1
        BY <2>1, <2>4
      <4>2. x[1] = x[1 - 1] + Len(t[1]) + 1
        BY <2>6, <4>1
      <4>3. x[0 + 1] = y[0] + l + 1
        BY <4>1, <4>2, <2>4, <2>6, <2>7
      <4> QED BY <4>3, <2>1
    <3>2. ASSUME NEW k \in 0 .. N, k \in S, k < N PROVE k + 1 \in S
      <4>1. k + 1 \in 1 .. Len(u) /\ (k + 1) - 1 = k /\ k + 1 \in 1 .. N /\ k \in 0 .. N
            /\ (k + 1) + 1 \in 1 .. Len(t) /\ ((k + 1) + 1) - 1 = k + 1
        BY <3>2, <2>1, <2>4
      <4>2. x[(k + 1) + 1] = x[((k + 1) + 1) - 1] + Len(t[(k + 1) + 1]) + 1
        BY <4>1, <2>6
      <4>3. y[k + 1] = y[(k + 1) - 1] + Len(u[k + 1]) + 1
        BY <4>1, <2>7
      <4>4. t[(k + 1) + 1] = u[k + 1] /\ Len(u[k + 1]) \in Nat
        BY <4>1, <2>5, <2>8
      <4>5. x[k + 1] = y[k] + l + 1
        BY <3>2
      <4>6. y[k] \in Nat /\ l \in Nat
        BY <4>1, <2>4, <2>7, <1>1
      <4> DEFINE yk == y[k]
                 lu == Len(u[k + 1])
      <4>7. yk \in Nat /\ lu \in Nat /\ l \in Nat
        BY <4>4, <4>6
      <4>8. x[(k + 1) + 1] = (yk + l + 1) + lu + 1 /\ y[k + 1] = yk + lu + 1
        BY <4>1, <4>2, <4>3, <4>4, <4>5
      <4> HIDE DEF yk, lu, l
      <4>9. x[(k + 1) + 1] = y[k + 1] + l + 1
        BY <4>7, <4>8
      <4> QED BY <4>9, <4>1
    <3> HIDE DEF S
    <3>3. \A k \in 0 .. N : k \in S
      BY <2>1, <3>1, <3>2, CountUp
    <3> QED BY <3>3 DEF S
  <2>10. Extent(t) = Extent(u) + l + 1
    BY <2>1, <2>4, <2>6, <2>7, <2>9
  <2> QED BY <2>10 DEF t, u, Taken
<1> QED BY <1>2, <1>3, <1>4, <1>5

(* Earlier strings lie below later ones.                                    *)
LEMMA TakenFalls ==
    ASSUME NEW strings \in Seq(Seq(Byte)), NEW i \in 1 .. Len(strings) + 1,
           NEW j \in 1 .. Len(strings) + 1, i <= j
    PROVE  Taken(strings, j) <= Taken(strings, i)
<1> DEFINE n == Len(strings)
           S == {k \in 0 .. n : i + k <= n + 1 => Taken(strings, i + k) <= Taken(strings, i)}
<1>1. n \in Nat
  BY LenProperties
<1>2. /\ \A k \in 1 .. n + 1 : Taken(strings, k) \in Nat
      /\ \A k \in 1 .. n : Taken(strings, k) = Taken(strings, k + 1) + Len(strings[k]) + 1
  BY TakenFacts
<1>3. \A k \in 1 .. n : Len(strings[k]) \in Nat
  BY Later
<1>4. i \in 1 .. n + 1 /\ j \in 1 .. n + 1
  OBVIOUS
<1> HIDE DEF n
<1>5. 0 \in S
  <2>1. i + 0 = i /\ 0 \in 0 .. n
    BY <1>1, <1>4
  <2>2. Taken(strings, i) <= Taken(strings, i)
    BY <1>2, <1>4
  <2> QED BY <2>1, <2>2
<1>6. ASSUME NEW k \in 0 .. n, k \in S, k < n PROVE k + 1 \in S
  <2> SUFFICES ASSUME i + (k + 1) <= n + 1
               PROVE  Taken(strings, i + (k + 1)) <= Taken(strings, i)
    BY <1>1, <1>6
  <2>1. i + k \in 1 .. n /\ (i + k) + 1 = i + (k + 1) /\ i + k <= n + 1
        /\ i + (k + 1) \in 1 .. n + 1 /\ i + k \in 1 .. n + 1
    BY <1>1, <1>4
  <2>2. Taken(strings, i + k) = Taken(strings, (i + k) + 1) + Len(strings[i + k]) + 1
    BY <1>2, <2>1
  <2>3. Taken(strings, i + k) <= Taken(strings, i)
    BY <1>6, <2>1
  <2>4. /\ Taken(strings, i) \in Nat /\ Taken(strings, i + k) \in Nat
        /\ Taken(strings, i + (k + 1)) \in Nat /\ Len(strings[i + k]) \in Nat
    BY <1>2, <1>3, <1>4, <2>1
  <2> DEFINE a == Taken(strings, i)
             b == Taken(strings, i + k)
             c == Taken(strings, i + (k + 1))
             d == Len(strings[i + k])
  <2>5. a \in Nat /\ b \in Nat /\ c \in Nat /\ d \in Nat /\ b = c + d + 1 /\ b <= a
    BY <2>1, <2>2, <2>3, <2>4
  <2> HIDE DEF a, b, c, d
  <2>6. c <= a
    BY <2>5
  <2> QED BY <2>6 DEF a, c
<1> HIDE DEF S
<1>7. \A k \in 0 .. n : k \in S
  BY <1>1, <1>5, <1>6, CountUp
<1>8. j - i \in 0 .. n /\ i + (j - i) = j /\ j <= n + 1
  BY <1>1, <1>4
<1>9. j - i \in S
  BY <1>7, <1>8
<1>10. Taken(strings, i + (j - i)) <= Taken(strings, i)
  BY <1>8, <1>9 DEF S
<1> QED BY <1>8, <1>10

-----------------------------------------------------------------------------
(* What is stored one after the other is all there in the end.              *)

(* What is mapped stays mapped when the arrays grow.                        *)
LEMMA MappedStays ==
    ASSUME NEW m, Typed(m), NEW w, Typed(w), LowEnd(m) <= LowEnd(w), StackLow(w) <= StackLow(m),
           NEW addr \in Int, NEW n \in Nat, Mapped(m, addr, n)
    PROVE  Mapped(w, addr, n)
<1> DEFINE l == LowEnd(m)
           k == LowEnd(w)
           s == StackLow(m)
           t == StackLow(w)
<1>1. l \in Nat /\ k \in Nat /\ s \in Int /\ t \in Int /\ l <= k /\ t <= s
  BY TypedFacts
<1>2. (addr >= 0 /\ addr + n <= l) \/ (addr >= s /\ addr + n <= TASK_SIZE)
  BY DEF Mapped, InLow, InStack
<1> HIDE DEF l, k, s, t
<1>3. (addr >= 0 /\ addr + n <= k) \/ (addr >= t /\ addr + n <= TASK_SIZE)
  BY <1>1, <1>2, Constants
<1> QED BY <1>3 DEF Mapped, InLow, InStack, k, t

(* Part of what is mapped in one piece is so, too.                          *)
LEMMA PartMapped ==
    ASSUME NEW m, Typed(m), NEW addr \in Int, NEW n \in Nat, Mapped(m, addr, n),
           NEW at \in Int, NEW k \in Nat, addr <= at, at + k <= addr + n
    PROVE  Mapped(m, at, k)
<1> DEFINE l == LowEnd(m)
           s == StackLow(m)
<1>1. l \in Nat /\ s \in Int
  BY TypedFacts
<1>2. (addr >= 0 /\ addr + n <= l) \/ (addr >= s /\ addr + n <= TASK_SIZE)
  BY DEF Mapped, InLow, InStack
<1> HIDE DEF l, s
<1>3. (at >= 0 /\ at + k <= l) \/ (at >= s /\ at + k <= TASK_SIZE)
  BY <1>1, <1>2, Constants
<1> QED BY <1>3 DEF Mapped, InLow, InStack, l, s

(* A write takes no memory away, and without a fault its place is there.    *)
LEMMA WriteReaches ==
    ASSUME NEW m, Typed(m), NEW addr \in Int, NEW data \in Seq(Byte), NEW w, w = Write(m, addr, data)
    PROVE  /\ Typed(w.m) /\ LowEnd(w.m) = LowEnd(m) /\ StackLow(w.m) <= StackLow(m)
           /\ ~w.fault => Mapped(w.m, addr, Len(data))
<1> DEFINE n == Len(data)
           g == IF ~Mapped(m, addr, n) /\ CanGrow(m, addr) THEN Grown(m, addr) ELSE m
<1>1. Typed(g) /\ LowEnd(g) = LowEnd(m) /\ StackLow(g) <= StackLow(m)
  <2>1. CASE ~(~Mapped(m, addr, n) /\ CanGrow(m, addr))
    BY <2>1, TypedFacts
  <2>2. CASE CanGrow(m, addr) /\ ~Mapped(m, addr, n)
    <3>1. PICK k \in Nat : Grown(m, addr) = Longer(m, k) /\ LowEnd(m) <= StackLow(m) - k
      BY <2>2, GrownFacts
    <3>2. g = Longer(m, k)
      BY <2>2, <3>1
    <3>3. Typed(g) /\ LowEnd(g) = LowEnd(m) /\ StackLow(g) = StackLow(m) - k
      BY <3>2, GrowthFacts
    <3> HIDE DEF g
    <3>4. StackLow(m) \in Int
      BY TypedFacts
    <3> QED BY <3>3, <3>4
  <2> QED BY <2>1, <2>2
<1>2. w = IF Mapped(g, addr, n) THEN [m |-> InPlace(g, addr, data), fault |-> FALSE]
          ELSE [m |-> g, fault |-> TRUE]
  BY DEF Write
<1> HIDE DEF g
<1>3. ASSUME Mapped(g, addr, n)
      PROVE  /\ Typed(InPlace(g, addr, data)) /\ LowEnd(InPlace(g, addr, data)) = LowEnd(g)
             /\ StackLow(InPlace(g, addr, data)) = StackLow(g)
  <2>1. CASE InLow(g, addr, n)
    BY <1>1, <2>1, LowWrite
  <2>2. CASE ~InLow(g, addr, n)
    <3>1. InStack(g, addr, n)
      BY <1>3, <2>2 DEF Mapped
    <3> QED BY <1>1, <2>2, <3>1, StackWrite
  <2> QED BY <2>1, <2>2
<1>4. ASSUME Mapped(g, addr, n) PROVE Mapped(InPlace(g, addr, data), addr, n)
  BY <1>3, <1>4 DEF Mapped, InLow, InStack
<1> QED BY <1>1, <1>2, <1>3, <1>4

(* Without a fault every element is where there is memory.                  *)
LEMMA ByElementReaches ==
    ASSUME NEW m, Sound(m), NEW elements \in Seq(Given), NEW w, w = ByElement(m, elements), ~w.fault
    PROVE  /\ Sound(w.m)
           /\ FlatBytes(w.m) = OneByOne(FlatBytes(m), elements, Len(elements))
           /\ \A i \in 1 .. Len(elements) : Mapped(w.m, elements[i].at, Len(elements[i].data))
<1> DEFINE N == Len(elements)
           T == {x \in Space : Sound(x)}
<1>1. /\ N \in Nat
      /\ \A i \in 1 .. N : /\ elements[i] \in Given /\ elements[i].at \in Int
                           /\ elements[i].data \in Seq(Byte) /\ Len(elements[i].data) \in Nat
  <2>1. N \in Nat /\ \A i \in 1 .. N : elements[i] \in Given
    BY LenProperties, ElementOfSeq
  <2>2. \A x \in Given : x.at \in Int /\ x.data \in Seq(Byte)
    BY DEF Given
  <2> QED BY <2>1, <2>2, LenProperties
<1>2. m \in T
  BY DEF Sound, Typed
<1>3. ASSUME NEW x \in T, NEW i \in 1 .. N
      PROVE  /\ Stored(x, elements[i]) = Write(x, elements[i].at, elements[i].data)
             /\ Stored(x, elements[i]).m \in T /\ Stored(x, elements[i]).fault \in BOOLEAN
  <2>1. Sound(x) /\ elements[i] \in Given
    BY <1>1
  <2>2. elements[i] \in Element /\ elements[i].kind = "given"
    BY <2>1 DEF Element, Given
  <2>3. Sound(Stored(x, elements[i]).m) /\ Stored(x, elements[i]).fault \in BOOLEAN
    BY <2>1, <2>2, StoredSound
  <2>4. Stored(x, elements[i]) = Write(x, elements[i].at, elements[i].data)
    BY <2>2 DEF Stored
  <2> QED BY <2>3, <2>4 DEF Sound, Typed
<1>4. elements \in Seq(Element)
  <2>1. Given \subseteq Element
    BY DEF Given, Element
  <2>2. elements \in [1 .. N -> Given]
    BY LenProperties
  <2> HIDE DEF N
  <2>3. elements \in [1 .. N -> Element]
    BY <2>1, <2>2
  <2> QED BY <1>1, <2>3, AsSequence
<1>5. Sound(w.m) /\ FlatBytes(w.m) = OneByOne(FlatBytes(m), elements, w.done)
  BY <1>4, ByElementSound
<1> HIDE DEF N, T
<1>6. Len(elements) = N
  BY DEF N
<1>7. PICK f : ByElementUpto(T, m, elements, N, f) /\ w = f[N]
  BY <1>1, <1>2, <1>3, <1>6, ByElementUnfolds
<1>8. /\ f \in [0 .. N -> [m : T, fault : BOOLEAN, done : Nat]]
      /\ f[0] = [m |-> m, fault |-> FALSE, done |-> 0]
      /\ \A i \in 1 .. N : f[i] = NextResult(elements, f[i - 1], i)
  BY <1>7 DEF ByElementUpto
<1> DEFINE There(x, n) == \A i \in 1 .. n : Mapped(x, elements[i].at, Len(elements[i].data))
           S == {n \in 0 .. N : ~f[n].fault => f[n].done = n /\ There(f[n].m, n)}
<1>9. 0 \in S
  BY <1>1, <1>8
<1>10. ASSUME NEW n \in 0 .. N, n \in S, n < N PROVE n + 1 \in S
  <2> DEFINE st == f[n]
             y == Stored(st.m, elements[n + 1])
  <2>1. n + 1 \in 1 .. N /\ (n + 1) - 1 = n /\ n + 1 \in 0 .. N
    BY <1>1, <1>10
  <2>2. f[n + 1] = IF st.fault THEN st
                   ELSE [m |-> y.m, fault |-> y.fault, done |-> IF y.fault THEN n ELSE n + 1]
    BY <1>8, <2>1 DEF NextResult
  <2>3. /\ st \in [m : T, fault : BOOLEAN, done : Nat]
        /\ ~st.fault => st.done = n /\ There(st.m, n)
    BY <1>8, <1>10
  <2> SUFFICES ASSUME ~f[n + 1].fault PROVE f[n + 1].done = n + 1 /\ There(f[n + 1].m, n + 1)
    BY <2>1
  <2> HIDE DEF st
  <2>4. ~st.fault /\ ~y.fault /\ f[n + 1].m = y.m /\ f[n + 1].done = n + 1
    BY <2>2, <2>3
  <2>5. st.m \in T /\ Typed(st.m)
    BY <2>3 DEF T, Sound
  <2>6. y = Write(st.m, elements[n + 1].at, elements[n + 1].data)
    BY <1>3, <2>1, <2>5
  <2> HIDE DEF y
  <2>7. /\ Typed(y.m) /\ LowEnd(y.m) = LowEnd(st.m) /\ StackLow(y.m) <= StackLow(st.m)
        /\ Mapped(y.m, elements[n + 1].at, Len(elements[n + 1].data))
    BY <1>1, <2>1, <2>4, <2>5, <2>6, WriteReaches
  <2>8. LowEnd(st.m) <= LowEnd(y.m)
    BY <2>5, <2>7, TypedFacts
  <2>9. ASSUME NEW i \in 1 .. n PROVE Mapped(y.m, elements[i].at, Len(elements[i].data))
    <3>1. i \in 1 .. N
      BY <1>1
    <3>2. Mapped(st.m, elements[i].at, Len(elements[i].data))
      BY <2>3, <2>4
    <3> QED BY <1>1, <2>5, <2>7, <2>8, <3>1, <3>2, MappedStays
  <2>10. \A i \in 1 .. n + 1 : i \in 1 .. n \/ i = n + 1
    OBVIOUS
  <2> QED BY <2>4, <2>7, <2>9, <2>10
<1>11. N \in S
  <2> HIDE DEF S
  <2>1. \A n \in 0 .. N : n \in S
    BY <1>1, <1>9, <1>10, CountUp
  <2> QED BY <1>1, <2>1
<1>12. w.done = N /\ There(w.m, N)
  BY <1>7, <1>11
<1> QED BY <1>5, <1>6, <1>12

(* The byte that an element has for an address.                             *)
Covers(x, a) == a - x.at + 1 \in 1 .. Len(x.data)
ByteFor(x, a) == x.data[a - x.at + 1]
Agree(x, y)  == \A a \in Addr : Covers(x, a) /\ Covers(y, a) => ByteFor(x, a) = ByteFor(y, a)

(* Elements that agree where they overlap are all there in the end.         *)
LEMMA AllArrive ==
    ASSUME NEW b, NEW elements \in Seq(Given), NEW w, w = OneByOne(b, elements, Len(elements)),
           \A i, j \in 1 .. Len(elements) : Agree(elements[i], elements[j])
    PROVE  \A i \in 1 .. Len(elements) : \A a \in Addr :
               Covers(elements[i], a) => w[a] = ByteFor(elements[i], a)
<1> DEFINE N == Len(elements)
           Has(c, n) == \A i \in 1 .. n : \A a \in Addr :
                            Covers(elements[i], a) => c[a] = ByteFor(elements[i], a)
           S == {n \in 0 .. N : Has(OneByOne(b, elements, n), n)}
<1>1. /\ N \in Nat
      /\ \A i \in 1 .. N : /\ elements[i].kind = "given"
                           /\ DOMAIN elements[i].data = 1 .. Len(elements[i].data)
  <2>1. N \in Nat /\ \A i \in 1 .. N : elements[i] \in Given
    BY LenProperties, ElementOfSeq
  <2>2. \A x \in Given : x.kind = "given" /\ x.data \in Seq(Byte)
    BY DEF Given
  <2> QED BY <2>1, <2>2, LenProperties
<1>2. \A i \in 1 .. N : \A j \in 1 .. N : Agree(elements[i], elements[j])
  OBVIOUS
<1>3. Len(elements) = N
  OBVIOUS
<1> HIDE DEF N
<1>4. 0 \in S
  BY <1>1
<1>5. ASSUME NEW n \in 0 .. N, n \in S, n < N PROVE n + 1 \in S
  <2> DEFINE c == OneByOne(b, elements, n)
             d == OneByOne(b, elements, n + 1)
             x == elements[n + 1]
  <2>1. n + 1 \in 1 .. N /\ (n + 1) - 1 = n
    BY <1>1, <1>5
  <2>2. OneByOne(b, elements, n + 1) =
            Overwritten(OneByOne(b, elements, (n + 1) - 1), elements[n + 1].at,
                        BytesOf(elements[n + 1], OneByOne(b, elements, (n + 1) - 1)))
    BY <1>1, <1>3, <2>1, OneByOneUnfolds
  <2>3. d = Overwritten(c, x.at, x.data) /\ DOMAIN x.data = 1 .. Len(x.data)
    BY <1>1, <2>1, <2>2 DEF BytesOf
  <2>4. Has(c, n)
    BY <1>5
  <2> HIDE DEF c, d
  <2>5. \A a \in Addr : d[a] = IF Covers(x, a) THEN ByteFor(x, a) ELSE c[a]
    BY <2>3 DEF Overwritten, Covers, ByteFor
  <2>6. ASSUME NEW i \in 1 .. n + 1, NEW a \in Addr, Covers(elements[i], a)
        PROVE  d[a] = ByteFor(elements[i], a)
    <3>1. CASE i = n + 1
      BY <2>5, <2>6, <3>1
    <3>2. CASE i # n + 1
      <4>1. i \in 1 .. n /\ i \in 1 .. N
        BY <3>2, <1>1
      <4>2. c[a] = ByteFor(elements[i], a)
        BY <2>4, <2>6, <4>1
      <4>3. Agree(x, elements[i])
        BY <1>2, <2>1, <4>1
      <4>4. Covers(x, a) => ByteFor(x, a) = ByteFor(elements[i], a)
        BY <2>6, <4>3 DEF Agree
      <4> QED BY <2>5, <4>2, <4>4
    <3> QED BY <3>1, <3>2
  <2> QED BY <1>1, <2>1, <2>6 DEF d
<1> HIDE DEF S
<1>6. \A n \in 0 .. N : n \in S
  BY <1>1, <1>4, <1>5, CountUp
<1>7. N \in S
  BY <1>1, <1>6
<1> QED BY <1>3, <1>7 DEF S

-----------------------------------------------------------------------------
(* What setup_stack stores.                                                 *)

(* What a sequence holds.                                                   *)
Elems(s) == {s[i] : i \in 1 .. Len(s)}

(* Of one sequence behind another.                                          *)
LEMMA ConcatElems ==
    ASSUME NEW S, NEW s \in Seq(S), NEW t \in Seq(S)
    PROVE  s \o t \in Seq(S) /\ Elems(s \o t) = Elems(s) \cup Elems(t)
<1> DEFINE m == Len(s)
           n == Len(t)
           u == s \o t
<1>1. m \in Nat /\ n \in Nat
  BY LenProperties
<1>2. /\ u \in Seq(S) /\ Len(u) = m + n
      /\ \A i \in 1 .. m + n : u[i] = IF i <= m THEN s[i] ELSE t[i - m]
  BY ConcatProperties
<1>3. /\ Elems(s) = {s[i] : i \in 1 .. m} /\ Elems(t) = {t[i] : i \in 1 .. n}
      /\ Elems(u) = {u[i] : i \in 1 .. m + n}
  BY <1>2 DEF Elems
<1> HIDE DEF m, n, u
<1>4. ASSUME NEW x \in Elems(u) PROVE x \in Elems(s) \cup Elems(t)
  <2>1. PICK i \in 1 .. m + n : x = u[i]
    BY <1>3
  <2>2. CASE i <= m
    <3>1. i \in 1 .. m
      BY <1>1, <2>2
    <3> QED BY <1>2, <1>3, <2>1, <2>2, <3>1
  <2>3. CASE ~(i <= m)
    <3>1. i - m \in 1 .. n
      BY <1>1, <2>3
    <3> QED BY <1>2, <1>3, <2>1, <2>3, <3>1
  <2> QED BY <2>2, <2>3
<1>5. ASSUME NEW x \in Elems(s) PROVE x \in Elems(u)
  <2>1. PICK i \in 1 .. m : x = s[i]
    BY <1>3
  <2>2. i \in 1 .. m + n /\ i <= m
    BY <1>1
  <2>3. u[i] = s[i]
    BY <1>2, <2>2
  <2> QED BY <1>3, <2>1, <2>2, <2>3
<1>6. ASSUME NEW x \in Elems(t) PROVE x \in Elems(u)
  <2>1. PICK i \in 1 .. n : x = t[i]
    BY <1>3
  <2>2. m + i \in 1 .. m + n /\ ~(m + i <= m) /\ (m + i) - m = i
    BY <1>1
  <2>3. u[m + i] = t[i]
    BY <1>2, <2>2
  <2> QED BY <1>3, <2>1, <2>2, <2>3
<1>7. Elems(u) = Elems(s) \cup Elems(t)
  BY <1>4, <1>5, <1>6
<1> QED BY <1>2, <1>7 DEF u

(* Of one turned round.                                                     *)
LEMMA ReverseElems ==
    ASSUME NEW S, NEW s \in Seq(S)
    PROVE  Reverse(s) \in Seq(S) /\ Elems(Reverse(s)) = Elems(s)
<1> DEFINE n == Len(s)
           r == [i \in 1 .. n |-> s[(n - i) + 1]]
<1>1. n \in Nat /\ \A i \in 1 .. n : s[i] \in S
  BY LenProperties, ElementOfSeq
<1>2. Reverse(s) = r
  BY DEF Reverse
<1>3. Elems(s) = {s[i] : i \in 1 .. n}
  BY DEF Elems
<1> HIDE DEF n
<1>4. \A i \in 1 .. n : (n - i) + 1 \in 1 .. n /\ (n - ((n - i) + 1)) + 1 = i
  BY <1>1
<1>5. r \in [1 .. n -> S]
  BY <1>1, <1>4
<1>6. r \in Seq(S) /\ Len(r) = n
  BY <1>1, <1>5, AsSequence
<1>7. Elems(r) = {r[i] : i \in 1 .. n}
  BY <1>6 DEF Elems
<1>8. \A i \in 1 .. n : r[i] = s[(n - i) + 1] /\ r[(n - i) + 1] = s[i]
  BY <1>4
<1> HIDE DEF r
<1>9. ASSUME NEW x PROVE x \in Elems(r) <=> x \in Elems(s)
  BY <1>3, <1>4, <1>7, <1>8
<1> QED BY <1>2, <1>6, <1>9

(* A multiple leaves nothing over.                                          *)
LEMMA Multiple ==
    ASSUME NEW z \in Int, NEW l \in Nat \ {0}
    PROVE  (l * z) % l = 0
<1> DEFINE x == l * z
           d == x \div l
           r == x % l
           k == z - d
<1>1. x \in Int /\ d \in Int /\ r \in Int /\ 0 <= r /\ r < l /\ x = l * d + r
  OBVIOUS
<1>2. k \in Int /\ z = d + k
  BY <1>1
<1>3. x = l * z
  OBVIOUS
<1> HIDE DEF x, d, r, k
<1>4. l * z = l * d + l * k /\ l * k \in Int /\ l * d \in Int
  BY <1>1, <1>2
<1>5. r = l * k
  BY <1>1, <1>3, <1>4
<1>6. k >= 1 => l * k >= l
  BY <1>2
<1>7. k <= -1 => l * k <= -l
  BY <1>2
<1>8. k = 0 => l * k = 0
  BY <1>2
<1>9. r = 0
  BY <1>1, <1>2, <1>5, <1>6, <1>7, <1>8
<1> QED BY <1>9 DEF r, x

(* An element of the stack of a new program: string i with the 0 behind it. *)
StringPut(strings, i) == PutAt(TASK_SIZE - Taken(strings, i), Append(strings[i], 0))
(* Word k from esp on: argc, argv, envp and what these two point to.        *)
Slot(strings, a, e, esp, k) ==
    IF k = 0 THEN a
    ELSE IF k = 1 THEN esp + 3 * WORD
    ELSE IF k = 2 THEN esp + WORD * (a + 4)
    ELSE IF k <= a + 2 THEN TASK_SIZE - Taken(strings, k - 2)
    ELSE IF k = a + 3 THEN 0
    ELSE IF k <= a + e + 3 THEN TASK_SIZE - Taken(strings, k - 3)
    ELSE 0
SlotPut(strings, a, e, esp, k) == PutAt(esp + WORD * k, Word(Slot(strings, a, e, esp, k)))

(* Entry i of a table of pointers to the n strings from one on.             *)
PointerPut(strings, from, n, base, i) ==
    PutAt(base + WORD * (i - 1), Word(IF i <= n THEN TASK_SIZE - Taken(strings, from + i - 1) ELSE 0))

(* A table of pointers has these.                                           *)
LEMMA PointersSlots ==
    ASSUME NEW strings \in Seq(Seq(Byte)), NEW from \in Nat \ {0}, NEW n \in Nat, NEW base \in Int
    PROVE  /\ Pointers(base, Addresses(strings, from, n)) \in Seq(Given)
           /\ Len(Pointers(base, Addresses(strings, from, n))) = n + 1
           /\ \A i \in 1 .. n + 1 :
                 Pointers(base, Addresses(strings, from, n))[i] = PointerPut(strings, from, n, base, i)
<1> DEFINE addrs == Addresses(strings, from, n)
           t == Pointers(base, addrs)
           X(i) == PointerPut(strings, from, n, base, i)
<1>1. addrs \in Seq(Int)
  BY AddressesType
<1>2. Len(addrs) = n /\ \A i \in 1 .. n : addrs[i] = TASK_SIZE - Taken(strings, from + i - 1)
  BY <1>1 DEF Addresses, Taken
<1> HIDE DEF addrs
<1>3. t \in Seq(Given)
  BY <1>1, PointersGiven
<1>4. t = [i \in 1 .. n + 1 |-> PutAt(base + WORD * (i - 1), Word(IF i <= n THEN addrs[i] ELSE 0))]
  BY <1>2 DEF Pointers
<1>5. \A i \in 1 .. n + 1 : (IF i <= n THEN addrs[i] ELSE 0)
                            = (IF i <= n THEN TASK_SIZE - Taken(strings, from + i - 1) ELSE 0)
  BY <1>2
<1>6. \A i \in 1 .. n + 1 : t[i] = X(i)
  BY <1>4, <1>5 DEF PointerPut
<1>7. Len(t) = n + 1
  <2>1. DOMAIN t = 1 .. n + 1 /\ DOMAIN t = 1 .. Len(t) /\ Len(t) \in Nat
    BY <1>3, <1>4, LenProperties
  <2> QED BY <1>3, <1>4
<1> QED BY <1>3, <1>6, <1>7 DEF addrs

(* Words around the three bases.                                            *)
LEMMA WordPlaces ==
    ASSUME NEW a \in Nat, NEW e \in Nat, NEW p \in Int,
           NEW eb, eb = p - (p % WORD) - WORD * (e + 1),
           NEW ab, ab = eb - WORD * (a + 1),
           NEW esp, esp = ab - 3 * WORD
    PROVE  /\ eb \in Int /\ ab \in Int /\ esp \in Int
           /\ ab = esp + 3 * WORD /\ eb = esp + WORD * (a + 4)
           /\ esp + WORD * (a + e + 5) <= p /\ esp % WORD = 0
<1> DEFINE W == WORD
           q == p \div W
           r == p % W
           z == q - (a + e + 5)
<1>1. W \in Nat \ {0} /\ q \in Int /\ r \in Int /\ 0 <= r /\ p = W * q + r
  <2>1. W \in Nat \ {0}
    BY Constants
  <2> HIDE DEF W
  <2> QED BY <2>1
<1>2. eb = p - r - W * (e + 1) /\ ab = eb - W * (a + 1) /\ esp = ab - 3 * W
  OBVIOUS
<1> HIDE DEF W, q, r
<1>3. eb \in Int /\ ab \in Int /\ esp \in Int
  BY <1>1, <1>2
<1>4. ab = esp + 3 * W
  BY <1>2, <1>3, <1>1
<1>5. eb = esp + W * (a + 4)
  <2>1. W * (a + 4) = W * (a + 1) + 3 * W
    BY <1>1
  <2>2. W * (a + 1) \in Int /\ 3 * W \in Int
    BY <1>1
  <2> QED BY <1>2, <1>3, <2>1, <2>2
<1>6. esp = W * z
  <2>1. W * z = W * q - W * (e + 1) - W * (a + 1) - 3 * W
    BY <1>1
  <2>2. W * q \in Int /\ W * (e + 1) \in Int /\ W * (a + 1) \in Int /\ 3 * W \in Int
    BY <1>1
  <2> QED BY <1>1, <1>2, <1>3, <2>1, <2>2
<1>7. esp % W = 0
  BY <1>1, <1>6, Multiple
<1>8. esp + W * (a + e + 5) = W * q
  <2>1. W * z + W * (a + e + 5) = W * q
    BY <1>1
  <2> HIDE DEF z
  <2> QED BY <1>6, <2>1
<1>9. esp + W * (a + e + 5) <= p
  <2>1. W * q \in Int
    BY <1>1
  <2> QED BY <1>1, <1>8, <2>1
<1> QED BY <1>3, <1>4, <1>5, <1>7, <1>9 DEF W

(* What setup_stack stores: every string, and the words below them.         *)
MadeOf(elements, strings, a, e, esp) ==
    /\ \A i \in 1 .. a + e : StringPut(strings, i) \in elements
    /\ \A k \in 0 .. a + e + 4 : SlotPut(strings, a, e, esp, k) \in elements
    /\ \A x \in elements :
          \/ \E i \in 1 .. a + e : x = StringPut(strings, i)
          \/ \E k \in 0 .. a + e + 4 : x = SlotPut(strings, a, e, esp, k)

(* That is what setup_stack comes to, and the words end below the strings.  *)
LEMMA ImageElements ==
    ASSUME NEW argv \in Seq(Seq(Byte)), NEW envp \in Seq(Seq(Byte)),
           NEW strings, strings = argv \o envp, NEW a, a = Len(argv), NEW e, e = Len(envp),
           NEW esp, esp = StackImage(argv, envp).esp,
           NEW writes, writes = StackImage(argv, envp).writes
    PROVE  /\ strings \in Seq(Seq(Byte)) /\ a \in Nat /\ e \in Nat /\ Len(strings) = a + e
           /\ writes \in Seq(Given) /\ esp \in Int /\ esp % WORD = 0
           /\ esp + WORD * (a + e + 5) <= TASK_SIZE - Taken(strings, 1)
           /\ MadeOf(Elems(writes), strings, a, e, esp)
<1> DEFINE p    == TASK_SIZE - Extent(strings)
           eb   == p - (p % WORD) - WORD * (e + 1)
           ab   == eb - WORD * (a + 1)
           esp0 == ab - 3 * WORD
           text == [i \in DOMAIN strings |->
                       PutAt(TASK_SIZE - Extent(SubSeq(strings, i, Len(strings))), Append(strings[i], 0))]
           three == << PutAt(esp0 + 2 * WORD, Word(eb)), PutAt(esp0 + WORD, Word(ab)), PutAt(esp0, Word(a)) >>
           args == Pointers(ab, Addresses(strings, 1, a))
           envs == Pointers(eb, Addresses(strings, a + 1, e))
           rest == {SlotPut(strings, a, e, esp, k) : k \in 0 .. a + e + 4}
<1>1. esp = esp0 /\ writes = Reverse(text) \o three \o args \o envs
  BY DEF StackImage
<1>2. a \in Nat /\ e \in Nat
  BY LenProperties
<1>3. strings \in Seq(Seq(Byte)) /\ Len(strings) = a + e
  <2> DEFINE B == Seq(Byte)
  <2>1. argv \in Seq(B) /\ envp \in Seq(B)
    OBVIOUS
  <2> HIDE DEF B
  <2>2. argv \o envp \in Seq(B) /\ Len(argv \o envp) = Len(argv) + Len(envp)
    BY <2>1, ConcatProperties
  <2> QED BY <2>2 DEF B
<1>4. p \in Int /\ p = TASK_SIZE - Taken(strings, 1)
  <2>1. Extent(strings) \in Nat
    BY ONLY <1>3, ExtentType
  <2>2. Taken(strings, 1) = Extent(strings)
    BY ONLY <1>3, TakenFacts
  <2> QED BY <2>1, <2>2, Constants
<1> HIDE DEF p
<1>5. eb = p - (p % WORD) - WORD * (e + 1) /\ ab = eb - WORD * (a + 1) /\ esp = ab - 3 * WORD
  BY <1>1
<1> HIDE DEF eb, ab, esp0
<1>6. /\ eb \in Int /\ ab \in Int /\ esp \in Int
      /\ ab = esp + 3 * WORD /\ eb = esp + WORD * (a + 4)
      /\ esp + WORD * (a + e + 5) <= p /\ esp % WORD = 0
  BY ONLY <1>2, <1>4, <1>5, WordPlaces
<1>7. text \in Seq(Given) /\ Elems(text) = {StringPut(strings, i) : i \in 1 .. a + e}
  <2> DEFINE n == a + e
  <2>1. n \in Nat /\ DOMAIN strings = 1 .. n /\ Len(strings) = n
    BY <1>2, <1>3, LenProperties
  <2>2. \A i \in 1 .. n : strings[i] \in Seq(Byte)
    BY <1>3, <2>1, ElementOfSeq
  <2>3. text = [i \in 1 .. n |-> StringPut(strings, i)]
    BY <2>1 DEF StringPut, Taken
  <2> HIDE DEF n, text
  <2>4. ASSUME NEW i \in 1 .. n PROVE StringPut(strings, i) \in Given
    <3>1. TASK_SIZE - Taken(strings, i) \in Int
      <4>1. Taken(strings, i) \in Nat
        <5>1. i \in 1 .. n + 1 /\ n = Len(strings)
          BY <2>1
        <5> QED BY ONLY <1>3, <5>1, TakenFacts
      <4> QED BY <4>1, Constants
    <3>2. Append(strings[i], 0) \in Seq(Byte)
      <4>1. strings[i] \in Seq(Byte) /\ 0 \in Byte
        BY <2>2, Constants
      <4> HIDE DEF Byte
      <4> QED BY <4>1, AppendProperties
    <3> QED BY <3>1, <3>2, PutGiven DEF StringPut
  <2>5. text \in [1 .. n -> Given]
    BY <2>3, <2>4
  <2>6. text \in Seq(Given) /\ Len(text) = n
    BY <2>1, <2>5, AsSequence
  <2>7. \A i \in 1 .. n : text[i] = StringPut(strings, i)
    BY <2>3
  <2>8. Elems(text) = {StringPut(strings, i) : i \in 1 .. n}
    BY <2>6, <2>7 DEF Elems
  <2> QED BY <2>6, <2>8 DEF n
<1> HIDE DEF text
<1>8. three \in Seq(Given) /\ Elems(three) = {SlotPut(strings, a, e, esp, k) : k \in 0 .. 2}
  <2> DEFINE x == PutAt(esp + 2 * WORD, Word(eb))
             y == PutAt(esp + WORD, Word(ab))
             z == PutAt(esp, Word(a))
  <2>1. three = <<x, y, z>>
    BY <1>1
  <2>2. x \in Given /\ y \in Given /\ z \in Given
    <3>1. Word(eb) \in Seq(Byte) /\ Word(ab) \in Seq(Byte) /\ Word(a) \in Seq(Byte)
      BY <1>2, <1>6, WordType
    <3>2. esp + 2 * WORD \in Int /\ esp + WORD \in Int
      <4>1. esp \in Int
        BY ONLY <1>6
      <4>2. WORD \in Nat
        BY ONLY Constants
      <4> QED BY ONLY <4>1, <4>2
    <3> HIDE DEF Byte
    <3> QED BY <3>1, <3>2, <1>6, PutGiven
  <2>3. x = SlotPut(strings, a, e, esp, 2)
    <3>1. Slot(strings, a, e, esp, 2) = eb
      BY <1>6 DEF Slot
    <3>2. esp + WORD * 2 = esp + 2 * WORD
      BY <1>6, Constants
    <3> QED BY <3>1, <3>2 DEF SlotPut, PointerPut
  <2>4. y = SlotPut(strings, a, e, esp, 1)
    <3>1. Slot(strings, a, e, esp, 1) = ab
      BY <1>6 DEF Slot
    <3>2. esp + WORD * 1 = esp + WORD
      BY <1>6, Constants
    <3> QED BY <3>1, <3>2 DEF SlotPut, PointerPut
  <2>5. z = SlotPut(strings, a, e, esp, 0)
    <3>1. Slot(strings, a, e, esp, 0) = a
      BY DEF Slot
    <3>2. esp + WORD * 0 = esp
      BY <1>6, Constants
    <3> QED BY <3>1, <3>2 DEF SlotPut, PointerPut
  <2> HIDE DEF x, y, z, three
  <2>6. three \in Seq(Given) /\ Elems(three) = {x, y, z}
    <3>1. Len(three) = 3 /\ three[1] = x /\ three[2] = y /\ three[3] = z /\ three \in Seq(Given)
      BY <2>1, <2>2
    <3>2. \A i : i \in 1 .. 3 <=> i = 1 \/ i = 2 \/ i = 3
      OBVIOUS
    <3> QED BY <3>1, <3>2 DEF Elems
  <2>7. \A k : k \in 0 .. 2 <=> k = 0 \/ k = 1 \/ k = 2
    OBVIOUS
  <2>8. {SlotPut(strings, a, e, esp, k) : k \in 0 .. 2} = {z, y, x}
    BY <2>3, <2>4, <2>5, <2>7
  <2> QED BY <2>6, <2>8
<1> HIDE DEF three
<1>9. args \in Seq(Given) /\ Elems(args) = {SlotPut(strings, a, e, esp, k) : k \in 3 .. a + 3}
  <2> DEFINE X(i) == PointerPut(strings, 1, a, ab, i)
  <2>1. args \in Seq(Given) /\ Elems(args) = {X(i) : i \in 1 .. a + 1}
    <3>1. 1 \in Nat \ {0} /\ strings \in Seq(Seq(Byte)) /\ a \in Nat /\ ab \in Int
      BY <1>2, <1>3, <1>6
    <3> HIDE DEF Byte
    <3>2. args \in Seq(Given) /\ Len(args) = a + 1 /\ \A i \in 1 .. a + 1 : args[i] = X(i)
      BY ONLY <3>1, PointersSlots
    <3> HIDE DEF args, X
    <3> QED BY <3>2 DEF Elems
  <2>2. ASSUME NEW i \in 1 .. a + 1 PROVE X(i) = SlotPut(strings, a, e, esp, i + 2)
    <3>1. ab + WORD * (i - 1) = esp + WORD * (i + 2)
      <4>1. WORD * (i + 2) = WORD * (i - 1) + 3 * WORD
        BY <1>2, Constants
      <4>2. WORD * (i - 1) \in Int /\ 3 * WORD \in Int
        BY <1>2, Constants
      <4> QED BY ONLY <1>6, <4>1, <4>2
    <3>2. Slot(strings, a, e, esp, i + 2) = IF i <= a THEN TASK_SIZE - Taken(strings, 1 + i - 1) ELSE 0
      <4>1. /\ i + 2 # 0 /\ i + 2 # 1 /\ i + 2 # 2 /\ (i + 2 <= a + 2 <=> i <= a) /\ (i + 2) - 2 = 1 + i - 1
            /\ (~(i <= a) => i + 2 = a + 3)
        BY <1>2
      <4> QED BY <4>1 DEF Slot
    <3> QED BY <3>1, <3>2 DEF SlotPut, PointerPut
  <2> HIDE DEF X
  <2>3. \A k \in 3 .. a + 3 : k - 2 \in 1 .. a + 1 /\ (k - 2) + 2 = k
    BY <1>2
  <2>4. \A i \in 1 .. a + 1 : i + 2 \in 3 .. a + 3
    BY <1>2
  <2>5. {X(i) : i \in 1 .. a + 1} = {SlotPut(strings, a, e, esp, k) : k \in 3 .. a + 3}
    <3>1. ASSUME NEW k \in 3 .. a + 3 PROVE \E i \in 1 .. a + 1 : X(i) = SlotPut(strings, a, e, esp, k)
      <4>1. X(k - 2) = SlotPut(strings, a, e, esp, (k - 2) + 2)
        BY <2>2, <2>3
      <4> QED BY <2>3, <4>1
    <3> QED BY <2>2, <2>4, <3>1
  <2> QED BY <2>1, <2>5
<1> HIDE DEF args
<1>10. envs \in Seq(Given) /\ Elems(envs) = {SlotPut(strings, a, e, esp, k) : k \in a + 4 .. a + e + 4}
  <2> DEFINE X(i) == PointerPut(strings, a + 1, e, eb, i)
  <2>1. envs \in Seq(Given) /\ Elems(envs) = {X(i) : i \in 1 .. e + 1}
    <3>1. a + 1 \in Nat \ {0} /\ strings \in Seq(Seq(Byte)) /\ e \in Nat /\ eb \in Int
      BY <1>2, <1>3, <1>6
    <3>2. envs \in Seq(Given) /\ Len(envs) = e + 1 /\ \A i \in 1 .. e + 1 : envs[i] = X(i)
      BY ONLY <3>1, PointersSlots
    <3> HIDE DEF envs, X
    <3> QED BY <3>2 DEF Elems
  <2>2. ASSUME NEW i \in 1 .. e + 1 PROVE X(i) = SlotPut(strings, a, e, esp, i + (a + 3))
    <3>1. eb + WORD * (i - 1) = esp + WORD * (i + (a + 3))
      <4> DEFINE W == WORD
                 r == W * (i - 1)
                 s == W * (a + 4)
      <4>5. W \in Nat
        BY ONLY Constants
      <4> HIDE DEF W
      <4>1. W * (i + (a + 3)) = r + s
        BY ONLY <1>2, <4>5
      <4>2. r \in Int /\ s \in Int
        BY ONLY <1>2, <4>5
      <4>3. esp \in Int /\ eb = esp + s
        BY ONLY <1>6 DEF W
      <4> HIDE DEF r, s
      <4>4. eb + r = esp + (r + s)
        BY ONLY <4>2, <4>3
      <4> QED BY <4>1, <4>4 DEF r, W
    <3>2. Slot(strings, a, e, esp, i + (a + 3)) = IF i <= e THEN TASK_SIZE - Taken(strings, (a + 1) + i - 1) ELSE 0
      <4> DEFINE k == i + (a + 3)
      <4>1. /\ k # 0 /\ k # 1 /\ k # 2 /\ ~(k <= a + 2) /\ k # a + 3
            /\ (k <= a + e + 3 <=> i <= e) /\ k - 3 = (a + 1) + i - 1
        BY <1>2
      <4> HIDE DEF k
      <4>2. Slot(strings, a, e, esp, k) = IF i <= e THEN TASK_SIZE - Taken(strings, (a + 1) + i - 1) ELSE 0
        BY <4>1 DEF Slot
      <4> QED BY <4>2 DEF k
    <3> QED BY <3>1, <3>2 DEF SlotPut, PointerPut
  <2> HIDE DEF X
  <2>3. \A k \in a + 4 .. a + e + 4 : k - (a + 3) \in 1 .. e + 1 /\ (k - (a + 3)) + (a + 3) = k
    BY <1>2
  <2>4. \A i \in 1 .. e + 1 : i + (a + 3) \in a + 4 .. a + e + 4
    BY <1>2
  <2>5. {X(i) : i \in 1 .. e + 1} = {SlotPut(strings, a, e, esp, k) : k \in a + 4 .. a + e + 4}
    <3>1. ASSUME NEW k \in a + 4 .. a + e + 4 PROVE \E i \in 1 .. e + 1 : X(i) = SlotPut(strings, a, e, esp, k)
      <4>1. X(k - (a + 3)) = SlotPut(strings, a, e, esp, (k - (a + 3)) + (a + 3))
        BY <2>2, <2>3
      <4> QED BY <2>3, <4>1
    <3> QED BY <2>2, <2>4, <3>1
  <2> QED BY <2>1, <2>5
<1> HIDE DEF envs
<1>11. writes \in Seq(Given) /\ Elems(writes) = ((Elems(text) \cup Elems(three)) \cup Elems(args)) \cup Elems(envs)
  <2> DEFINE r == Reverse(text)
             s == r \o three
             t == s \o args
  <2>1. writes = t \o envs
    BY <1>1
  <2>2. r \in Seq(Given) /\ Elems(r) = Elems(text)
    BY <1>7, ReverseElems
  <2> HIDE DEF r
  <2>3. s \in Seq(Given) /\ Elems(s) = Elems(r) \cup Elems(three)
    BY <1>8, <2>2, ConcatElems
  <2> HIDE DEF s
  <2>4. t \in Seq(Given) /\ Elems(t) = Elems(s) \cup Elems(args)
    BY <1>9, <2>3, ConcatElems
  <2> HIDE DEF t
  <2>5. writes \in Seq(Given) /\ Elems(writes) = Elems(t) \cup Elems(envs)
    BY <1>10, <2>1, <2>4, ConcatElems
  <2> QED BY <2>2, <2>3, <2>4, <2>5
<1>12. \A k : k \in 0 .. a + e + 4 <=> k \in 0 .. 2 \/ k \in 3 .. a + 3 \/ k \in a + 4 .. a + e + 4
  BY <1>2
<1>13. rest = (Elems(three) \cup Elems(args)) \cup Elems(envs)
  <2>1. ASSUME NEW x PROVE x \in rest <=> x \in Elems(three) \/ x \in Elems(args) \/ x \in Elems(envs)
    BY <1>8, <1>9, <1>10, <1>12
  <2> QED BY <2>1
<1>14. MadeOf(Elems(writes), strings, a, e, esp)
  BY <1>7, <1>11, <1>13 DEF MadeOf
<1> QED BY <1>2, <1>3, <1>4, <1>6, <1>11, <1>14

(* The place of a string.                                                   *)
LEMMA StringPutFacts ==
    ASSUME NEW strings \in Seq(Seq(Byte)), NEW i \in 1 .. Len(strings), NEW x, x = StringPut(strings, i)
    PROVE  /\ x \in Given /\ x.at = TASK_SIZE - Taken(strings, i) /\ x.at \in Int
           /\ strings[i] \in Seq(Byte) /\ Len(strings[i]) \in Nat
           /\ Len(x.data) = Len(strings[i]) + 1 /\ x.data[Len(strings[i]) + 1] = 0
           /\ \A k \in 1 .. Len(strings[i]) : x.data[k] = strings[i][k]
           /\ \A a \in Int : Covers(x, a) => TASK_SIZE - Taken(strings, i) <= a
                                             /\ a < TASK_SIZE - Taken(strings, i + 1)
<1> DEFINE n == Len(strings)
           s == strings[i]
           l == Len(s)
           t == Taken(strings, i)
           u == Taken(strings, i + 1)
<1>1. n \in Nat /\ s \in Seq(Byte) /\ l \in Nat
  <2>1. n \in Nat /\ s \in Seq(Byte)
    BY LenProperties, ElementOfSeq
  <2> QED BY <2>1, LenProperties
<1>2. t \in Nat /\ u \in Nat /\ t = u + l + 1
  <2>1. i \in 1 .. n /\ i \in 1 .. n + 1 /\ i + 1 \in 1 .. n + 1 /\ n = Len(strings)
    BY <1>1
  <2> HIDE DEF n
  <2> QED BY <2>1, TakenFacts
<1>3. Append(s, 0) \in Seq(Byte) /\ Len(Append(s, 0)) = l + 1 /\ Append(s, 0)[l + 1] = 0
      /\ \A k \in 1 .. l : Append(s, 0)[k] = s[k]
  <2> DEFINE B == Byte
  <2>1. s \in Seq(B) /\ 0 \in B
    BY <1>1, Constants
  <2> HIDE DEF B, s
  <2>2. Append(s, 0) \in Seq(B) /\ Len(Append(s, 0)) = l + 1
    BY <2>1, AppendProperties
  <2>3. \A k \in 1 .. l : Append(s, 0)[k] = s[k]
    BY <2>1, AppendProperties
  <2>4. Append(s, 0)[l + 1] = 0
    BY <2>1, AppendProperties
  <2> QED BY <2>2, <2>3, <2>4 DEF B
<1>4. x.at = TASK_SIZE - t /\ x.data = Append(s, 0)
  BY DEF StringPut, PutAt
<1>5. TASK_SIZE - t \in Int
  BY <1>2, Constants
<1>6. x \in Given
  <2> HIDE DEF s, t, Byte
  <2>1. PutAt(TASK_SIZE - t, Append(s, 0)) \in Given
    BY <1>3, <1>5, PutGiven
  <2> QED BY <2>1 DEF StringPut, s, t
<1> HIDE DEF s, l, t, u
<1>7. ASSUME NEW a \in Int, Covers(x, a) PROVE TASK_SIZE - t <= a /\ a < TASK_SIZE - u
  <2>1. a - (TASK_SIZE - t) + 1 \in 1 .. l + 1
    BY <1>3, <1>4, <1>7 DEF Covers
  <2> QED BY <1>1, <1>2, <2>1, Constants
<1> QED BY <1>1, <1>3, <1>4, <1>5, <1>6, <1>7 DEF s, l, t, u

(* The place of a word.                                                     *)
LEMMA SlotPutFacts ==
    ASSUME NEW v \in Int, NEW at \in Int, NEW x, x = PutAt(at, Word(v))
    PROVE  /\ x \in Given /\ x.at = at /\ x.data = Word(v) /\ Len(x.data) = WORD
           /\ \A a \in Int : Covers(x, a) => at <= a /\ a < at + WORD
<1>1. Word(v) \in Seq(Byte) /\ WORD \in Nat
  BY WordType, Constants
<1>2. x \in Given
  BY <1>1, PutGiven
<1>3. x.at = at /\ x.data = Word(v)
  BY DEF PutAt
<1>4. Len(Word(v)) = WORD
  <2>1. PICK rest : Word(v) = [i \in 1 .. WORD |-> rest[i - 1] % BASE]
    BY WordUnfolds
  <2>2. DOMAIN Word(v) = 1 .. WORD
    BY <2>1
  <2> QED BY <1>1, <2>2, LenProperties
<1>5. ASSUME NEW a \in Int, Covers(x, a) PROVE at <= a /\ a < at + WORD
  <2>1. a - at + 1 \in 1 .. WORD
    BY <1>3, <1>4, <1>5 DEF Covers
  <2> QED BY <1>1, <2>1
<1> QED BY <1>2, <1>3, <1>4, <1>5

(* A slot is a number, and its place is below the strings.                  *)
LEMMA SlotFacts ==
    ASSUME NEW strings \in Seq(Seq(Byte)), NEW a \in Nat, NEW e \in Nat, Len(strings) = a + e,
           NEW esp \in Int, NEW k \in 0 .. a + e + 4
    PROVE  /\ Slot(strings, a, e, esp, k) \in Int /\ esp + WORD * k \in Int
           /\ (esp + WORD * k) + WORD <= esp + WORD * (a + e + 5)
<1>1. \A i \in 1 .. a + e + 1 : TASK_SIZE - Taken(strings, i) \in Int
  <2> SUFFICES ASSUME NEW i \in 1 .. a + e + 1 PROVE TASK_SIZE - Taken(strings, i) \in Int
    OBVIOUS
  <2>1. Taken(strings, i) \in Nat
    BY TakenFacts
  <2> QED BY <2>1, Constants
<1>2. Slot(strings, a, e, esp, k) \in Int
  <2>1. WORD * (a + 4) \in Int /\ 3 * WORD \in Int
    BY Constants
  <2>2. k # 0 /\ k # 1 /\ k # 2 /\ k <= a + 2 => k - 2 \in 1 .. a + e + 1
    OBVIOUS
  <2>3. ~(k <= a + 2) /\ k # a + 3 /\ k <= a + e + 3 => k - 3 \in 1 .. a + e + 1
    OBVIOUS
  <2> QED BY <1>1, <2>1, <2>2, <2>3 DEF Slot
<1>3. esp + WORD * k \in Int
  BY Constants
<1>4. (esp + WORD * k) + WORD <= esp + WORD * (a + e + 5)
  <2> DEFINE d == a + e + 4 - k
             W == WORD
  <2>1. d \in Nat /\ a + e + 5 = k + 1 + d /\ W \in Nat
    BY Constants
  <2> HIDE DEF d, W
  <2>2. W * (a + e + 5) = W * k + W + W * d /\ W * d \in Nat /\ W * k \in Nat
    BY <2>1
  <2>3. (esp + W * k) + W <= esp + W * (a + e + 5)
    BY <2>1, <2>2
  <2> QED BY <2>3 DEF W
<1> QED BY <1>2, <1>3, <1>4

(* No two of them overlap: the strings lie one behind the other, the words  *)
(* lie one behind the other, and these lie below those.                     *)
LEMMA ImageAgrees ==
    ASSUME NEW strings \in Seq(Seq(Byte)), NEW a \in Nat, NEW e \in Nat, Len(strings) = a + e,
           NEW esp \in Int, esp + WORD * (a + e + 5) <= TASK_SIZE - Taken(strings, 1)
    PROVE  /\ \A i, j \in 1 .. a + e : Agree(StringPut(strings, i), StringPut(strings, j))
           /\ \A k, l \in 0 .. a + e + 4 : Agree(SlotPut(strings, a, e, esp, k), SlotPut(strings, a, e, esp, l))
           /\ \A i \in 1 .. a + e : \A k \in 0 .. a + e + 4 :
                 /\ Agree(StringPut(strings, i), SlotPut(strings, a, e, esp, k))
                 /\ Agree(SlotPut(strings, a, e, esp, k), StringPut(strings, i))
<1>1. TASK_SIZE \in Nat /\ Addr \subseteq Int
  BY Constants DEF Addr
<1> DEFINE low(i) == TASK_SIZE - Taken(strings, i)
           at(k) == esp + WORD * k
<1>2. \A i \in 1 .. a + e + 1 : low(i) \in Int
  <2> SUFFICES ASSUME NEW i \in 1 .. a + e + 1 PROVE TASK_SIZE - Taken(strings, i) \in Int
    OBVIOUS
  <2>1. Taken(strings, i) \in Nat
    BY TakenFacts
  <2> QED BY <2>1, <1>1
<1>3. ASSUME NEW i \in 1 .. a + e + 1, NEW j \in 1 .. a + e + 1, i <= j PROVE low(i) <= low(j)
  <2>1. Taken(strings, j) <= Taken(strings, i)
    BY <1>3, TakenFalls
  <2>2. Taken(strings, j) \in Nat /\ Taken(strings, i) \in Nat
    BY TakenFacts
  <2> QED BY <1>1, <2>1, <2>2
<1>4. ASSUME NEW i \in 1 .. a + e, NEW b \in Int, Covers(StringPut(strings, i), b)
      PROVE  low(i) <= b /\ b < low(i + 1)
  BY <1>4, StringPutFacts
<1>5. ASSUME NEW k \in 0 .. a + e + 4, NEW b \in Int, Covers(SlotPut(strings, a, e, esp, k), b)
      PROVE  at(k) <= b /\ b < at(k) + WORD
  <2>1. Slot(strings, a, e, esp, k) \in Int /\ esp + WORD * k \in Int
    BY SlotFacts
  <2> QED BY <1>5, <2>1, SlotPutFacts DEF SlotPut
<1>6. ASSUME NEW k \in 0 .. a + e + 4 PROVE at(k) \in Int /\ at(k) + WORD <= low(1)
  <2>1. at(k) \in Int /\ at(k) + WORD <= esp + WORD * (a + e + 5)
    BY SlotFacts
  <2>2. esp + WORD * (a + e + 5) \in Int /\ 1 \in 1 .. a + e + 1
    BY Constants
  <2>3. low(1) \in Int
    BY <1>2, <2>2
  <2>4. esp + WORD * (a + e + 5) <= low(1)
    OBVIOUS
  <2> HIDE DEF low, at
  <2> QED BY <2>1, <2>2, <2>3, <2>4, Constants
<1>7. ASSUME NEW k \in 0 .. a + e + 4, NEW l \in 0 .. a + e + 4, k < l PROVE at(k) + WORD <= at(l)
  <2> DEFINE d == l - k - 1
             W == WORD
  <2>1. d \in Nat /\ l = k + 1 + d /\ W \in Nat
    BY <1>7, Constants
  <2> HIDE DEF d, W
  <2>2. W * l = W * k + W + W * d /\ W * d \in Nat /\ W * k \in Nat
    BY <2>1
  <2>3. (esp + W * k) + W <= esp + W * l
    BY <2>1, <2>2
  <2> QED BY <2>3 DEF W
<1> HIDE DEF low, at
<1>8. ASSUME NEW i \in 1 .. a + e, NEW j \in 1 .. a + e
      PROVE  Agree(StringPut(strings, i), StringPut(strings, j))
  <2> SUFFICES ASSUME NEW b \in Addr, Covers(StringPut(strings, i), b), Covers(StringPut(strings, j), b)
               PROVE  i = j
    BY DEF Agree
  <2>1. b \in Int /\ i \in 1 .. a + e + 1 /\ j \in 1 .. a + e + 1 /\ i + 1 \in 1 .. a + e + 1 /\ j + 1 \in 1 .. a + e + 1
    BY <1>1
  <2>2. low(i) <= b /\ b < low(i + 1) /\ low(j) <= b /\ b < low(j + 1)
    BY <1>4, <2>1
  <2>3. low(i) \in Int /\ low(i + 1) \in Int /\ low(j) \in Int /\ low(j + 1) \in Int
    BY <1>2, <2>1
  <2>4. i + 1 <= j => low(i + 1) <= low(j)
    BY <1>3, <2>1
  <2>5. j + 1 <= i => low(j + 1) <= low(i)
    BY <1>3, <2>1
  <2> QED BY <2>1, <2>2, <2>3, <2>4, <2>5
<1>9. ASSUME NEW k \in 0 .. a + e + 4, NEW l \in 0 .. a + e + 4
      PROVE  Agree(SlotPut(strings, a, e, esp, k), SlotPut(strings, a, e, esp, l))
  <2> SUFFICES ASSUME NEW b \in Addr, Covers(SlotPut(strings, a, e, esp, k), b),
                      Covers(SlotPut(strings, a, e, esp, l), b)
               PROVE  k = l
    BY DEF Agree
  <2>1. b \in Int /\ at(k) \in Int /\ at(l) \in Int /\ WORD \in Nat
    BY <1>1, <1>6, Constants
  <2>2. at(k) <= b /\ b < at(k) + WORD /\ at(l) <= b /\ b < at(l) + WORD
    BY <1>5, <2>1
  <2>3. k < l => at(k) + WORD <= at(l)
    BY <1>7
  <2>4. l < k => at(l) + WORD <= at(k)
    BY <1>7
  <2> QED BY <2>1, <2>2, <2>3, <2>4
<1>10. ASSUME NEW i \in 1 .. a + e, NEW k \in 0 .. a + e + 4, NEW b \in Addr
       PROVE  ~(Covers(StringPut(strings, i), b) /\ Covers(SlotPut(strings, a, e, esp, k), b))
  <2> SUFFICES ASSUME Covers(StringPut(strings, i), b), Covers(SlotPut(strings, a, e, esp, k), b) PROVE FALSE
    OBVIOUS
  <2>1. b \in Int /\ at(k) \in Int /\ WORD \in Nat /\ 1 \in 1 .. a + e + 1 /\ i \in 1 .. a + e + 1 /\ 1 <= i
    BY <1>1, <1>6, Constants
  <2>2. low(i) <= b /\ b < at(k) + WORD
    BY <1>4, <1>5, <2>1
  <2>3. at(k) + WORD <= low(1) /\ low(1) <= low(i) /\ low(1) \in Int /\ low(i) \in Int
    BY <1>2, <1>3, <1>6, <2>1
  <2> QED BY <2>1, <2>2, <2>3
<1>11. ASSUME NEW i \in 1 .. a + e, NEW k \in 0 .. a + e + 4
       PROVE  /\ Agree(StringPut(strings, i), SlotPut(strings, a, e, esp, k))
              /\ Agree(SlotPut(strings, a, e, esp, k), StringPut(strings, i))
  BY <1>10 DEF Agree
<1> QED BY <1>8, <1>9, <1>11

-----------------------------------------------------------------------------
(* A program that starts finds it.                                          *)

(* An element is there: its place is mapped, and its bytes are there.       *)
Present(m, b, x) ==
    /\ Mapped(m, x.at, Len(x.data))
    /\ \A a \in Addr : Covers(x, a) => b[a] = ByteFor(x, a)

(* The bytes of an element that is there.                                   *)
LEMMA CellsPresent ==
    ASSUME NEW m, Typed(m), LowEnd(m) <= StackLow(m), NEW x \in Given, Present(m, FlatBytes(m), x)
    PROVE  \A k \in 1 .. Len(x.data) :
               /\ x.at + k - 1 \in Addr /\ Mapped(m, x.at + k - 1, 1)
               /\ Cell(m, x.at + k - 1) = x.data[k]
<1>1. x.at \in Int /\ Len(x.data) \in Nat
  <2>1. x.at \in Int /\ x.data \in Seq(Byte)
    BY DEF Given
  <2> QED BY <2>1, LenProperties
<1> SUFFICES ASSUME NEW k \in 1 .. Len(x.data)
             PROVE  /\ x.at + k - 1 \in Addr /\ Mapped(m, x.at + k - 1, 1)
                    /\ Cell(m, x.at + k - 1) = x.data[k]
  OBVIOUS
<1> DEFINE a == x.at + k - 1
           n == Len(x.data)
           at == x.at
<1>2. a \in Int /\ at <= a /\ a + 1 <= at + n /\ (a - at) + 1 = k /\ at \in Int /\ n \in Nat
  BY <1>1
<1>3. Mapped(m, at, n)
  BY DEF Present
<1>4. k \in 1 .. n
  OBVIOUS
<1> HIDE DEF a, n, at
<1>5. Mapped(m, a, 1)
  BY <1>2, <1>3, PartMapped
<1>6. a \in Addr
  BY <1>2, <1>5, MappedAddr
<1>7. Covers(x, a) /\ ByteFor(x, a) = x.data[k]
  BY <1>2, <1>4 DEF Covers, ByteFor, at, n
<1>8. FlatBytes(m)[a] = x.data[k]
  BY <1>6, <1>7 DEF Present
<1>9. Cell(m, a) = x.data[k]
  BY <1>5, <1>6, <1>8 DEF FlatBytes
<1> QED BY <1>5, <1>6, <1>9 DEF a

(* A string that is there is read as a whole (read_cstr).                   *)
LEMMA StringArrives ==
    ASSUME NEW m, Typed(m), LowEnd(m) <= StackLow(m), NEW s \in Text, NEW addr \in Int,
           Mapped(m, addr, Len(s) + 1),
           \A k \in 1 .. Len(s) : Cell(m, addr + k - 1) = s[k],
           Cell(m, addr + Len(s)) = 0
    PROVE  StringAt(m, addr) = s
<1> DEFINE l == Len(s)
           Ends(k) == Cell(m, addr + k) = 0 /\ \A j \in 0 .. k - 1 : Cell(m, addr + j) # 0
           n == CHOOSE k \in Addr : Ends(k)
<1>1. l \in Nat /\ s \in Seq(Byte) /\ \A k \in 1 .. l : s[k] # 0
  <2> DEFINE B == Byte \ {0}
  <2>1. s \in Seq(B) /\ l \in Nat
    BY LenProperties DEF Text
  <2>2. \A k \in 1 .. l : s[k] \in B
    BY <2>1, ElementOfSeq
  <2>3. s \in [1 .. l -> B]
    BY <2>1, LenProperties
  <2>4. s \in [1 .. l -> Byte]
    BY <2>3
  <2>5. s \in Seq(Byte)
    BY <2>1, <2>4, AsSequence
  <2> QED BY <2>1, <2>2, <2>5
<1>2. Mapped(m, addr, l + 1) /\ Cell(m, addr + l) = 0
      /\ \A k \in 1 .. l : Cell(m, addr + k - 1) = s[k]
  OBVIOUS
<1> HIDE DEF l
<1>3. \A j \in 0 .. l - 1 : Cell(m, addr + j) # 0
  <2> SUFFICES ASSUME NEW j \in 0 .. l - 1 PROVE Cell(m, addr + j) # 0
    OBVIOUS
  <2>1. j + 1 \in 1 .. l /\ addr + (j + 1) - 1 = addr + j
    BY <1>1
  <2>2. Cell(m, addr + (j + 1) - 1) = s[j + 1] /\ s[j + 1] # 0
    BY <1>1, <1>2, <2>1
  <2> QED BY <2>1, <2>2
<1>4. Ends(l)
  BY <1>2, <1>3
<1>5. l \in Addr
  <2>1. Mapped(m, addr, 1) /\ Mapped(m, addr + l, 1)
    <3>1. l + 1 \in Nat /\ 1 \in Nat /\ addr + l \in Int /\ addr <= addr + l /\ addr + 1 <= addr + (l + 1)
          /\ (addr + l) + 1 <= addr + (l + 1) /\ addr <= addr
      BY <1>1
    <3> QED BY <1>2, <3>1, PartMapped
  <2>2. addr \in Addr /\ addr + l \in Addr
    <3>1. addr + l \in Int
      BY <1>1
    <3> QED BY <2>1, <3>1, MappedAddr
  <2> QED BY <1>1, <2>2, Constants DEF Addr
<1>6. \A k \in Addr : Ends(k) => k = l
  <2> SUFFICES ASSUME NEW k \in Addr, Ends(k) PROVE k = l
    OBVIOUS
  <2>1. k \in Nat
    BY Constants DEF Addr
  <2>2. ~(k < l)
    <3> SUFFICES ASSUME k < l PROVE FALSE
      OBVIOUS
    <3>1. k \in 0 .. l - 1
      BY <1>1, <2>1
    <3> QED BY <1>3, <3>1
  <2>3. ~(l < k)
    <3> SUFFICES ASSUME l < k PROVE FALSE
      OBVIOUS
    <3>1. l \in 0 .. k - 1
      BY <1>1, <2>1
    <3> QED BY <1>2, <3>1
  <2> QED BY <1>1, <2>1, <2>2, <2>3
<1>7. n = l
  <2> HIDE DEF Ends
  <2>1. n \in Addr /\ Ends(n)
    BY <1>4, <1>5
  <2> QED BY <1>6, <2>1
<1>8. StringAt(m, addr) = Read(m, addr, n)
  BY DEF StringAt
<1> HIDE DEF n
<1>9. Mapped(m, addr, l)
  <2>1. l + 1 \in Nat /\ addr <= addr /\ addr + l <= addr + (l + 1)
    BY <1>1
  <2> QED BY <1>1, <1>2, <2>1, PartMapped
<1>10. /\ Read(m, addr, l) \in Seq(Byte) /\ Len(Read(m, addr, l)) = l
       /\ \A k \in 1 .. l : Read(m, addr, l)[k] = Cell(m, addr + k - 1)
  BY <1>1, <1>9, ReadFacts
<1> DEFINE r == Read(m, addr, l)
<1>11. r \in Seq(Byte) /\ Len(r) = Len(s) /\ \A k \in 1 .. Len(r) : r[k] = s[k]
  BY <1>2, <1>10 DEF l
<1> HIDE DEF r
<1>12. r = s
  BY <1>1, <1>11, SeqEqual
<1> QED BY <1>7, <1>8, <1>12 DEF r

(* A program finds what execve was given, when all that setup_stack stores  *)
(* is there.                                                                *)
LEMMA ImageIsRead ==
    ASSUME NEW m, Typed(m), LowEnd(m) <= StackLow(m), NEW argv \in Seq(Text), NEW envp \in Seq(Text),
           NEW image, image = StackImage(argv, envp),
           \A x \in Elems(image.writes) : Present(m, FlatBytes(m), x)
    PROVE  /\ image.esp % WORD = 0
           /\ WordAt(m, image.esp) = Len(argv)
           /\ Vector(m, WordAt(m, image.esp + WORD), argv)
           /\ Vector(m, WordAt(m, image.esp + 2 * WORD), envp)
<1> DEFINE strings == argv \o envp
           a == Len(argv)
           e == Len(envp)
           esp == image.esp
           writes == image.writes
           value(k) == Slot(strings, a, e, esp, k)
           low(i) == TASK_SIZE - Taken(strings, i)
<1>1. Text \subseteq Seq(Byte) /\ argv \in Seq(Seq(Byte)) /\ envp \in Seq(Seq(Byte))
  <2>1. ASSUME NEW s \in Text PROVE s \in Seq(Byte)
    <3>1. s \in [1 .. Len(s) -> Byte \ {0}] /\ Len(s) \in Nat
      BY LenProperties DEF Text
    <3>2. s \in [1 .. Len(s) -> Byte]
      BY <3>1
    <3> QED BY <3>1, <3>2, AsSequence
  <2>2. ASSUME NEW t \in Seq(Text) PROVE t \in Seq(Seq(Byte))
    <3>1. t \in [1 .. Len(t) -> Text] /\ Len(t) \in Nat
      BY LenProperties
    <3> DEFINE B == Seq(Byte)
    <3>2. t \in [1 .. Len(t) -> B]
      BY <2>1, <3>1
    <3> HIDE DEF B
    <3>3. t \in Seq(B)
      BY <3>1, <3>2, AsSequence
    <3> QED BY <3>3 DEF B
  <2> QED BY <2>1, <2>2
<1>2. /\ strings \in Seq(Seq(Byte)) /\ a \in Nat /\ e \in Nat /\ Len(strings) = a + e
      /\ esp \in Int /\ esp % WORD = 0
      /\ esp + WORD * (a + e + 5) <= low(1)
      /\ \A i \in 1 .. a + e : StringPut(strings, i) \in Elems(writes)
      /\ \A k \in 0 .. a + e + 4 : SlotPut(strings, a, e, esp, k) \in Elems(writes)
  <2>1. /\ argv \in Seq(Seq(Byte)) /\ envp \in Seq(Seq(Byte))
        /\ strings = argv \o envp /\ a = Len(argv) /\ e = Len(envp)
        /\ esp = StackImage(argv, envp).esp /\ writes = StackImage(argv, envp).writes
    BY <1>1
  <2> HIDE DEF strings, a, e, esp, writes, value, low
  <2>2. strings \in Seq(Seq(Byte)) /\ a \in Nat /\ e \in Nat /\ Len(strings) = a + e
    BY ONLY <2>1, ImageElements
  <2>3. esp \in Int /\ esp % WORD = 0
    BY ONLY <2>1, ImageElements
  <2>4. esp + WORD * (a + e + 5) <= TASK_SIZE - Taken(strings, 1)
    BY ONLY <2>1, ImageElements
  <2>5. /\ \A i \in 1 .. a + e : StringPut(strings, i) \in Elems(writes)
        /\ \A k \in 0 .. a + e + 4 : SlotPut(strings, a, e, esp, k) \in Elems(writes)
    <3>1. MadeOf(Elems(writes), strings, a, e, esp)
      BY ONLY <2>1, ImageElements
    <3> QED BY <3>1 DEF MadeOf
  <2> QED BY <2>2, <2>3, <2>4, <2>5 DEF low
<1>3. /\ \A i \in 1 .. a : strings[i] = argv[i] /\ strings[i] \in Text
      /\ \A i \in 1 .. e : strings[a + i] = envp[i] /\ strings[a + i] \in Text
  <2>1. /\ \A i \in 1 .. a : argv[i] \in Text
        /\ \A i \in 1 .. e : envp[i] \in Text
    BY ElementOfSeq
  <2>2. \A i \in 1 .. a + e : strings[i] = IF i <= a THEN argv[i] ELSE envp[i - a]
    BY ConcatProperties
  <2> HIDE DEF strings, a, e
  <2>3. \A i \in 1 .. a : i \in 1 .. a + e /\ i <= a
    BY <1>2
  <2>4. \A i \in 1 .. e : a + i \in 1 .. a + e /\ ~(a + i <= a) /\ (a + i) - a = i
    BY <1>2
  <2> QED BY <2>1, <2>2, <2>3, <2>4
<1>4. argv \in Seq(Text) /\ envp \in Seq(Text) /\ DOMAIN argv = 1 .. a /\ DOMAIN envp = 1 .. e
  BY LenProperties
<1> HIDE DEF strings, a, e, esp, writes
<1>5. /\ TASK_SIZE \in Nat /\ WORD \in Nat /\ WORD >= 1 /\ TASK_SIZE < Words
  BY Constants, SpaceAssumption
<1>6. /\ \A i \in 1 .. a + e : Present(m, FlatBytes(m), StringPut(strings, i))
      /\ \A k \in 0 .. a + e + 4 : Present(m, FlatBytes(m), SlotPut(strings, a, e, esp, k))
  BY <1>2 DEF writes
<1>7. /\ Words \in Int
      /\ \A i \in 1 .. a + e + 1 : Taken(strings, i) \in Nat /\ low(i) \in Int /\ low(i) <= TASK_SIZE
      /\ \A i \in 1 .. a + e + 1 : Taken(strings, i) <= Taken(strings, 1)
  <2>1. \A i \in 1 .. a + e + 1 : Taken(strings, i) \in Nat
    BY <1>2, TakenFacts
  <2>2. \A i \in 1 .. a + e + 1 : Taken(strings, i) <= Taken(strings, 1)
    <3> SUFFICES ASSUME NEW i \in 1 .. a + e + 1 PROVE Taken(strings, i) <= Taken(strings, 1)
      OBVIOUS
    <3>1. 1 \in 1 .. Len(strings) + 1 /\ i \in 1 .. Len(strings) + 1 /\ 1 <= i
      BY <1>2
    <3> QED BY ONLY <1>2, <3>1, TakenFalls
  <2>3. Words \in Int
    <3>1. PICK power \in [0 .. WORD -> Nat] : Words = power[WORD]
      BY WordsUnfold
    <3>2. WORD \in 0 .. WORD
      BY <1>5
    <3> QED BY <3>1, <3>2
  <2> QED BY <2>1, <2>2, <2>3, <1>5
(* Every word is read back.                                                 *)
<1>8. ASSUME NEW k \in 0 .. a + e + 4
      PROVE  /\ esp + WORD * k \in Addr
             /\ 0 <= value(k) /\ value(k) < Words => WordAt(m, esp + WORD * k) = value(k)
  <2> DEFINE x == SlotPut(strings, a, e, esp, k)
             at == esp + WORD * k
             v == value(k)
  <2>1. v \in Int /\ at \in Int
    BY <1>2, SlotFacts
  <2>2. x = PutAt(at, Word(v)) /\ Present(m, FlatBytes(m), x)
    BY <1>6 DEF SlotPut
  <2> HIDE DEF x, at, v
  <2>3. x \in Given /\ x.at = at /\ x.data = Word(v) /\ Len(x.data) = WORD
    BY <2>1, <2>2, SlotPutFacts
  <2>4. \A i \in 1 .. WORD : at + i - 1 \in Addr /\ Cell(m, at + i - 1) = Word(v)[i]
    BY <2>2, <2>3, CellsPresent
  <2>5. at \in Addr
    <3>1. 1 \in 1 .. WORD /\ at + 1 - 1 = at
      BY <1>5, <2>1
    <3> QED BY <2>4, <3>1
  <2>6. ASSUME 0 <= v, v < Words PROVE WordAt(m, at) = v
    <3>1. v \in Nat
      BY <2>1, <2>6
    <3> QED BY <2>1, <2>4, <2>6, <3>1, WordArrives
  <2> QED BY <2>5, <2>6 DEF at, v
<1>9. /\ 0 <= esp /\ esp + WORD * (a + e + 5) <= TASK_SIZE /\ Taken(strings, 1) <= TASK_SIZE
  <2>1. 0 \in 0 .. a + e + 4 /\ esp + WORD * 0 = esp /\ 1 \in 1 .. a + e + 1
    BY <1>2, <1>5
  <2>2. esp \in Addr
    BY <1>8, <2>1
  <2>3. 0 <= esp
    BY <2>2, <1>5 DEF Addr
  <2>4. WORD * (a + e + 5) \in Nat
    BY <1>2, <1>5
  <2>5. esp + WORD * (a + e + 5) <= low(1) /\ low(1) <= TASK_SIZE /\ Taken(strings, 1) \in Nat
    BY <1>2, <1>7, <2>1
  <2> DEFINE t == Taken(strings, 1)
             y == WORD * (a + e + 5)
  <2>6. t \in Nat /\ y \in Nat /\ esp + y <= TASK_SIZE - t /\ esp \in Int /\ TASK_SIZE \in Nat
    BY <2>4, <2>5, <1>2, <1>5
  <2> HIDE DEF t, y, low
  <2>7. esp + y <= TASK_SIZE /\ t <= TASK_SIZE
    BY <2>3, <2>6
  <2> QED BY <2>3, <2>7 DEF t, y
<1>10. ASSUME NEW k \in 0 .. a + e + 5 PROVE k <= TASK_SIZE /\ esp + WORD * k <= TASK_SIZE /\ 0 <= esp + WORD * k
  <2> DEFINE d == a + e + 5 - k
             W == WORD
  <2>1. d \in Nat /\ a + e + 5 = k + d /\ W \in Nat /\ W >= 1 /\ k \in Nat
    BY <1>2, <1>5
  <2>2. esp + W * (a + e + 5) <= TASK_SIZE
    BY <1>9
  <2> HIDE DEF d, W
  <2>3. W * (a + e + 5) = W * k + W * d /\ W * k \in Nat /\ W * d \in Nat
    BY <2>1
  <2>4. k <= W * k
    BY <2>1
  <2> DEFINE y == W * k
             z == W * d
  <2>6. y \in Nat /\ z \in Nat /\ k <= y /\ esp + (y + z) <= TASK_SIZE /\ 0 <= esp /\ esp \in Int
        /\ TASK_SIZE \in Nat /\ k \in Nat
    BY <1>2, <1>5, <1>9, <2>1, <2>2, <2>3, <2>4
  <2> HIDE DEF y, z, low, value
  <2>7. k <= TASK_SIZE /\ esp + y <= TASK_SIZE /\ 0 <= esp + y
    BY ONLY <2>6
  <2>5. k <= TASK_SIZE /\ esp + W * k <= TASK_SIZE /\ 0 <= esp + W * k
    BY <2>7 DEF y
  <2> QED BY <2>5 DEF W
<1>11. ASSUME NEW i \in 1 .. a + e + 1 PROVE 0 <= low(i) /\ low(i) < Words
  <2> DEFINE t == Taken(strings, i)
             u == Taken(strings, 1)
  <2>1. t \in Nat /\ t <= u /\ u <= TASK_SIZE /\ u \in Nat /\ TASK_SIZE \in Nat /\ Words \in Int
        /\ TASK_SIZE < Words
    <3>1. 1 \in 1 .. a + e + 1
      BY <1>2
    <3> QED BY <1>5, <1>7, <1>9, <3>1
  <2> HIDE DEF t, u
  <2>2. 0 <= TASK_SIZE - t /\ TASK_SIZE - t < Words
    BY <2>1
  <2> QED BY <2>2 DEF t
(* Every string is read back.                                               *)
<1>12. ASSUME NEW i \in 1 .. a + e, strings[i] \in Text PROVE StringAt(m, low(i)) = strings[i]
  <2> DEFINE x == StringPut(strings, i)
             s == strings[i]
             l == Len(s)
  <2>1. i \in 1 .. Len(strings)
    BY <1>2
  <2>2. /\ x \in Given /\ x.at = low(i) /\ low(i) \in Int /\ l \in Nat
        /\ Len(x.data) = l + 1 /\ x.data[l + 1] = 0 /\ \A k \in 1 .. l : x.data[k] = s[k]
    <3>1. strings \in Seq(Seq(Byte)) /\ i \in 1 .. Len(strings)
      BY <1>2, <2>1
    <3>2. /\ x \in Given /\ x.at = TASK_SIZE - Taken(strings, i) /\ x.at \in Int
          /\ Len(strings[i]) \in Nat
          /\ Len(x.data) = Len(strings[i]) + 1 /\ x.data[Len(strings[i]) + 1] = 0
          /\ \A k \in 1 .. Len(strings[i]) : x.data[k] = strings[i][k]
      BY ONLY <3>1, StringPutFacts
    <3> HIDE DEF x
    <3> QED BY <3>2
  <2>3. Present(m, FlatBytes(m), x)
    BY <1>6
  <2> HIDE DEF x, l, low
  <2>4. \A k \in 1 .. l + 1 : Cell(m, low(i) + k - 1) = x.data[k]
    BY <2>2, <2>3, CellsPresent
  <2>5. Mapped(m, low(i), l + 1)
    BY <2>2, <2>3 DEF Present
  <2>6. \A k \in 1 .. l : Cell(m, low(i) + k - 1) = s[k]
    <3>1. \A k \in 1 .. l : k \in 1 .. l + 1
      BY <2>2
    <3> QED BY <2>2, <2>4, <3>1
  <2>7. Cell(m, low(i) + l) = 0
    <3>1. l + 1 \in 1 .. l + 1 /\ low(i) + (l + 1) - 1 = low(i) + l
      BY <2>2
    <3> QED BY <2>2, <2>4, <3>1
  <2> QED BY <1>12, <2>2, <2>5, <2>6, <2>7, StringArrives DEF l
<1>13. WordAt(m, esp) = a
  <2>1. 0 \in 0 .. a + e + 4 /\ value(0) = a /\ esp + WORD * 0 = esp /\ a \in 0 .. a + e + 5
    BY <1>2, <1>5 DEF Slot
  <2>2. 0 <= value(0) /\ value(0) < Words
    BY <1>2, <1>5, <1>7, <1>10, <2>1
  <2>3. WordAt(m, esp + WORD * 0) = value(0)
    BY <1>8, <2>1, <2>2
  <2> QED BY <2>1, <2>3
<1>14. WordAt(m, esp + WORD) = esp + WORD * 3
  <2>1. 1 \in 0 .. a + e + 4 /\ 3 \in 0 .. a + e + 5
    BY <1>2
  <2>2. value(1) = esp + WORD * 3 /\ esp + WORD * 1 = esp + WORD
    BY <1>2, <1>5 DEF Slot
  <2>3. 0 <= esp + WORD * 3 /\ esp + WORD * 3 <= TASK_SIZE /\ WORD * 3 \in Int
    BY <1>5, <1>10, <2>1
  <2>4. 0 <= value(1) /\ value(1) < Words
    <3> DEFINE y == WORD * 3
    <3> HIDE DEF y, value
    <3>1. y \in Int /\ 0 <= esp + y /\ esp + y <= TASK_SIZE /\ value(1) = esp + y
      BY <2>2, <2>3 DEF y
    <3> QED BY <1>2, <1>5, <1>7, <3>1
  <2>5. WordAt(m, esp + WORD * 1) = value(1)
    BY <1>8, <2>1, <2>4
  <2> QED BY <2>2, <2>5
<1>15. WordAt(m, esp + 2 * WORD) = esp + WORD * (a + 4)
  <2>1. 2 \in 0 .. a + e + 4 /\ a + 4 \in 0 .. a + e + 5
    BY <1>2
  <2>2. value(2) = esp + WORD * (a + 4) /\ esp + WORD * 2 = esp + 2 * WORD
    BY <1>2, <1>5 DEF Slot
  <2>3. 0 <= esp + WORD * (a + 4) /\ esp + WORD * (a + 4) <= TASK_SIZE /\ WORD * (a + 4) \in Int
    <3>1. 0 <= esp + WORD * (a + 4) /\ esp + WORD * (a + 4) <= TASK_SIZE
      <4> DEFINE k == a + 4
      <4> HIDE DEF k, value, low
      <4>1. k \in 0 .. a + e + 5
        BY <2>1 DEF k
      <4>2. 0 <= esp + WORD * k /\ esp + WORD * k <= TASK_SIZE
        BY <1>10, <4>1
      <4> QED BY <4>2 DEF k
    <3> QED BY <3>1, <1>2, <1>5
  <2>4. 0 <= value(2) /\ value(2) < Words
    <3> DEFINE y == WORD * (a + 4)
    <3> HIDE DEF y, value
    <3>1. y \in Int /\ 0 <= esp + y /\ esp + y <= TASK_SIZE /\ value(2) = esp + y
      BY <2>2, <2>3 DEF y
    <3> QED BY <1>2, <1>5, <1>7, <3>1
  <2>5. WordAt(m, esp + WORD * 2) = value(2)
    BY <1>8, <2>1, <2>4
  <2> QED BY <2>2, <2>5
<1>16. Vector(m, esp + WORD * 3, argv)
  <2>1. ASSUME NEW i \in 1 .. a
        PROVE  StringAt(m, WordAt(m, (esp + WORD * 3) + WORD * (i - 1))) = argv[i]
    <3> DEFINE k == i + 2
    <3>1. k \in 0 .. a + e + 4 /\ k # 0 /\ k # 1 /\ k # 2 /\ k <= a + 2 /\ k - 2 = i
          /\ i \in 1 .. a + e /\ i \in 1 .. a + e + 1
      BY <1>2
    <3>2. (esp + WORD * 3) + WORD * (i - 1) = esp + WORD * k
      <4>1. WORD * k = WORD * 3 + WORD * (i - 1) /\ WORD * 3 \in Int /\ WORD * (i - 1) \in Int
        BY <1>5
      <4> HIDE DEF k
      <4> QED BY <1>2, <4>1
    <3> HIDE DEF k
    <3>3. value(k) = low(i)
      BY <3>1 DEF Slot
    <3> HIDE DEF value
    <3>4. WordAt(m, esp + WORD * k) = low(i)
      BY <1>8, <1>11, <3>1, <3>3
    <3> QED BY <1>3, <1>12, <3>1, <3>2, <3>4
  <2>2. WordAt(m, (esp + WORD * 3) + WORD * a) = 0
    <3> DEFINE k == a + 3
    <3>1. k \in 0 .. a + e + 4 /\ k # 0 /\ k # 1 /\ k # 2 /\ ~(k <= a + 2) /\ k = a + 3
      BY <1>2
    <3>2. (esp + WORD * 3) + WORD * a = esp + WORD * k
      <4>1. WORD * k = WORD * 3 + WORD * a /\ WORD * 3 \in Int /\ WORD * a \in Int
        BY <1>2, <1>5
      <4> HIDE DEF k
      <4> QED BY <1>2, <4>1
    <3> HIDE DEF k
    <3>3. value(k) = 0
      BY <3>1 DEF Slot
    <3> HIDE DEF value
    <3>4. WordAt(m, esp + WORD * k) = 0
      BY <1>5, <1>7, <1>8, <3>1, <3>3
    <3> QED BY <3>2, <3>4
  <2> QED BY <1>4, <2>1, <2>2 DEF Vector, a
<1>17. Vector(m, esp + WORD * (a + 4), envp)
  <2>1. ASSUME NEW i \in 1 .. e
        PROVE  StringAt(m, WordAt(m, (esp + WORD * (a + 4)) + WORD * (i - 1))) = envp[i]
    <3> DEFINE k == i + a + 3
    <3>1. k \in 0 .. a + e + 4 /\ k # 0 /\ k # 1 /\ k # 2 /\ ~(k <= a + 2) /\ k # a + 3
          /\ k <= a + e + 3 /\ k - 3 = a + i /\ a + i \in 1 .. a + e /\ a + i \in 1 .. a + e + 1
      BY <1>2
    <3>2. (esp + WORD * (a + 4)) + WORD * (i - 1) = esp + WORD * k
      <4>1. WORD * k = WORD * (a + 4) + WORD * (i - 1) /\ WORD * (a + 4) \in Int /\ WORD * (i - 1) \in Int
        BY <1>2, <1>5
      <4> HIDE DEF k
      <4> QED BY <1>2, <4>1
    <3> HIDE DEF k
    <3>3. value(k) = low(a + i)
      BY <3>1 DEF Slot
    <3> HIDE DEF value
    <3>4. WordAt(m, esp + WORD * k) = low(a + i)
      BY <1>8, <1>11, <3>1, <3>3
    <3> QED BY <1>3, <1>12, <3>1, <3>2, <3>4
  <2>2. WordAt(m, (esp + WORD * (a + 4)) + WORD * e) = 0
    <3> DEFINE k == a + e + 4
    <3>1. k \in 0 .. a + e + 4 /\ k # 0 /\ k # 1 /\ k # 2 /\ ~(k <= a + 2) /\ k # a + 3 /\ ~(k <= a + e + 3)
      BY <1>2
    <3>2. (esp + WORD * (a + 4)) + WORD * e = esp + WORD * k
      <4>1. WORD * k = WORD * (a + 4) + WORD * e /\ WORD * (a + 4) \in Int /\ WORD * e \in Int
        BY <1>2, <1>5
      <4> HIDE DEF k
      <4> QED BY <1>2, <4>1
    <3> HIDE DEF k
    <3>3. value(k) = 0
      BY <3>1 DEF Slot
    <3> HIDE DEF value
    <3>4. WordAt(m, esp + WORD * k) = 0
      BY <1>5, <1>7, <1>8, <3>1, <3>3
    <3> QED BY <3>2, <3>4
  <2> QED BY <1>4, <2>1, <2>2 DEF Vector, e
<1> QED BY <1>2, <1>13, <1>14, <1>15, <1>16, <1>17 DEF esp, a

(* What setup_stack stored is there, at and above esp.                      *)
HasStack(m, argv, envp, esp) ==
    /\ argv \in Seq(Text) /\ envp \in Seq(Text) /\ esp = StackImage(argv, envp).esp
    /\ m.start_stack <= esp
    /\ \A x \in Elems(StackImage(argv, envp).writes) : Present(m, FlatBytes(m), x)

(* Strings are bytes, and so is what is stored of them.                     *)
LEMMA ImageOfText ==
    ASSUME NEW argv \in Seq(Text), NEW envp \in Seq(Text)
    PROVE  /\ argv \in Seq(Seq(Byte)) /\ envp \in Seq(Seq(Byte))
           /\ StackImage(argv, envp).esp \in Int /\ StackImage(argv, envp).writes \in Seq(Given)
           /\ \A x \in Elems(StackImage(argv, envp).writes) : x.at \in Int /\ Len(x.data) \in Nat
<1>1. argv \in Seq(Seq(Byte)) /\ envp \in Seq(Seq(Byte))
  BY TextIsBytes, MoreSequences
<1>2. StackImage(argv, envp).esp \in Int /\ StackImage(argv, envp).writes \in Seq(Given)
  BY <1>1, StackImageType
<1> DEFINE writes == StackImage(argv, envp).writes
<1> HIDE DEF writes
<1>3. ASSUME NEW x \in Elems(writes) PROVE x.at \in Int /\ Len(x.data) \in Nat
  <2>1. x \in Given
    <3>1. writes \in Seq(Given)
      BY <1>2 DEF writes
    <3>2. \A i \in 1 .. Len(writes) : writes[i] \in Given
      BY <3>1, LenProperties, ElementOfSeq
    <3> QED BY <3>2 DEF Elems
  <2>2. x.at \in Int /\ x.data \in Seq(Byte)
    BY <2>1 DEF Given
  <2> QED BY <2>2, LenProperties
<1> QED BY <1>1, <1>2, <1>3 DEF writes

(* It stays there while nothing is stored and no memory is taken away.      *)
LEMMA StackStays ==
    ASSUME NEW m, Typed(m), NEW w, Typed(w), LowEnd(m) <= LowEnd(w), StackLow(w) <= StackLow(m),
           FlatBytes(w) = FlatBytes(m), w.start_stack = m.start_stack,
           NEW argv, NEW envp, NEW esp, HasStack(m, argv, envp, esp)
    PROVE  HasStack(w, argv, envp, esp)
<1> DEFINE writes == StackImage(argv, envp).writes
<1>1. /\ argv \in Seq(Text) /\ envp \in Seq(Text) /\ esp = StackImage(argv, envp).esp
      /\ w.start_stack <= esp
      /\ \A x \in Elems(writes) : Present(m, FlatBytes(m), x)
  BY DEF HasStack
<1>2. \A x \in Elems(writes) : x.at \in Int /\ Len(x.data) \in Nat
  BY <1>1, ImageOfText
<1> HIDE DEF writes
<1>3. ASSUME NEW x \in Elems(writes) PROVE Present(w, FlatBytes(w), x)
  <2>1. Present(m, FlatBytes(m), x) /\ x.at \in Int /\ Len(x.data) \in Nat
    BY <1>1, <1>2
  <2>2. Mapped(w, x.at, Len(x.data))
    BY <2>1, MappedStays DEF Present
  <2> QED BY <2>1, <2>2 DEF Present
<1> QED BY <1>1, <1>3 DEF HasStack, writes

(* A page starts no higher than what it holds.                              *)
LEMMA PageStart ==
    ASSUME NEW e \in Int
    PROVE  (e \div PAGE_SIZE) * PAGE_SIZE \in Int /\ (e \div PAGE_SIZE) * PAGE_SIZE <= e
<1> DEFINE l == PAGE_SIZE
<1>1. l \in Nat \ {0}
  BY Constants
<1> HIDE DEF l
<1>2. (e \div l) * l \in Int /\ (e \div l) * l <= e
  BY <1>1
<1> QED BY <1>2 DEF l

(* The parts of what setup_stack stores do not disturb one another.         *)
LEMMA WritesAgree ==
    ASSUME NEW argv \in Seq(Text), NEW envp \in Seq(Text),
           NEW writes, writes = StackImage(argv, envp).writes
    PROVE  \A i, j \in 1 .. Len(writes) : Agree(writes[i], writes[j])
<1> DEFINE strings == argv \o envp
           a == Len(argv)
           e == Len(envp)
           esp == StackImage(argv, envp).esp
<1>1. argv \in Seq(Seq(Byte)) /\ envp \in Seq(Seq(Byte))
  BY ImageOfText
<1>7. /\ strings = argv \o envp /\ a = Len(argv) /\ e = Len(envp) /\ esp = StackImage(argv, envp).esp
      /\ writes = StackImage(argv, envp).writes
  OBVIOUS
<1> HIDE DEF strings, a, e, esp
<1>2. /\ strings \in Seq(Seq(Byte)) /\ a \in Nat /\ e \in Nat /\ Len(strings) = a + e
      /\ esp \in Int /\ esp + WORD * (a + e + 5) <= TASK_SIZE - Taken(strings, 1)
      /\ MadeOf(Elems(writes), strings, a, e, esp)
  <2>1. strings \in Seq(Seq(Byte)) /\ a \in Nat /\ e \in Nat /\ Len(strings) = a + e
    BY ONLY <1>1, <1>7, ImageElements
  <2>4. esp \in Int
    BY ONLY <1>1, <1>7, ImageElements
  <2>2. esp + WORD * (a + e + 5) <= TASK_SIZE - Taken(strings, 1)
    BY ONLY <1>1, <1>7, ImageElements
  <2>3. MadeOf(Elems(writes), strings, a, e, esp)
    BY ONLY <1>1, <1>7, ImageElements
  <2> QED BY ONLY <2>1, <2>2, <2>3, <2>4
<1>3. /\ \A i, j \in 1 .. a + e : Agree(StringPut(strings, i), StringPut(strings, j))
      /\ \A k, l \in 0 .. a + e + 4 : Agree(SlotPut(strings, a, e, esp, k), SlotPut(strings, a, e, esp, l))
      /\ \A i \in 1 .. a + e : \A k \in 0 .. a + e + 4 :
            /\ Agree(StringPut(strings, i), SlotPut(strings, a, e, esp, k))
            /\ Agree(SlotPut(strings, a, e, esp, k), StringPut(strings, i))
  BY <1>2, ImageAgrees
<1>4. ASSUME NEW x \in Elems(writes)
      PROVE  \/ \E i \in 1 .. a + e : x = StringPut(strings, i)
             \/ \E k \in 0 .. a + e + 4 : x = SlotPut(strings, a, e, esp, k)
  BY <1>2 DEF MadeOf
<1>5. ASSUME NEW x \in Elems(writes), NEW y \in Elems(writes) PROVE Agree(x, y)
  <2>1. CASE \E i \in 1 .. a + e : x = StringPut(strings, i)
    <3>1. PICK i \in 1 .. a + e : x = StringPut(strings, i)
      BY <2>1
    <3> QED BY <3>1, <1>3, <1>4
  <2>2. CASE \E k \in 0 .. a + e + 4 : x = SlotPut(strings, a, e, esp, k)
    <3>1. PICK k \in 0 .. a + e + 4 : x = SlotPut(strings, a, e, esp, k)
      BY <2>2
    <3> QED BY <3>1, <1>3, <1>4
  <2> QED BY <1>4, <2>1, <2>2
<1>6. \A i \in 1 .. Len(writes) : writes[i] \in Elems(writes)
  BY DEF Elems
<1> QED BY <1>5, <1>6

(* A program that starts finds its stack as setup_stack made it.            *)
LEMMA StartedArrives ==
    ASSUME TextScripts, NEW s \in Started, ~s.result.fault,
           LowEnd(s.result.m) <= StackLow(s.result.m)
    PROVE  HasStack(s.result.m, s.argv, s.envp, s.result.esp)
<1> DEFINE Q == Text
<1>1. Text \subseteq Q /\ Q \subseteq Seq(Byte)
  BY TextIsBytes
<1>2. \A x \in DOMAIN Files : Files[x].kind = "script" => /\ Files[x].interp \in Q
                                                          /\ Files[x].arg \in Q \cup {None}
  BY DEF TextScripts
<1> HIDE DEF Q
<1>3. /\ s.argv \in Seq(Q) /\ s.envp \in Seq(Q)
      /\ \E m : Typed(m) /\ Coherent(m) /\ s.result = WithStack(m, s.argv, s.envp)
  BY <1>1, <1>2, StartedWith
<1>4. s.argv \in Seq(Text) /\ s.envp \in Seq(Text)
  BY <1>3 DEF Q
<1>5. PICK m0 : Typed(m0) /\ Coherent(m0) /\ s.result = WithStack(m0, s.argv, s.envp)
  BY <1>3
<1> DEFINE argv == s.argv
           envp == s.envp
           image == StackImage(argv, envp)
           writes == image.writes
           esp == image.esp
           st == ByElement(m0, writes)
           v == (esp \div PAGE_SIZE) * PAGE_SIZE
           w == [st.m EXCEPT !.start_stack = v]
<1>6. s.result.m = w /\ s.result.fault = st.fault /\ s.result.esp = esp
  BY <1>5 DEF WithStack
<1>7. esp \in Int /\ writes \in Seq(Given)
  BY <1>4, ImageOfText
<1>8. v \in Int /\ v <= esp
  BY <1>7, PageStart
<1>9. writes = StackImage(argv, envp).writes /\ argv \in Seq(Text) /\ envp \in Seq(Text)
      /\ esp = StackImage(argv, envp).esp
  BY <1>4
<1> HIDE DEF v, image, writes, esp, argv, envp
<1>10. Sound(m0)
  <2>1. LowEnd(m0) \in Nat /\ StackLow(m0) \in Int
    BY <1>5, TypedFacts
  <2>2. CASE LowEnd(m0) > StackLow(m0)
    <3>1. Typed(st.m) /\ LowEnd(st.m) > StackLow(st.m)
      BY <1>5, <1>7, <2>2, OverlapStaysThroughout
    <3> HIDE DEF st
    <3>2. LowEnd(st.m) \in Nat /\ StackLow(st.m) \in Int
      BY <3>1, TypedFacts
    <3>3. LowEnd(w) = LowEnd(st.m) /\ StackLow(w) = StackLow(st.m)
      BY <3>1, <1>8, StartStackSound
    <3> QED BY <3>1, <3>2, <3>3, <1>6
  <2> QED BY <2>1, <2>2, <1>5 DEF Sound
<1>11. /\ Sound(st.m)
       /\ FlatBytes(st.m) = OneByOne(FlatBytes(m0), writes, Len(writes))
       /\ \A i \in 1 .. Len(writes) : Mapped(st.m, writes[i].at, Len(writes[i].data))
  BY <1>6, <1>7, <1>10, ByElementReaches
<1> HIDE DEF st
<1>12. \A i, j \in 1 .. Len(writes) : Agree(writes[i], writes[j])
  BY <1>9, WritesAgree
<1>13. \A i \in 1 .. Len(writes) : \A a \in Addr :
           Covers(writes[i], a) => FlatBytes(st.m)[a] = ByteFor(writes[i], a)
  BY <1>7, <1>11, <1>12, AllArrive
<1>14. Typed(st.m) /\ LowEnd(st.m) \in Nat /\ StackLow(st.m) \in Int
  BY <1>11, TypedFacts DEF Sound
<1>15. /\ Typed(w) /\ LowEnd(w) = LowEnd(st.m) /\ StackLow(w) = StackLow(st.m)
       /\ FlatBytes(w) = FlatBytes(st.m) /\ w.start_stack = v
  <2>1. Typed(w) /\ LowEnd(w) = LowEnd(st.m) /\ StackLow(w) = StackLow(st.m)
    BY <1>8, <1>14, StartStackSound
  <2>2. w.low = st.m.low /\ w.stack = st.m.stack /\ w.start_stack = v
    BY <1>14 DEF Typed, Space
  <2>3. FlatBytes(w) = FlatBytes(st.m)
    <3> HIDE DEF w
    <3> QED BY <2>2, SameBytes
  <2> QED BY <2>1, <2>2, <2>3
<1> HIDE DEF w
<1>16. ASSUME NEW x \in Elems(writes) PROVE Present(w, FlatBytes(w), x)
  <2>1. PICK i \in 1 .. Len(writes) : x = writes[i]
    BY DEF Elems
  <2>2. x.at \in Int /\ Len(x.data) \in Nat
    BY <1>9, ImageOfText
  <2>3. Mapped(st.m, x.at, Len(x.data))
    BY <1>11, <2>1
  <2>4. LowEnd(st.m) <= LowEnd(w) /\ StackLow(w) <= StackLow(st.m)
    BY <1>14, <1>15
  <2>5. Mapped(w, x.at, Len(x.data))
    BY <1>14, <1>15, <2>2, <2>3, <2>4, MappedStays
  <2> QED BY <1>13, <1>15, <2>1, <2>5 DEF Present
<1>17. HasStack(w, argv, envp, esp)
  BY <1>8, <1>9, <1>15, <1>16 DEF HasStack
<1> QED BY <1>6, <1>17 DEF argv, envp

-----------------------------------------------------------------------------
(* The memories of all processes.                                           *)

Keeps(p) == Live(p) => Sound(space[p]) /\ flat[p] = FlatBytes(space[p])

IInv ==
    /\ space = [p \in Procs |-> space[p]]
    /\ given = [p \in Procs |-> given[p]]
    /\ flat = [p \in Procs |-> flat[p]]
    /\ \A p \in Procs : Keeps(p) /\ (Running(p) => Live(p))

(* In the beginning.                                                        *)
LEMMA IInvInit ==
    MemInit /\ HeapBelowStack => IInv
<1> SUFFICES ASSUME MemInit, HeapBelowStack PROVE IInv
  OBVIOUS
<1>1. PICK p \in Procs :
          /\ space = [q \in Procs |-> IF q = p THEN Empty ELSE None]
          /\ given = [q \in Procs |-> None]
          /\ flat = [q \in Procs |-> Unset]
  BY DEF MemInit
<1>2. Live(p) => Sound(Empty) /\ FlatBytes(Empty) = Unset
  BY <1>1, EmptySound DEF HeapBelowStack
<1>3. ASSUME NEW q \in Procs PROVE Keeps(q) /\ ~Running(q)
  BY <1>1, <1>2 DEF Keeps, Live, Running
<1> QED BY <1>1, <1>3 DEF IInv

(* A memory is not None.                                                    *)
LEMMA SoundIsLive ==
    ASSUME NEW m, Typed(m)
    PROVE  m # None
BY SpaceAssumption DEF Typed

(* The memory of one process changes.                                       *)
LEMMA OneChanges ==
    ASSUME IInv, NEW p \in Procs, NEW m, Sound(m), NEW g,
           space' = [space EXCEPT ![p] = m], flat' = [flat EXCEPT ![p] = FlatBytes(m)],
           given' = [given EXCEPT ![p] = g]
    PROVE  IInv'
<1>1. /\ space' = [q \in Procs |-> IF q = p THEN m ELSE space[q]]
      /\ flat' = [q \in Procs |-> IF q = p THEN FlatBytes(m) ELSE flat[q]]
      /\ given' = [q \in Procs |-> IF q = p THEN g ELSE given[q]]
  BY DEF IInv
<1>2. m # None
  BY SoundIsLive DEF Sound
<1>3. ASSUME NEW q \in Procs PROVE Keeps(q)' /\ (Running(q) => Live(q))'
  <2>1. CASE q = p
    BY <1>1, <1>2, <2>1 DEF Keeps, Live, Running
  <2>2. CASE q # p
    BY <1>1, <2>2 DEF Keeps, Live, Running, IInv
  <2> QED BY <2>1, <2>2
<1> QED BY <1>1, <1>3 DEF IInv

(* execve: a fresh memory, with its text and its stack.                     *)
LEMMA ExecKeeps ==
    ASSUME IInv, NEW p \in Procs, Exec(p), HeapBelowStack'
    PROVE  IInv'
<1>1. PICK s \in Started :
          LET m == s.result.m
          IN  /\ ~s.result.fault
              /\ space' = [space EXCEPT ![p] = m]
              /\ given' = [given EXCEPT ![p] = [argv |-> s.argv, envp |-> s.envp,
                                                esp |-> s.result.esp, stores |-> 0]]
              /\ flat'  = [flat EXCEPT ![p] = FlatBytes(m)]
  BY DEF Exec
<1> DEFINE m == s.result.m
<1>2. Typed(m) /\ (LowEnd(m) <= StackLow(m) => Sound(m))
  BY StartedSound
<1>3. space'[p] = m
  BY <1>1 DEF IInv
<1>4. LowEnd(m) <= StackLow(m)
  BY <1>2, <1>3, SoundIsLive DEF HeapBelowStack, Live
<1> HIDE DEF m
<1> QED BY <1>1, <1>2, <1>4, OneChanges DEF m

(* fork: the copy has the bytes and the cache (clone).                      *)
LEMMA ForkKeeps ==
    ASSUME IInv, NEW p \in Procs, NEW q \in Procs, Fork(p, q)
    PROVE  IInv'
<1> DEFINE m == space[p]
           g == given[p]
<1>1. Live(p) /\ Sound(m) /\ flat[p] = FlatBytes(m)
  BY DEF Fork, IInv, Keeps
<1>2. /\ space' = [space EXCEPT ![q] = m] /\ flat' = [flat EXCEPT ![q] = FlatBytes(m)]
      /\ given' = [given EXCEPT ![q] = g]
  BY <1>1 DEF Fork
<1> HIDE DEF m, g
<1> QED BY <1>1, <1>2, OneChanges

(* exit.                                                                    *)
LEMMA ExitKeeps ==
    ASSUME IInv, NEW p \in Procs, Exit(p)
    PROVE  IInv'
<1>1. /\ space' = [q \in Procs |-> IF q = p THEN None ELSE space[q]]
      /\ flat' = [q \in Procs |-> IF q = p THEN Unset ELSE flat[q]]
      /\ given' = [q \in Procs |-> IF q = p THEN None ELSE given[q]]
  BY DEF IInv, Exit
<1>2. ASSUME NEW q \in Procs PROVE Keeps(q)' /\ (Running(q) => Live(q))'
  <2>1. CASE q = p
    BY <1>1, <2>1 DEF Keeps, Live, Running
  <2>2. CASE q # p
    BY <1>1, <2>2 DEF Keeps, Live, Running, IInv
  <2> QED BY <2>1, <2>2
<1> QED BY <1>1, <1>2 DEF IInv

(* brk.                                                                     *)
LEMMA BrkKeeps ==
    ASSUME IInv, NEW p \in Procs, NEW addr \in Targets, Brk(p, addr), HeapBelowStack'
    PROVE  IInv'
<1> DEFINE m == space[p]
           w == WithBrk(m, addr)
           g == given[p]
<1>1. Sound(m) /\ flat[p] = FlatBytes(m)
  BY DEF Brk, IInv, Keeps
<1>2. addr \in Int
  BY MemoryAssumption, Constants DEF Addr
<1>3. Typed(w) /\ (LowEnd(w) <= StackLow(w) => Sound(w) /\ FlatBytes(w) = FlatBytes(m))
  BY <1>1, <1>2, WithBrkSound
<1>4. space' = [space EXCEPT ![p] = w] /\ given' = given /\ flat' = flat
  BY DEF Brk
<1> HIDE DEF w
<1>5. space'[p] = w
  BY <1>4 DEF IInv
<1>6. LowEnd(w) <= StackLow(w)
  BY <1>3, <1>5, SoundIsLive DEF HeapBelowStack, Live
<1>7. flat' = [flat EXCEPT ![p] = FlatBytes(w)] /\ given' = [given EXCEPT ![p] = g]
  BY <1>1, <1>3, <1>4, <1>6 DEF IInv
<1> HIDE DEF g
<1> QED BY <1>3, <1>4, <1>6, <1>7, OneChanges

(* The space in which an instruction is executed.                           *)
LEMMA FetchKeeps ==
    ASSUME IInv, NEW p \in Procs, NEW eip \in Addr, CanFetch(p, eip), ShortInstructions
    PROVE  Sound(WithEntry(space[p], eip)) /\ FlatBytes(WithEntry(space[p], eip)) = flat[p]
<1>1. Live(p) /\ Sound(space[p]) /\ flat[p] = FlatBytes(space[p])
  BY DEF CanFetch, IInv, Keeps
<1>2. eip \in 0 .. space[p].text_end /\ Fetched(space[p], eip) # None
  <2>1. space[p].text_end \in Nat
    BY <1>1, TypedFacts DEF Sound
  <2> QED BY <2>1, Constants DEF CanFetch, Addr
<1>3. Decoded(space[p], eip) # None => Decoded(space[p], eip).length <= FLUSH_BACK + 1
  BY <1>1, <1>2 DEF ShortInstructions
<1> QED BY <1>1, <1>2, <1>3, WithEntrySound

(* An instruction that leaves memory alone fills the cache.                 *)
LEMMA ExecuteKeeps ==
    ASSUME IInv, NEW p \in Procs, NEW eip \in Addr, Execute(p, eip), ShortInstructions
    PROVE  IInv'
<1> DEFINE w == WithEntry(space[p], eip)
           g == given[p]
<1>1. Sound(w) /\ FlatBytes(w) = flat[p]
  BY FetchKeeps DEF Execute
<1>2. space' = [space EXCEPT ![p] = w] /\ given' = given /\ flat' = flat
  BY DEF Execute
<1> HIDE DEF w
<1>3. flat' = [flat EXCEPT ![p] = FlatBytes(w)] /\ given' = [given EXCEPT ![p] = g]
  BY <1>1, <1>2 DEF IInv
<1> HIDE DEF g
<1> QED BY <1>1, <1>2, <1>3, OneChanges

(* An instruction that stores.                                              *)
LEMMA StoringKeeps ==
    ASSUME IInv, NEW p \in Procs, NEW m, Sound(m), NEW b, b = FlatBytes(m), Counted(p),
           space' = [space EXCEPT ![p] = m], flat' = [flat EXCEPT ![p] = b]
    PROVE  IInv'
<1> DEFINE g == [given[p] EXCEPT !.stores = given[p].stores + 1]
<1>1. given' = [given EXCEPT ![p] = g]
  BY DEF Counted
<1> HIDE DEF g
<1> QED BY <1>1, OneChanges

(* One store.                                                               *)
LEMMA StoreKeeps ==
    ASSUME IInv, NEW p \in Procs, NEW eip \in Addr, NEW addr \in Targets, NEW data \in Datas,
           Store(p, eip, addr, data), ShortInstructions
    PROVE  IInv'
<1> DEFINE m == WithEntry(space[p], eip)
           w == Write(m, addr, data)
           b == IF w.fault THEN flat[p] ELSE Overwritten(flat[p], addr, data)
<1>1. Sound(m) /\ FlatBytes(m) = flat[p]
  BY FetchKeeps DEF Store
<1>2. addr \in Int /\ data \in Seq(Byte)
  BY MemoryAssumption, Constants DEF Addr
<1>3. Sound(w.m) /\ FlatBytes(w.m) = b
  BY <1>1, <1>2, WriteSound
<1>4. space' = [space EXCEPT ![p] = w.m] /\ flat' = [flat EXCEPT ![p] = b] /\ Counted(p)
  BY DEF Store
<1> HIDE DEF m, w, b
<1> QED BY <1>3, <1>4, StoringKeeps

(* rep movs.                                                                *)
LEMMA RepMovsKeeps ==
    ASSUME IInv, NEW p \in Procs, NEW eip \in Addr, NEW src \in Targets, NEW dst \in Targets,
           NEW cnt \in Counts, NEW size \in 1 .. WORD, NEW back \in BOOLEAN,
           RepMovs(p, eip, src, dst, cnt, size, back), ShortInstructions
    PROVE  IInv'
<1> DEFINE m == WithEntry(space[p], eip)
           w == Moved(m, src, dst, cnt, size, back)
           b == OneByOne(flat[p], Moves(src, dst, cnt, size, back), w.done)
<1>1. Sound(m) /\ FlatBytes(m) = flat[p]
  BY FetchKeeps DEF RepMovs
<1>2. src \in Int /\ dst \in Int /\ cnt \in Nat /\ size \in Nat
  BY MemoryAssumption, Constants DEF Addr
<1>3. Sound(w.m) /\ FlatBytes(w.m) = b
  BY <1>1, <1>2, MovedSound
<1>4. space' = [space EXCEPT ![p] = w.m] /\ flat' = [flat EXCEPT ![p] = b] /\ Counted(p)
  BY DEF RepMovs
<1> HIDE DEF m, w, b
<1> QED BY <1>3, <1>4, StoringKeeps

(* rep stos.                                                                *)
LEMMA RepStosKeeps ==
    ASSUME IInv, NEW p \in Procs, NEW eip \in Addr, NEW data \in Datas, NEW dst \in Targets,
           NEW cnt \in Counts, NEW back \in BOOLEAN,
           RepStos(p, eip, data, dst, cnt, back), ShortInstructions
    PROVE  IInv'
<1> DEFINE m == WithEntry(space[p], eip)
           w == Filled(m, data, dst, cnt, back)
           b == OneByOne(flat[p], Fills(data, dst, cnt, back), w.done)
<1>1. Sound(m) /\ FlatBytes(m) = flat[p]
  BY FetchKeeps DEF RepStos
<1>2. dst \in Int /\ cnt \in Nat /\ data \in Seq(Byte) /\ data # <<>>
  BY MemoryAssumption, Constants DEF Addr
<1>3. Sound(w.m) /\ FlatBytes(w.m) = b
  BY <1>1, <1>2, FilledSound
<1>4. space' = [space EXCEPT ![p] = w.m] /\ flat' = [flat EXCEPT ![p] = b] /\ Counted(p)
  BY DEF RepStos
<1> HIDE DEF m, w, b
<1> QED BY <1>3, <1>4, StoringKeeps

(* Every step keeps the invariant.                                          *)
LEMMA IInvNext ==
    IInv /\ [MemNext]_memVars /\ ShortInstructions /\ HeapBelowStack' => IInv'
<1> SUFFICES ASSUME IInv, [MemNext]_memVars, ShortInstructions, HeapBelowStack' PROVE IInv'
  OBVIOUS
<1>1. ASSUME NEW back \in BOOLEAN, NEW p \in Procs, Exec(p) PROVE IInv'
  BY <1>1, ExecKeeps
<1>2. ASSUME NEW p \in Procs, NEW q \in Procs, Fork(p, q) PROVE IInv'
  BY <1>2, ForkKeeps
<1>3. ASSUME NEW p \in Procs, Exit(p) PROVE IInv'
  BY <1>3, ExitKeeps
<1>4. ASSUME NEW p \in Procs, NEW addr \in Targets, Brk(p, addr) PROVE IInv'
  BY <1>4, BrkKeeps
<1>5. ASSUME NEW p \in Procs, NEW eip \in Addr, Execute(p, eip) PROVE IInv'
  BY <1>5, ExecuteKeeps
<1>6. ASSUME NEW p \in Procs, NEW eip \in Addr, NEW addr \in Targets, NEW data \in Datas,
             Store(p, eip, addr, data)
      PROVE  IInv'
  BY <1>6, StoreKeeps
<1>7. ASSUME NEW back \in BOOLEAN, NEW p \in Procs, NEW eip \in Addr, NEW addr \in Targets,
             NEW data \in Datas, NEW cnt \in Counts, RepStos(p, eip, data, addr, cnt, back)
      PROVE  IInv'
  BY <1>7, RepStosKeeps
<1>8. ASSUME NEW back \in BOOLEAN, NEW p \in Procs, NEW eip \in Addr, NEW src \in Targets,
             NEW dst \in Targets, NEW cnt \in Counts, NEW size \in 1 .. WORD,
             RepMovs(p, eip, src, dst, cnt, size, back)
      PROVE  IInv'
  BY <1>8, RepMovsKeeps
<1>9. CASE UNCHANGED memVars
  BY <1>9 DEF memVars, IInv, Keeps, Live, Running
<1> QED
  BY <1>1, <1>2, <1>3, <1>4, <1>5, <1>6, <1>7, <1>8, <1>9 DEF MemNext, MemStep

(* The cache tells what decoding would.                                     *)
LEMMA IInvCoherent ==
    IInv => CacheIsCoherent
<1> SUFFICES ASSUME IInv, NEW p \in Procs, Live(p),
                    NEW i \in DOMAIN space[p].icache, space[p].icache[i] # None
             PROVE  /\ space[p].icache[i] = Decoded(space[p], i - 1)
                    /\ i - 1 + space[p].icache[i].length <= space[p].text_end
  BY DEF CacheIsCoherent
<1> DEFINE m == space[p]
<1>1. Typed(m) /\ Coherent(m)
  BY DEF IInv, Keeps, Sound
<1> HIDE DEF m
<1>2. m.text_end \in Nat /\ DOMAIN m.icache = 1 .. m.text_end
  BY <1>1, TypedFacts
<1>3. i \in 1 .. m.text_end /\ m.icache[i] # None /\ i - 1 \in Nat
  BY <1>2 DEF m
<1>4. PICK o : /\ DecodesAt(m, i - 1, o) /\ m.icache[i] = EntryOf(m, i - 1, o)
               /\ i - 1 + Length(m, i - 1, o) <= m.text_end
  BY <1>1, <1>3 DEF Coherent
<1>5. Decoded(m, i - 1) = EntryOf(m, i - 1, o)
  BY <1>1, <1>3, <1>4, ThenDecoded
<1>6. m.icache[i].length = Length(m, i - 1, o)
  BY <1>4 DEF EntryOf
<1> QED BY <1>4, <1>5, <1>6 DEF m

(* Whatever is mapped reads as last stored.                                 *)
LEMMA IInvFlat ==
    IInv => MemoryIsFlat
<1> SUFFICES ASSUME IInv, NEW p \in Procs, Live(p), NEW a \in Addr, Mapped(space[p], a, 1)
             PROVE  Cell(space[p], a) = flat[p][a]
  BY DEF MemoryIsFlat
<1>1. flat[p] = FlatBytes(space[p])
  BY DEF IInv, Keeps
<1> QED BY <1>1 DEF FlatBytes

(* Whatever was stored, by whom and into what, an entry of the instruction  *)
(* cache is what the bytes of its process decode to now (_flush_icache,     *)
(* clone, CPU.run), as long as no instruction is longer than the flush      *)
(* reaches back and no heap has been stretched over the stack.              *)
THEOREM CacheTellsTheText ==
    MemSpec /\ []ShortInstructions /\ []HeapBelowStack => []CacheIsCoherent
<1>1. MemInit /\ HeapBelowStack => IInv
  BY IInvInit
<1>2. IInv /\ [MemNext]_memVars /\ ShortInstructions /\ HeapBelowStack' => IInv'
  BY IInvNext
<1>3. IInv => CacheIsCoherent
  BY IInvCoherent
<1> QED BY <1>1, <1>2, <1>3, PTL DEF MemSpec

(* The two arrays of a process, the stack that grows in front and the heap  *)
(* that grows behind, the copy of fork and the moves in one piece are one   *)
(* flat memory, written byte after byte (AddressSpace, _string_op_impl).    *)
THEOREM MemoryReadsAsStored ==
    MemSpec /\ []ShortInstructions /\ []HeapBelowStack => []MemoryIsFlat
<1>1. MemInit /\ HeapBelowStack => IInv
  BY IInvInit
<1>2. IInv /\ [MemNext]_memVars /\ ShortInstructions /\ HeapBelowStack' => IInv'
  BY IInvNext
<1>3. IInv => MemoryIsFlat
  BY IInvFlat
<1> QED BY <1>1, <1>2, <1>3, PTL DEF MemSpec

-----------------------------------------------------------------------------
(* The arguments of all programs.                                           *)

(* Filling the cache changes nothing else.                                  *)
LEMMA EntryAlone ==
    ASSUME NEW m, Typed(m), NEW eip
    PROVE  /\ LowEnd(WithEntry(m, eip)) = LowEnd(m) /\ StackLow(WithEntry(m, eip)) = StackLow(m)
           /\ WithEntry(m, eip).start_stack = m.start_stack
<1> DEFINE w == WithEntry(m, eip)
<1>1. w.low = m.low /\ w.stack = m.stack /\ w.start_stack = m.start_stack
  BY DEF Typed, Space, WithEntry
<1> HIDE DEF w
<1>2. LowEnd(w) = LowEnd(m) /\ StackLow(w) = StackLow(m)
  BY <1>1, SameBytes
<1> QED BY <1>1, <1>2 DEF w

(* brk moves the end of the heap only, and never back.                      *)
LEMMA BrkAlone ==
    ASSUME NEW m, Typed(m), NEW addr \in Int
    PROVE  /\ LowEnd(m) <= LowEnd(WithBrk(m, addr)) /\ StackLow(WithBrk(m, addr)) = StackLow(m)
           /\ WithBrk(m, addr).start_stack = m.start_stack
<1>1. LowEnd(m) \in Nat
  BY TypedFacts
<1> DEFINE k == Larger(addr - LowEnd(m), 0)
           low == m.low \o Zeros(k)
           w == [m EXCEPT !.low = low, !.brk = addr]
<1>2. WithBrk(m, addr) = m \/ WithBrk(m, addr) = w
  BY DEF WithBrk
<1>3. k \in Nat
  BY <1>1 DEF Larger
<1> HIDE DEF k
<1>4. Len(low) = Len(m.low) + k
  <2> DEFINE z == Zeros(k)
             t == m.low
  <2>1. t \in Seq(Byte) /\ z \in Seq(Byte) /\ Len(z) = k
    BY <1>3, TypedFacts, ZerosFacts
  <2> HIDE DEF z, t
  <2>2. Len(t \o z) = Len(t) + Len(z)
    BY <2>1, ConcatProperties
  <2> QED BY <2>1, <2>2 DEF z, t
<1> HIDE DEF low
<1>5. w.low = low /\ w.stack = m.stack /\ w.start_stack = m.start_stack
  BY DEF Typed, Space
<1> HIDE DEF w
<1>6. LowEnd(w) = LowEnd(m) + k /\ StackLow(w) = StackLow(m)
  BY <1>4, <1>5 DEF LowEnd, StackLow
<1>7. LowEnd(m) <= LowEnd(w)
  BY <1>1, <1>3, <1>6
<1> QED BY <1>1, <1>2, <1>5, <1>6, <1>7

(* What execve was given is remembered as it is, and is on the stack until  *)
(* the program stores something.                                            *)
Remembered(g) ==
    /\ g = [argv |-> g.argv, envp |-> g.envp, esp |-> g.esp, stores |-> g.stores]
    /\ g.stores \in Nat
Arrived(m, g) == Remembered(g) /\ (g.stores = 0 => HasStack(m, g.argv, g.envp, g.esp))
AllArrived == \A p \in Procs : Running(p) => Arrived(space[p], given[p])

(* In the beginning nothing runs.                                           *)
LEMMA ArrivedInit ==
    MemInit => AllArrived
<1> SUFFICES ASSUME MemInit, NEW p \in Procs PROVE ~Running(p)
  BY DEF AllArrived
<1> QED BY DEF MemInit, Running

(* A store is counted, and then nothing is promised.                        *)
LEMMA CountedArrives ==
    ASSUME NEW g, Remembered(g), NEW m
    PROVE  Arrived(m, [g EXCEPT !.stores = g.stores + 1])
<1> DEFINE h == [argv |-> g.argv, envp |-> g.envp, esp |-> g.esp, stores |-> g.stores + 1]
<1>1. [g EXCEPT !.stores = g.stores + 1] = h
  BY DEF Remembered
<1>2. g.stores + 1 \in Nat /\ g.stores + 1 # 0
  BY DEF Remembered
<1>3. /\ h = [argv |-> h.argv, envp |-> h.envp, esp |-> h.esp, stores |-> h.stores]
      /\ h.stores = g.stores + 1
  OBVIOUS
<1> HIDE DEF h
<1> QED BY <1>1, <1>2, <1>3 DEF Arrived, Remembered

(* The memory of one process changes.                                       *)
LEMMA OneArrives ==
    ASSUME IInv, AllArrived, NEW p \in Procs, NEW m, NEW g, g # None => Arrived(m, g),
           space' = [space EXCEPT ![p] = m], given' = [given EXCEPT ![p] = g]
    PROVE  AllArrived'
<1>1. /\ space' = [q \in Procs |-> IF q = p THEN m ELSE space[q]]
      /\ given' = [q \in Procs |-> IF q = p THEN g ELSE given[q]]
  BY DEF IInv
<1>2. ASSUME NEW q \in Procs, given'[q] # None PROVE Arrived(space'[q], given'[q])
  <2>1. CASE q = p
    BY <1>1, <1>2, <2>1
  <2>2. CASE q # p
    BY <1>1, <1>2, <2>2 DEF AllArrived, Running
  <2> QED BY <2>1, <2>2
<1> QED BY <1>2 DEF AllArrived, Running

(* execve: the stack is as setup_stack made it.                             *)
LEMMA ExecArrives ==
    ASSUME TextScripts, IInv, AllArrived, NEW p \in Procs, Exec(p), HeapBelowStack'
    PROVE  AllArrived'
<1>1. PICK s \in Started :
          LET m == s.result.m
          IN  /\ ~s.result.fault
              /\ space' = [space EXCEPT ![p] = m]
              /\ given' = [given EXCEPT ![p] = [argv |-> s.argv, envp |-> s.envp,
                                                esp |-> s.result.esp, stores |-> 0]]
              /\ flat'  = [flat EXCEPT ![p] = FlatBytes(m)]
  BY DEF Exec
<1> DEFINE m == s.result.m
           g == [argv |-> s.argv, envp |-> s.envp, esp |-> s.result.esp, stores |-> 0]
<1>2. Typed(m)
  BY StartedSound
<1>3. space'[p] = m
  BY <1>1 DEF IInv
<1>4. LowEnd(m) <= StackLow(m)
  BY <1>2, <1>3, SoundIsLive DEF HeapBelowStack, Live
<1>5. HasStack(m, s.argv, s.envp, s.result.esp)
  BY <1>1, <1>4, StartedArrives
<1>6. /\ g = [argv |-> g.argv, envp |-> g.envp, esp |-> g.esp, stores |-> g.stores]
      /\ g.argv = s.argv /\ g.envp = s.envp /\ g.esp = s.result.esp /\ g.stores = 0
  OBVIOUS
<1>7. space' = [space EXCEPT ![p] = m] /\ given' = [given EXCEPT ![p] = g]
  BY <1>1
<1> HIDE DEF m, g
<1>8. Arrived(m, g)
  BY <1>5, <1>6 DEF Arrived, Remembered
<1> QED BY <1>7, <1>8, OneArrives

(* fork: the child finds what its parent would.                             *)
LEMMA ForkArrives ==
    ASSUME IInv, AllArrived, NEW p \in Procs, NEW q \in Procs, Fork(p, q)
    PROVE  AllArrived'
<1> DEFINE m == space[p]
           g == given[p]
<1>1. Arrived(m, g)
  BY DEF Fork, AllArrived
<1>2. space' = [space EXCEPT ![q] = m] /\ given' = [given EXCEPT ![q] = g]
  BY DEF Fork
<1> HIDE DEF m, g
<1> QED BY <1>1, <1>2, OneArrives

(* exit: there is none any more.                                            *)
LEMMA ExitArrives ==
    ASSUME IInv, AllArrived, NEW p \in Procs, Exit(p)
    PROVE  AllArrived'
<1>1. space' = [space EXCEPT ![p] = None] /\ given' = [given EXCEPT ![p] = None]
  BY DEF Exit
<1> QED BY <1>1, OneArrives

(* A memory with the same bytes and no less room.                           *)
LEMMA SameArrives ==
    ASSUME IInv, AllArrived, NEW p \in Procs, Running(p), NEW w, Typed(w),
           LowEnd(space[p]) <= LowEnd(w), StackLow(w) <= StackLow(space[p]),
           FlatBytes(w) = FlatBytes(space[p]), w.start_stack = space[p].start_stack,
           space' = [space EXCEPT ![p] = w], given' = given
    PROVE  AllArrived'
<1> DEFINE m == space[p]
           g == given[p]
<1>1. Typed(m) /\ Arrived(m, g)
  BY DEF IInv, Keeps, Sound, AllArrived
<1>2. given' = [given EXCEPT ![p] = g]
  BY DEF IInv
<1>3. LowEnd(m) <= LowEnd(w) /\ StackLow(w) <= StackLow(m) /\ FlatBytes(w) = FlatBytes(m)
      /\ w.start_stack = m.start_stack
  OBVIOUS
<1> HIDE DEF m, g
<1>4. Arrived(w, g)
  BY <1>1, <1>3, StackStays DEF Arrived
<1> QED BY <1>2, <1>4, OneArrives

(* brk.                                                                     *)
LEMMA BrkArrives ==
    ASSUME IInv, AllArrived, NEW p \in Procs, NEW addr \in Targets, Brk(p, addr), HeapBelowStack'
    PROVE  AllArrived'
<1> DEFINE m == space[p]
           w == WithBrk(m, addr)
<1>1. Sound(m) /\ Typed(m)
  BY DEF Brk, IInv, Keeps, Sound
<1>2. addr \in Int
  BY MemoryAssumption, Constants DEF Addr
<1>3. Typed(w) /\ (LowEnd(w) <= StackLow(w) => FlatBytes(w) = FlatBytes(m))
  BY <1>1, <1>2, WithBrkSound
<1>4. space' = [space EXCEPT ![p] = w] /\ given' = given /\ Running(p)
  BY DEF Brk
<1>5. LowEnd(m) <= LowEnd(w) /\ StackLow(w) = StackLow(m) /\ w.start_stack = m.start_stack
  BY <1>1, <1>2, BrkAlone
<1>6. StackLow(m) \in Int
  BY <1>1, TypedFacts
<1> HIDE DEF w
<1>7. space'[p] = w
  BY <1>4 DEF IInv
<1>8. LowEnd(w) <= StackLow(w)
  BY <1>3, <1>7, SoundIsLive DEF HeapBelowStack, Live
<1>9. StackLow(w) <= StackLow(m)
  BY <1>5, <1>6
<1> QED BY <1>3, <1>4, <1>5, <1>8, <1>9, SameArrives

(* An instruction that leaves memory alone.                                 *)
LEMMA ExecuteArrives ==
    ASSUME IInv, AllArrived, NEW p \in Procs, NEW eip \in Addr, Execute(p, eip), ShortInstructions
    PROVE  AllArrived'
<1> DEFINE m == space[p]
           w == WithEntry(m, eip)
<1>1. Running(p) /\ Typed(m) /\ flat[p] = FlatBytes(m)
  BY DEF Execute, CanFetch, IInv, Keeps, Sound
<1>2. Typed(w) /\ FlatBytes(w) = FlatBytes(m)
  BY <1>1, FetchKeeps DEF Execute, Sound
<1>3. LowEnd(w) = LowEnd(m) /\ StackLow(w) = StackLow(m) /\ w.start_stack = m.start_stack
  BY <1>1, EntryAlone
<1>4. space' = [space EXCEPT ![p] = w] /\ given' = given
  BY DEF Execute
<1> HIDE DEF w
<1>5. LowEnd(m) <= LowEnd(w) /\ StackLow(w) <= StackLow(m)
  BY <1>1, <1>3, TypedFacts
<1> QED BY <1>1, <1>2, <1>3, <1>4, <1>5, SameArrives

(* An instruction that stores.                                              *)
LEMMA StoringArrives ==
    ASSUME IInv, AllArrived, NEW p \in Procs, Running(p), Counted(p), NEW m,
           space' = [space EXCEPT ![p] = m]
    PROVE  AllArrived'
<1> DEFINE g == given[p]
           h == [g EXCEPT !.stores = g.stores + 1]
<1>1. Remembered(g)
  BY DEF AllArrived, Arrived
<1>2. given' = [given EXCEPT ![p] = h]
  BY DEF Counted
<1> HIDE DEF g
<1>3. Arrived(m, h)
  BY <1>1, CountedArrives
<1> HIDE DEF h
<1> QED BY <1>2, <1>3, OneArrives

(* Every step keeps it.                                                     *)
LEMMA ArrivedNext ==
    ASSUME TextScripts, IInv, AllArrived, [MemNext]_memVars, ShortInstructions, HeapBelowStack'
    PROVE  AllArrived'
<1>1. ASSUME NEW p \in Procs, Exec(p) PROVE AllArrived'
  BY <1>1, ExecArrives
<1>2. ASSUME NEW p \in Procs, NEW q \in Procs, Fork(p, q) PROVE AllArrived'
  BY <1>2, ForkArrives
<1>3. ASSUME NEW p \in Procs, Exit(p) PROVE AllArrived'
  BY <1>3, ExitArrives
<1>4. ASSUME NEW p \in Procs, NEW addr \in Targets, Brk(p, addr) PROVE AllArrived'
  BY <1>4, BrkArrives
<1>5. ASSUME NEW p \in Procs, NEW eip \in Addr, Execute(p, eip) PROVE AllArrived'
  BY <1>5, ExecuteArrives
<1>6. ASSUME NEW p \in Procs, NEW eip \in Addr, NEW addr \in Targets, NEW data \in Datas,
             Store(p, eip, addr, data)
      PROVE  AllArrived'
  <2> DEFINE m == Write(WithEntry(space[p], eip), addr, data).m
  <2>1. Running(p) /\ Counted(p) /\ space' = [space EXCEPT ![p] = m]
    BY <1>6 DEF Store, CanFetch
  <2> HIDE DEF m
  <2> QED BY <2>1, StoringArrives
<1>7. ASSUME NEW back \in BOOLEAN, NEW p \in Procs, NEW eip \in Addr, NEW addr \in Targets,
             NEW data \in Datas, NEW cnt \in Counts, RepStos(p, eip, data, addr, cnt, back)
      PROVE  AllArrived'
  <2> DEFINE m == Filled(WithEntry(space[p], eip), data, addr, cnt, back).m
  <2>1. Running(p) /\ Counted(p) /\ space' = [space EXCEPT ![p] = m]
    BY <1>7 DEF RepStos, CanFetch
  <2> HIDE DEF m
  <2> QED BY <2>1, StoringArrives
<1>8. ASSUME NEW back \in BOOLEAN, NEW p \in Procs, NEW eip \in Addr, NEW src \in Targets,
             NEW dst \in Targets, NEW cnt \in Counts, NEW size \in 1 .. WORD,
             RepMovs(p, eip, src, dst, cnt, size, back)
      PROVE  AllArrived'
  <2> DEFINE m == Moved(WithEntry(space[p], eip), src, dst, cnt, size, back).m
  <2>1. Running(p) /\ Counted(p) /\ space' = [space EXCEPT ![p] = m]
    BY <1>8 DEF RepMovs, CanFetch
  <2> HIDE DEF m
  <2> QED BY <2>1, StoringArrives
<1>9. CASE UNCHANGED memVars
  BY <1>9 DEF memVars, AllArrived, Running
<1> QED
  BY <1>1, <1>2, <1>3, <1>4, <1>5, <1>6, <1>7, <1>8, <1>9 DEF MemNext, MemStep

(* What is there is what the program reads.                                 *)
LEMMA ArrivedIsRead ==
    IInv /\ AllArrived => ArgumentsArrive
<1> SUFFICES ASSUME IInv, AllArrived, NEW p \in Procs, Running(p), given[p].stores = 0
             PROVE  LET g == given[p]   m == space[p]
                    IN  /\ g.esp % WORD = 0 /\ m.start_stack <= g.esp
                        /\ WordAt(m, g.esp) = Len(g.argv)
                        /\ Vector(m, WordAt(m, g.esp + WORD), g.argv)
                        /\ Vector(m, WordAt(m, g.esp + 2 * WORD), g.envp)
  BY DEF ArgumentsArrive
<1> DEFINE g == given[p]
           m == space[p]
           argv == g.argv
           envp == g.envp
           image == StackImage(argv, envp)
<1>1. Typed(m) /\ LowEnd(m) <= StackLow(m)
  BY DEF IInv, Keeps, Sound
<1>2. HasStack(m, argv, envp, g.esp)
  BY DEF AllArrived, Arrived
<1>3. /\ argv \in Seq(Text) /\ envp \in Seq(Text) /\ g.esp = image.esp /\ m.start_stack <= g.esp
      /\ \A x \in Elems(image.writes) : Present(m, FlatBytes(m), x)
      /\ image = StackImage(argv, envp)
  BY <1>2 DEF HasStack
<1> HIDE DEF m, argv, envp, image
<1>4. /\ image.esp % WORD = 0 /\ WordAt(m, image.esp) = Len(argv)
      /\ Vector(m, WordAt(m, image.esp + WORD), argv)
      /\ Vector(m, WordAt(m, image.esp + 2 * WORD), envp)
  BY <1>1, <1>3, ImageIsRead
<1> QED BY <1>3, <1>4 DEF m, argv, envp

(* Until it stores something a program finds argc, argv and envp with every *)
(* string whole where create_tables of the kernel puts them, also after the *)
(* stack had to grow to hold them, after brk and in a child of fork         *)
(* (setup_stack, resolve_exec, read_cstr), as long as no script has a zero  *)
(* byte in its first line.                                                  *)
THEOREM ArgumentsAreRead ==
    ASSUME TextScripts
    PROVE  MemSpec /\ []ShortInstructions /\ []HeapBelowStack => []ArgumentsArrive
<1> DEFINE Inv == IInv /\ AllArrived
<1>1. MemInit /\ HeapBelowStack => Inv
  BY IInvInit, ArrivedInit
<1>2. Inv /\ [MemNext]_memVars /\ ShortInstructions /\ HeapBelowStack' => Inv'
  BY IInvNext, ArrivedNext
<1>3. Inv => ArgumentsArrive
  BY ArrivedIsRead
<1> QED BY <1>1, <1>2, <1>3, PTL DEF MemSpec
=============================================================================
