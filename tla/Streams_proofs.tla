----------------------------- MODULE Streams_proofs -----------------------------
(***************************************************************************)
(* Proofs about Streams, for any number of processes, descriptors and      *)
(* pipes, any capacity and any counts: no byte is lost, doubled or         *)
(* reordered, and pipes keep their contract.                               *)
(*                                                                         *)
(* The argument.  Every step of Streams is a step of Descriptors or leaves *)
(* the tables alone, so the counters stay exact here too (IInv).  That a   *)
(* pipe which refused a writer never takes a byte again rests on them: it  *)
(* has no reading descriptor, some OpenFile still refers to it, and as     *)
(* long as one does no descriptor can come back to that end.               *)
(***************************************************************************)
EXTENDS Streams, Descriptors_proofs

StreamType ==
    /\ buf \in [Pipes -> Seq(Byte)]
    /\ \A pp \in Pipes : Len(buf[pp]) <= Capacity
    /\ written \in [Pipes -> Byte]
    /\ taken \in [Pipes -> Byte]
    /\ call \in [Pids -> Call \cup {NoCall}]
    /\ asleep \subseteq Pids
    /\ refused \subseteq Pipes

(* A pipe that refused a writer is in use, and has no reader.               *)
RefusedUnread ==
    \A pp \in refused : readers[pp] = 0 /\ \E f \in Files : file[f].obj = pp

SInv == IInv /\ StreamType /\ BytesInOrder /\ RefusedUnread

-----------------------------------------------------------------------------
(* Numbering bytes.                                                         *)

(* Bytes are numbered round a circle that is longer than the pipe.          *)
LEMMA PlusIs ==
    ASSUME NEW a \in Byte, NEW n \in 0 .. Capacity
    PROVE  /\ Plus(a, n) = IF a + n <= Capacity THEN a + n ELSE a + n - (Capacity + 1)
           /\ Plus(a, n) \in Byte
<1>1. CASE a + n <= Capacity
  BY <1>1, StreamsAssumption DEF Plus, Byte
<1>2. CASE a + n > Capacity
  <2>1. (a + n) % (Capacity + 1) = a + n - (Capacity + 1)
    BY <1>2, StreamsAssumption DEF Byte
  <2> QED BY <1>2, <2>1, StreamsAssumption DEF Plus, Byte
<1> QED BY <1>1, <1>2, StreamsAssumption DEF Byte

(* Going on by m and then by n is going on by m + n.                        *)
LEMMA PlusPlus ==
    ASSUME NEW a \in Byte, NEW m \in Nat, NEW n \in Nat, m + n <= Capacity
    PROVE  Plus(Plus(a, m), n) = Plus(a, m + n)
<1>1. m \in 0 .. Capacity /\ n \in 0 .. Capacity /\ m + n \in 0 .. Capacity
  BY StreamsAssumption
<1>2. /\ Plus(a, m) = IF a + m <= Capacity THEN a + m ELSE a + m - (Capacity + 1)
      /\ Plus(a, m) \in Byte
  BY <1>1, PlusIs
<1>3. Plus(Plus(a, m), n) = IF Plus(a, m) + n <= Capacity THEN Plus(a, m) + n
                            ELSE Plus(a, m) + n - (Capacity + 1)
  BY <1>1, <1>2, PlusIs
<1>4. Plus(a, m + n) = IF a + (m + n) <= Capacity THEN a + (m + n)
                       ELSE a + (m + n) - (Capacity + 1)
  BY <1>1, PlusIs
<1> QED BY <1>1, <1>2, <1>3, <1>4, StreamsAssumption DEF Byte

(* What a read or write moves is at most what is there, and not nothing.    *)
LEMMA MovedBytes ==
    ASSUME NEW c \in Call, NEW n \in Nat
    PROVE  /\ Min2(c.count, n) \in 0 .. n
           /\ c.count \in Nat
BY StreamsAssumption DEF Min2, Call

(* What two sequences make together.                                        *)
LEMMA Concatenation ==
    ASSUME NEW S, NEW s \in Seq(S), NEW t \in Seq(S)
    PROVE  /\ s \o t \in Seq(S)
           /\ Len(s \o t) = Len(s) + Len(t)
           /\ \A i \in 1 .. Len(s) : (s \o t)[i] = s[i]
           /\ \A i \in Len(s) + 1 .. Len(s) + Len(t) : (s \o t)[i] = t[i - Len(s)]
OBVIOUS

(* What leaves the descriptor tables alone keeps their invariant.           *)
LEMMA SameTables ==
    ASSUME IInv, UNCHANGED descVars
    PROVE  IInv'
BY NextIInv

(* A sleeper's or a caller's descriptor denotes an OpenFile.                *)
LEMMA CalledFile ==
    ASSUME IInv, NEW p \in Pids, NEW d \in OpenFds(p)
    PROVE  fds[p][d] \in Files
BY DEF OpenFds, IInv

-----------------------------------------------------------------------------
(* One lemma per action.                                                    *)

(* The initial state satisfies the invariant.                               *)
LEMMA StreamInitSInv == StreamInit => SInv
<1> SUFFICES ASSUME StreamInit PROVE SInv
  OBVIOUS
<1>1. IInv
  BY InitIInv DEF StreamInit
<1>2. 0 \in Byte /\ 0 \in 0 .. Capacity
  BY StreamsAssumption DEF Byte
<1>3. StreamType
  BY <1>2, StreamsAssumption DEF StreamInit, StreamType
<1>4. Plus(0, 0) = 0
  BY <1>2, PlusIs, StreamsAssumption
<1>5. BytesInOrder
  BY <1>4 DEF StreamInit, BytesInOrder
<1>6. RefusedUnread
  BY DEF StreamInit, RefusedUnread
<1> QED BY <1>1, <1>3, <1>5, <1>6 DEF SInv

(* A read takes from the front what it counts as taken.                     *)
LEMMA ReadGetsOrder ==
    ASSUME SInv, NEW p \in Pids, NEW c \in Call, NEW pp \in Pipes, ReadGets(p, c, pp)
    PROVE  /\ buf' \in [Pipes -> Seq(Byte)] /\ taken' \in [Pipes -> Byte]
           /\ \A qq \in Pipes : Len(buf'[qq]) <= Capacity
           /\ BytesInOrder'
<1> DEFINE n == Min2(c.count, Len(buf[pp]))
           L == Len(buf[pp])
<1>1. /\ n > 0 /\ n \in Nat /\ L \in Nat /\ n <= L /\ L <= Capacity
      /\ buf' = [buf EXCEPT ![pp] = SubSeq(buf[pp], n + 1, L)]
      /\ taken' = [taken EXCEPT ![pp] = Plus(taken[pp], n)]
      /\ written' = written
  <2>1. L \in Nat /\ L <= Capacity
    BY DEF SInv, StreamType
  <2>2. n \in 0 .. L
    BY <2>1, MovedBytes
  <2> QED BY <2>1, <2>2 DEF ReadGets
<1> HIDE DEF n
<1>2. /\ buf \in [Pipes -> Seq(Byte)] /\ taken \in [Pipes -> Byte]
      /\ buf[pp] \in Seq(Byte) /\ taken[pp] \in Byte
      /\ \A qq \in Pipes : Len(buf[qq]) <= Capacity
  BY DEF SInv, StreamType
<1> DEFINE s == SubSeq(buf[pp], n + 1, L)
<1>3. /\ s \in Seq(Byte) /\ Len(s) = L - n
      /\ \A i \in 1 .. L - n : s[i] = buf[pp][i + n]
  BY <1>1, <1>2
<1>4. n \in 0 .. Capacity
  BY <1>1, StreamsAssumption
<1>5. Plus(taken[pp], n) \in Byte
  BY <1>2, <1>4, PlusIs
<1>6. /\ Plus(taken[pp], L) = written[pp]
      /\ \A i \in 1 .. L : buf[pp][i] = Plus(taken[pp], i - 1)
  BY <1>2 DEF SInv, BytesInOrder
<1>7. Plus(Plus(taken[pp], n), L - n) = written[pp]
  <2>1. L - n \in Nat /\ n + (L - n) <= Capacity /\ n + (L - n) = L
    BY <1>1
  <2>2. Plus(Plus(taken[pp], n), L - n) = Plus(taken[pp], n + (L - n))
    BY <1>1, <1>2, <2>1, PlusPlus
  <2> QED BY <1>6, <2>1, <2>2
<1>8. \A i \in 1 .. L - n : s[i] = Plus(Plus(taken[pp], n), i - 1)
  <2> TAKE i \in 1 .. L - n
  <2>1. /\ i - 1 \in Nat /\ n + (i - 1) <= Capacity /\ i + n \in 1 .. L
        /\ n + (i - 1) = (i + n) - 1
    BY <1>1, StreamsAssumption
  <2>2. Plus(Plus(taken[pp], n), i - 1) = Plus(taken[pp], n + (i - 1))
    BY <1>1, <1>2, <2>1, PlusPlus
  <2> QED BY <1>3, <1>6, <2>1, <2>2
<1> HIDE DEF s, L
<1>9. DOMAIN s = 1 .. L - n
  BY <1>3
<1>10. BytesInOrder'
  <2> SUFFICES ASSUME NEW qq \in Pipes
               PROVE  /\ Plus(taken'[qq], Len(buf'[qq])) = written'[qq]
                      /\ \A i \in DOMAIN buf'[qq] : buf'[qq][i] = Plus(taken'[qq], i - 1)
    BY DEF BytesInOrder
  <2>1. CASE qq = pp
    BY <1>1, <1>2, <1>3, <1>7, <1>8, <1>9, <2>1 DEF s
  <2>2. CASE qq # pp
    BY <1>1, <1>2, <2>2 DEF SInv, BytesInOrder
  <2> QED BY <2>1, <2>2
<1>11. \A qq \in Pipes : Len(buf'[qq]) <= Capacity
  <2>1. Len(s) <= Capacity
    BY <1>1, <1>3, StreamsAssumption
  <2> QED BY <1>1, <1>2, <2>1 DEF s
<1>12. buf' \in [Pipes -> Seq(Byte)] /\ taken' \in [Pipes -> Byte]
  BY <1>1, <1>2, <1>3, <1>5 DEF s
<1> QED BY <1>10, <1>11, <1>12

(* A write appends what it counts as written.                               *)
LEMMA WritePutsOrder ==
    ASSUME SInv, NEW p \in Pids, NEW c \in Call, NEW pp \in Pipes, WritePuts(p, c, pp)
    PROVE  /\ buf' \in [Pipes -> Seq(Byte)] /\ written' \in [Pipes -> Byte]
           /\ \A qq \in Pipes : Len(buf'[qq]) <= Capacity
           /\ BytesInOrder'
           /\ \E n \in 1 .. Capacity - Len(buf[pp]) : \E bytes \in [1 .. n -> Byte] :
                 buf' = [buf EXCEPT ![pp] = buf[pp] \o bytes]
<1> DEFINE n == Min2(c.count, Room(pp))
           L == Len(buf[pp])
           o == Offered(pp, n)
<1>1. /\ n > 0 /\ n \in Nat /\ L \in Nat /\ L + n <= Capacity /\ n \in 1 .. Capacity - L
      /\ buf' = [buf EXCEPT ![pp] = buf[pp] \o o]
      /\ written' = [written EXCEPT ![pp] = Plus(written[pp], n)]
      /\ taken' = taken
  <2>1. L \in Nat /\ L <= Capacity /\ Room(pp) = Capacity - L
    BY DEF SInv, StreamType, Room
  <2>2. Room(pp) \in Nat
    BY <2>1, StreamsAssumption
  <2>3. n \in 0 .. Capacity - L
    BY <2>1, <2>2, MovedBytes
  <2>4. /\ n > 0 /\ buf' = [buf EXCEPT ![pp] = buf[pp] \o o]
        /\ written' = [written EXCEPT ![pp] = Plus(written[pp], n)]
        /\ taken' = taken
    BY DEF WritePuts
  <2> HIDE DEF n, o
  <2> QED BY <2>1, <2>3, <2>4, StreamsAssumption
<1>2. o = [i \in 1 .. n |-> Plus(written[pp], i - 1)]
  BY DEF Offered
<1> HIDE DEF n, o
<1>3. /\ buf \in [Pipes -> Seq(Byte)] /\ written \in [Pipes -> Byte] /\ taken \in [Pipes -> Byte]
      /\ buf[pp] \in Seq(Byte) /\ written[pp] \in Byte /\ taken[pp] \in Byte
      /\ \A qq \in Pipes : Len(buf[qq]) <= Capacity
  BY DEF SInv, StreamType
<1>4. o \in [1 .. n -> Byte]
  <2>1. \A i \in 1 .. n : i - 1 \in 0 .. Capacity
    BY <1>1, StreamsAssumption
  <2> QED BY <1>2, <1>3, <2>1, PlusIs
<1>5. o \in Seq(Byte) /\ Len(o) = n
  BY <1>1, <1>4
<1> DEFINE s == buf[pp] \o o
<1>6. /\ s \in Seq(Byte) /\ Len(s) = L + n
      /\ \A i \in 1 .. L : s[i] = buf[pp][i]
      /\ \A i \in L + 1 .. L + n : s[i] = o[i - L]
  <2> HIDE DEF s
  <2> QED BY <1>3, <1>5, Concatenation DEF s
<1>7. /\ Plus(taken[pp], L) = written[pp]
      /\ \A i \in 1 .. L : buf[pp][i] = Plus(taken[pp], i - 1)
  BY <1>3 DEF SInv, BytesInOrder
<1>8. Plus(taken[pp], L + n) = Plus(written[pp], n)
  BY <1>1, <1>3, <1>7, PlusPlus
<1>9. \A i \in 1 .. L + n : s[i] = Plus(taken[pp], i - 1)
  <2> TAKE i \in 1 .. L + n
  <2>1. CASE i \in 1 .. L
    BY <1>6, <1>7, <2>1
  <2>2. CASE i \notin 1 .. L
    <3>1. /\ i \in L + 1 .. L + n /\ i - L \in 1 .. n /\ i - L - 1 \in Nat
          /\ L + (i - L - 1) <= Capacity /\ L + (i - L - 1) = i - 1
      BY <1>1, <2>2, StreamsAssumption
    <3>2. s[i] = Plus(written[pp], (i - L) - 1)
      BY <1>2, <1>6, <3>1
    <3>3. Plus(Plus(taken[pp], L), i - L - 1) = Plus(taken[pp], L + (i - L - 1))
      BY <1>1, <1>3, <3>1, PlusPlus
    <3> QED BY <1>7, <3>1, <3>2, <3>3
  <2> QED BY <2>1, <2>2
<1> HIDE DEF s, L
<1>10. DOMAIN s = 1 .. L + n
  BY <1>6
<1>11. BytesInOrder'
  <2> SUFFICES ASSUME NEW qq \in Pipes
               PROVE  /\ Plus(taken'[qq], Len(buf'[qq])) = written'[qq]
                      /\ \A i \in DOMAIN buf'[qq] : buf'[qq][i] = Plus(taken'[qq], i - 1)
    BY DEF BytesInOrder
  <2>1. CASE qq = pp
    BY <1>1, <1>3, <1>6, <1>8, <1>9, <1>10, <2>1 DEF s
  <2>2. CASE qq # pp
    BY <1>1, <1>3, <2>2 DEF SInv, BytesInOrder
  <2> QED BY <2>1, <2>2
<1>12. \A qq \in Pipes : Len(buf'[qq]) <= Capacity
  <2>1. Len(s) <= Capacity
    BY <1>1, <1>6
  <2> QED BY <1>1, <1>3, <2>1 DEF s
<1>13. Plus(written[pp], n) \in Byte
  <2>1. n \in 0 .. Capacity
    BY <1>1, StreamsAssumption
  <2> QED BY <1>3, <2>1, PlusIs
<1>14. buf' \in [Pipes -> Seq(Byte)] /\ written' \in [Pipes -> Byte]
  BY <1>1, <1>3, <1>6, <1>13 DEF s
<1>15. \E k \in 1 .. Capacity - Len(buf[pp]) : \E bytes \in [1 .. k -> Byte] :
          buf' = [buf EXCEPT ![pp] = buf[pp] \o bytes]
  BY <1>1, <1>4 DEF L
<1> QED BY <1>11, <1>12, <1>14, <1>15

(* A call returns, or puts its process to sleep, with its type kept.        *)
LEMMA CallTypes ==
    ASSUME StreamType, NEW p \in Pids, NEW c \in Call, Returns(p) \/ Blocks(p, c)
    PROVE  call' \in [Pids -> Call \cup {NoCall}] /\ asleep' \subseteq Pids
BY DEF StreamType, Returns, Blocks

(* A read or write of a pipe keeps the invariant.                           *)
LEMMA DoCallSInv ==
    ASSUME SInv, NEW p \in Pids, NEW c \in Call, DoCall(p, c)
    PROVE  SInv'
<1>1. /\ fds' = fds /\ close_on_exec' = close_on_exec /\ file' = file
      /\ readers' = readers /\ writers' = writers /\ open_refs' = open_refs
  BY DEF DoCall, descVars
<1>2. IInv'
  BY SameTables DEF DoCall, SInv
<1>3. PICK pp \in Pipes :
        /\ file[fds[p][c.fd]].obj = pp
        /\ \/ ReadGets(p, c, pp) \/ ReadEnds(p, c, pp) \/ ReadBlocks(p, c, pp)
           \/ WritePuts(p, c, pp) \/ WriteFails(p, c, pp) \/ WriteBlocks(p, c, pp)
  BY DEF DoCall
<1>4. fds[p][c.fd] \in Files
  BY CalledFile DEF DoCall, SInv
<1>5. StreamType /\ BytesInOrder /\ RefusedUnread
  BY DEF SInv
<1>6. ASSUME refused' = refused PROVE RefusedUnread'
  BY <1>1, <1>5, <1>6 DEF RefusedUnread
<1>7. ASSUME UNCHANGED <<buf, written, taken>> PROVE BytesInOrder'
  BY <1>5, <1>7 DEF BytesInOrder, Plus
<1>8. CASE ReadGets(p, c, pp)
  <2>1. /\ buf' \in [Pipes -> Seq(Byte)] /\ taken' \in [Pipes -> Byte]
        /\ \A qq \in Pipes : Len(buf'[qq]) <= Capacity
        /\ BytesInOrder'
    BY <1>8, ReadGetsOrder
  <2>2. Returns(p) /\ written' = written /\ refused' = refused
    BY <1>8 DEF ReadGets
  <2>3. StreamType'
    BY <1>5, <2>1, <2>2, CallTypes DEF StreamType
  <2> QED BY <1>2, <1>6, <2>1, <2>2, <2>3 DEF SInv
<1>9. CASE WritePuts(p, c, pp)
  <2>1. /\ buf' \in [Pipes -> Seq(Byte)] /\ written' \in [Pipes -> Byte]
        /\ \A qq \in Pipes : Len(buf'[qq]) <= Capacity
        /\ BytesInOrder'
    BY <1>9, WritePutsOrder
  <2>2. Returns(p) /\ taken' = taken /\ refused' = refused
    BY <1>9 DEF WritePuts
  <2>3. StreamType'
    BY <1>5, <2>1, <2>2, CallTypes DEF StreamType
  <2> QED BY <1>2, <1>6, <2>1, <2>2, <2>3 DEF SInv
<1>10. CASE WriteFails(p, c, pp)
  <2>1. /\ Returns(p) /\ UNCHANGED <<buf, written, taken>>
        /\ refused' = refused \cup {pp} /\ readers[pp] = 0
    BY <1>10 DEF WriteFails
  <2>2. RefusedUnread'
    BY <1>1, <1>3, <1>4, <1>5, <2>1 DEF RefusedUnread
  <2>3. StreamType'
    BY <1>5, <2>1, CallTypes DEF StreamType
  <2> QED BY <1>2, <1>7, <2>1, <2>2, <2>3 DEF SInv
<1>11. CASE ReadEnds(p, c, pp) \/ ReadBlocks(p, c, pp) \/ WriteBlocks(p, c, pp)
  <2>1. /\ Returns(p) \/ Blocks(p, c)
        /\ UNCHANGED <<buf, written, taken, refused>>
    BY <1>11 DEF ReadEnds, ReadBlocks, WriteBlocks, Blocks
  <2>2. StreamType'
    BY <1>5, <2>1, CallTypes DEF StreamType
  <2> QED BY <1>2, <1>6, <1>7, <2>1, <2>2 DEF SInv
<1> QED BY <1>3, <1>8, <1>9, <1>10, <1>11

(* Waking a sleeper, for its condition or a signal, keeps the invariant.    *)
LEMMA WakingSInv ==
    ASSUME SInv, NEW p \in Pids, Wake(p) \/ Interrupt(p)
    PROVE  SInv'
<1>1. /\ fds' = fds /\ close_on_exec' = close_on_exec /\ file' = file
      /\ readers' = readers /\ writers' = writers /\ open_refs' = open_refs
      /\ UNCHANGED descVars
      /\ UNCHANGED <<buf, written, taken, refused>>
      /\ asleep' \subseteq asleep
      /\ call' = call \/ call' = [call EXCEPT ![p] = NoCall]
  BY DEF Wake, Interrupt, descVars
<1>2. StreamType'
  BY <1>1 DEF SInv, StreamType
<1>3. BytesInOrder' /\ RefusedUnread'
  BY <1>1 DEF SInv, BytesInOrder, RefusedUnread, Plus
<1>4. IInv'
  BY <1>1, SameTables DEF SInv
<1> QED BY <1>2, <1>3, <1>4 DEF SInv

(* A descriptor operation keeps the invariant: pipes that become garbage    *)
(* start from nothing, and a pipe that refused a writer stays unread.       *)
LEMMA DescriptorStepSInv ==
    ASSUME SInv, NEW p \in Pids, DescriptorStep(p)
    PROVE  SInv'
<1> DEFINE live == {pp \in Pipes : \E f \in Files : file'[f].obj = pp}
<1>1. /\ Operation(p)
      /\ buf'     = [pp \in Pipes |-> IF pp \in live THEN buf[pp] ELSE <<>>]
      /\ written' = [pp \in Pipes |-> IF pp \in live THEN written[pp] ELSE 0]
      /\ taken'   = [pp \in Pipes |-> IF pp \in live THEN taken[pp] ELSE 0]
      /\ refused' = refused \cap live
      /\ call' = call /\ asleep' = asleep
  BY DEF DescriptorStep
<1>2. IInv'
  BY <1>1, NextIInv DEF SInv, Next
<1>3. RefusedUnread'
  <2> SUFFICES ASSUME NEW pp \in refused'
               PROVE  readers'[pp] = 0 /\ \E f \in Files : file'[f].obj = pp
    BY DEF RefusedUnread
  <2>1. pp \in refused /\ pp \in Pipes /\ \E f \in Files : file'[f].obj = pp
    BY <1>1
  <2>2. readers[pp] = 0 /\ \E f \in Files : file[f].obj = pp
    BY <2>1 DEF SInv, RefusedUnread
  <2> QED BY <1>1, <2>1, <2>2, NoEndComesBack DEF SInv
<1> HIDE DEF live
<1>4. 0 \in Byte /\ Plus(0, 0) = 0
  BY PlusIs, StreamsAssumption DEF Byte
<1>5. StreamType'
  BY <1>1, <1>4, StreamsAssumption DEF SInv, StreamType
<1>6. BytesInOrder'
  <2> SUFFICES ASSUME NEW pp \in Pipes
               PROVE  /\ Plus(taken'[pp], Len(buf'[pp])) = written'[pp]
                      /\ \A i \in DOMAIN buf'[pp] : buf'[pp][i] = Plus(taken'[pp], i - 1)
    BY DEF BytesInOrder
  <2>1. CASE pp \in live
    BY <1>1, <2>1 DEF SInv, BytesInOrder
  <2>2. CASE pp \notin live
    BY <1>1, <1>4, <2>2
  <2> QED BY <2>1, <2>2
<1> QED BY <1>2, <1>3, <1>5, <1>6 DEF SInv

(* One case per action of Streams.                                          *)
LEMMA StreamNextSInv == SInv /\ [StreamNext]_streamVars => SInv'
<1>1. ASSUME SInv, UNCHANGED streamVars
      PROVE  SInv'
  <2>1. IInv'
    BY <1>1, SameTables DEF streamVars, SInv
  <2> QED BY <1>1, <2>1 DEF streamVars, descVars, SInv, StreamType, BytesInOrder, RefusedUnread,
                            Plus
<1> QED BY <1>1, DoCallSInv, WakingSInv, DescriptorStepSInv DEF StreamNext

(* The invariant holds in every reachable state.                            *)
THEOREM StreamInvariantHolds == StreamSpec => []SInv
BY StreamInitSInv, StreamNextSInv, PTL DEF StreamSpec

(* Whatever processes share a pipe and however they are interrupted, it     *)
(* holds exactly the bytes between what was taken and what was written.     *)
THEOREM BytesStayInOrder == StreamSpec => []BytesInOrder
BY StreamInvariantHolds, PTL DEF SInv

(* The counters of the descriptor tables stay exact while processes sleep in,  *)
(* redo and lose the calls that use them.                                   *)
THEOREM CountersStayExact == StreamSpec => [](TypeOK /\ RefsExact /\ PipeEndsExact /\ OpenRefsExact)
<1>1. SInv => TypeOK /\ RefsExact /\ PipeEndsExact /\ OpenRefsExact
  BY IInvImplies DEF SInv
<1> QED BY <1>1, StreamInvariantHolds, PTL

-----------------------------------------------------------------------------
(* Streams implements PipeContract.                                         *)

(* Every step of Streams is a step of the contract, or none.                *)
LEMMA StepKeepsContract ==
    ASSUME SInv, [StreamNext]_streamVars
    PROVE  [Contract!Next]_(Contract!vars)
<1>1. StreamType
  BY DEF SInv
<1>2. ASSUME UNCHANGED <<buf, refused>>
      PROVE  UNCHANGED Contract!vars
  BY <1>2 DEF Contract!vars
<1>3. CASE UNCHANGED streamVars
  BY <1>2, <1>3 DEF streamVars
<1>4. ASSUME NEW p \in Pids, Wake(p) \/ Interrupt(p)
      PROVE  UNCHANGED Contract!vars
  BY <1>2, <1>4 DEF Wake, Interrupt
<1>5. ASSUME NEW p \in Pids, NEW c \in Call, DoCall(p, c)
      PROVE  Contract!Next \/ UNCHANGED Contract!vars
  <2>1. PICK pp \in Pipes :
          \/ ReadGets(p, c, pp) \/ ReadEnds(p, c, pp) \/ ReadBlocks(p, c, pp)
          \/ WritePuts(p, c, pp) \/ WriteFails(p, c, pp) \/ WriteBlocks(p, c, pp)
    BY <1>5 DEF DoCall
  <2>2. CASE ReadGets(p, c, pp)
    <3>1. Len(buf[pp]) \in Nat
      BY <1>1 DEF StreamType
    <3>2. PICK n \in 1 .. Len(buf[pp]) :
              buf' = [buf EXCEPT ![pp] = SubSeq(buf[pp], n + 1, Len(buf[pp]))]
      <4> DEFINE m == Min2(c.count, Len(buf[pp]))
      <4>1. m \in 0 .. Len(buf[pp])
        BY <3>1, MovedBytes
      <4>2. m > 0 /\ buf' = [buf EXCEPT ![pp] = SubSeq(buf[pp], m + 1, Len(buf[pp]))]
        BY <2>2 DEF ReadGets
      <4> HIDE DEF m
      <4>3. m \in 1 .. Len(buf[pp])
        BY <3>1, <4>1, <4>2
      <4> QED BY <4>2, <4>3
    <3>3. refused' = refused
      BY <2>2 DEF ReadGets
    <3> QED BY <3>2, <3>3 DEF Contract!Next, Contract!Take
  <2>3. CASE WritePuts(p, c, pp)
    <3>1. \E n \in 1 .. Capacity - Len(buf[pp]) : \E bytes \in [1 .. n -> Byte] :
              buf' = [buf EXCEPT ![pp] = buf[pp] \o bytes]
      BY <2>3, WritePutsOrder
    <3>2. readers[pp] > 0 /\ refused' = refused
      BY <2>3 DEF WritePuts
    <3>3. pp \notin refused
      BY <3>2 DEF SInv, RefusedUnread
    <3> QED BY <3>1, <3>2, <3>3 DEF Contract!Next, Contract!Put
  <2>4. CASE WriteFails(p, c, pp)
    BY <2>4 DEF WriteFails, Contract!Next, Contract!Refuse
  <2>5. CASE ReadEnds(p, c, pp) \/ ReadBlocks(p, c, pp) \/ WriteBlocks(p, c, pp)
    BY <1>2, <2>5 DEF ReadEnds, ReadBlocks, WriteBlocks, Blocks
  <2> QED BY <2>1, <2>2, <2>3, <2>4, <2>5
<1>6. ASSUME NEW p \in Pids, DescriptorStep(p)
      PROVE  Contract!Next
  <2> DEFINE live == {pp \in Pipes : \E f \in Files : file'[f].obj = pp}
             gone == Pipes \ live
  <2>1. /\ buf' = [pp \in Pipes |-> IF pp \in live THEN buf[pp] ELSE <<>>]
        /\ refused' = refused \cap live
    BY <1>6 DEF DescriptorStep
  <2>2. /\ buf' = [pp \in Pipes |-> IF pp \in gone THEN <<>> ELSE buf[pp]]
        /\ refused' = refused \ gone
    <3> HIDE DEF live
    <3> QED BY <1>1, <2>1 DEF StreamType
  <2>3. gone \in SUBSET Pipes
    OBVIOUS
  <2> HIDE DEF gone
  <2> QED BY <2>2, <2>3 DEF Contract!Next, Contract!Forget
<1> QED BY <1>3, <1>4, <1>5, <1>6 DEF StreamNext

(* Pipes keep their contract: bytes come out in the order they went in, at  *)
(* most Capacity of them wait, and once a writer was refused no byte is     *)
(* accepted again.                                                          *)
THEOREM PipesKeepContract == StreamSpec => KeepsContract
<1>1. StreamInit => Contract!Init
  BY DEF StreamInit, Contract!Init
<1>2. SInv /\ [StreamNext]_streamVars => [Contract!Next]_(Contract!vars)
  BY StepKeepsContract
<1> QED BY <1>1, <1>2, StreamInvariantHolds, PTL DEF StreamSpec, KeepsContract, Contract!Spec
=============================================================================
