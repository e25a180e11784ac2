------------------------------- MODULE Fsck_proofs -------------------------------
(***************************************************************************)
(* Proofs about Image and Fsck, for any images, any size of a block and    *)
(* any number of direct zones: what is read of a file is that part of it,  *)
(* and check_fs reports nothing exactly when the image is sound.           *)
(*                                                                         *)
(* The argument.  What check_inode collects of a file are the zones the    *)
(* reader finds (DataRefsAre), so that the size is right exactly when no   *)
(* block is missing or beyond the end, and Sound can be said of the        *)
(* references (SoundIs).  The traversal keeps what it has to say of the    *)
(* inodes looked at, Faultless, equal to what it has reported, and what    *)
(* the entries it met name is looked at or still on the stack              *)
(* (Traversed).  When the stack is empty, what was looked at is the tree.  *)
(***************************************************************************)
EXTENDS FileSystem, Counting, SequenceTheorems, FiniteSetTheorems, TLAPS

-----------------------------------------------------------------------------
(* Reading.                                                                 *)

(* What the assumptions say of the constants.                               *)
LEMMA Sizes == NDirect \in Nat /\ NDirect > 0 /\ BlockSize \in Nat /\ BlockSize > 0
BY ImageAssumption

UnitsOf(im) == {ZeroUnit} \cup UNION {Range(im.block[z]) : z \in DataZones(im)}
Block(im) == [1 .. BlockSize -> UnitsOf(im)]

(* Whatever is read is a block of units (read_block).                       *)
LEMMA BlockRead ==
    ASSUME NEW im, Readable(im), NEW z
    PROVE  ReadBlock(im, z) \in Block(im)
<1>1. Hole \in Block(im)
  BY DEF Hole, Block, UnitsOf
<1>2. ASSUME NEW y \in DataZones(im) PROVE im.block[y] \in Block(im)
  <2>1. im.block[y] \in [1 .. BlockSize -> Range(im.block[y])]
    BY DEF Readable
  <2>2. Range(im.block[y]) \subseteq UnitsOf(im)
    BY DEF UnitsOf
  <2> QED BY <2>1, <2>2 DEF Block
<1> QED BY <1>1, <1>2 DEF ReadBlock

(* A place is so far into its block.                                        *)
LEMMA DivSplit ==
    ASSUME NEW d \in Nat
    PROVE  /\ d \div BlockSize \in Nat /\ d % BlockSize \in 0 .. BlockSize - 1
           /\ d = (d \div BlockSize) * BlockSize + (d % BlockSize)
<1> DEFINE q == d \div BlockSize
           p == d % BlockSize
<1>1. q \in Int /\ p \in 0 .. BlockSize - 1 /\ d = BlockSize * q + p
  BY Sizes
<1> HIDE DEF q, p
<1>2. BlockSize * q = q * BlockSize /\ q * BlockSize \in Int
  BY <1>1, Sizes
<1>3. q \in Nat
  <2>1. SUFFICES ASSUME q <= -1 PROVE FALSE
    BY <1>1
  <2> DEFINE e == -1 - q
  <2>2. e \in Nat /\ q = -1 - e
    BY <1>1, <2>1
  <2> HIDE DEF e
  <2>3. q * BlockSize = - BlockSize - e * BlockSize /\ e * BlockSize \in Nat
    BY <2>2, Sizes
  <2> QED BY <2>3, <1>1, <1>2, Sizes
<1>4. d = q * BlockSize + p
  BY <1>1, <1>2
<1> QED BY <1>1, <1>3, <1>4 DEF q, p

LEMMA DivMod ==
    ASSUME NEW j \in Nat, NEW k \in 0 .. BlockSize - 1
    PROVE  /\ j * BlockSize + k \in Nat
           /\ (j * BlockSize + k) \div BlockSize = j
           /\ ((j * BlockSize) + k) % BlockSize = k
<1> DEFINE d == j * BlockSize + k
           q == d \div BlockSize
           p == d % BlockSize
<1>1. d \in Nat
  BY Sizes
<1>2. q \in Nat /\ p \in 0 .. BlockSize - 1 /\ d = q * BlockSize + p
  BY <1>1, DivSplit
<1>3. j * BlockSize + k = q * BlockSize + p
  BY <1>2
<1> HIDE DEF q, p, d
<1>4. CASE q >= j + 1
  <2> DEFINE e == q - (j + 1)
  <2>1. e \in Nat /\ q = j + 1 + e
    BY <1>2, <1>4
  <2> HIDE DEF e
  <2>2. q * BlockSize = j * BlockSize + BlockSize + e * BlockSize /\ e * BlockSize \in Nat /\ j * BlockSize \in Nat
    BY <2>1, Sizes
  <2> QED BY <1>2, <1>3, <2>2, Sizes
<1>5. CASE q <= j - 1
  <2> DEFINE e == j - 1 - q
  <2>1. e \in Nat /\ j = q + 1 + e
    BY <1>2, <1>5
  <2> HIDE DEF e
  <2>2. j * BlockSize = q * BlockSize + BlockSize + e * BlockSize /\ e * BlockSize \in Nat /\ q * BlockSize \in Nat
    BY <2>1, <1>2, Sizes
  <2> QED BY <1>2, <1>3, <2>2, Sizes
<1>6. CASE q = j
  <2>1. q * BlockSize = j * BlockSize /\ j * BlockSize \in Nat
    BY <1>6, Sizes
  <2> QED BY <1>2, <1>3, <1>6, <2>1, <1>1 DEF p, q, d
<1> QED BY <1>2, <1>4, <1>5, <1>6

(* The units a + 1 .. b of a file.                                          *)
Between(im, i, a, b) == [k \in 1 .. b - a |-> UnitAt(im, i, a + k)]

LEMMA UnitRead ==
    ASSUME NEW im, Readable(im), NEW i, NEW k \in Nat, k > 0
    PROVE  UnitAt(im, i, k) \in UnitsOf(im)
<1>1. ((k - 1) % BlockSize) + 1 \in 1 .. BlockSize
  BY DivSplit, Sizes
<1>2. ReadBlock(im, ZoneAt(im, i, (k - 1) \div BlockSize)) \in Block(im)
  BY BlockRead
<1> QED BY <1>1, <1>2 DEF UnitAt, Block

LEMMA BetweenIsSeq ==
    ASSUME NEW im, Readable(im), NEW i, NEW a \in Nat, NEW b \in Nat
    PROVE  /\ Between(im, i, a, b) \in Seq(UnitsOf(im))
           /\ Len(Between(im, i, a, b)) = IF a <= b THEN b - a ELSE 0
           /\ \A k \in 1 .. b - a : Between(im, i, a, b)[k] = UnitAt(im, i, a + k)
<1>1. \A k \in 1 .. b - a : UnitAt(im, i, a + k) \in UnitsOf(im)
  BY UnitRead
<1>2. CASE a <= b
  <2>1. b - a \in Nat
    BY <1>2
  <2> DEFINE s == Between(im, i, a, b)
  <2>2. s \in [1 .. b - a -> UnitsOf(im)]
    BY <1>1 DEF Between
  <2>3. \A k \in 1 .. b - a : s[k] = UnitAt(im, i, a + k)
    BY DEF Between
  <2> HIDE DEF s
  <2>4. s \in Seq(UnitsOf(im)) /\ Len(s) = b - a
    BY <2>1, <2>2
  <2> QED BY <2>3, <2>4, <1>2 DEF s
<1>3. CASE ~(a <= b)
  <2>1. 1 .. b - a = {} /\ b - a \in Int
    BY <1>3
  <2>2. Between(im, i, a, b) = <<>>
    BY <2>1 DEF Between
  <2> QED BY <2>1, <2>2, <1>3, EmptySeq
<1> QED BY <1>2, <1>3

(* Two pieces that meet.                                                    *)
LEMMA BetweenJoins ==
    ASSUME NEW im, Readable(im), NEW i, NEW a \in Nat, NEW b \in Nat, NEW c \in Nat, a <= b, b <= c
    PROVE  Between(im, i, a, b) \o Between(im, i, b, c) = Between(im, i, a, c)
<1> DEFINE s == Between(im, i, a, b)
           t == Between(im, i, b, c)
           u == Between(im, i, a, c)
<1>1. /\ s \in Seq(UnitsOf(im)) /\ t \in Seq(UnitsOf(im)) /\ u \in Seq(UnitsOf(im))
      /\ Len(s) = b - a /\ Len(t) = c - b /\ Len(u) = c - a
      /\ \A k \in 1 .. b - a : s[k] = UnitAt(im, i, a + k)
      /\ \A k \in 1 .. c - b : t[k] = UnitAt(im, i, b + k)
      /\ \A k \in 1 .. c - a : u[k] = UnitAt(im, i, a + k)
  <2>1. a <= c
    OBVIOUS
  <2> QED BY <2>1, BetweenIsSeq
<1> HIDE DEF s, t, u
<1>2. /\ s \o t \in Seq(UnitsOf(im)) /\ Len(s \o t) = c - a
      /\ \A k \in 1 .. c - a : (s \o t)[k] = IF k <= b - a THEN s[k] ELSE t[k - (b - a)]
  <2>1. (b - a) + (c - b) = c - a
    OBVIOUS
  <2>2. /\ s \o t \in Seq(UnitsOf(im)) /\ Len(s \o t) = Len(s) + Len(t)
        /\ \A k \in 1 .. Len(s) + Len(t) : (s \o t)[k] = IF k <= Len(s) THEN s[k] ELSE t[k - Len(s)]
    BY <1>1, ConcatProperties
  <2> QED BY <1>1, <2>1, <2>2
<1>3. ASSUME NEW k \in 1 .. c - a PROVE (s \o t)[k] = u[k]
  <2>1. CASE k <= b - a
    BY <2>1, <1>1, <1>2
  <2>2. CASE ~(k <= b - a)
    <3>1. k - (b - a) \in 1 .. c - b /\ b + (k - (b - a)) = a + k
      BY <2>2
    <3>2. (s \o t)[k] = t[k - (b - a)]
      BY <2>2, <1>2
    <3> QED BY <3>1, <3>2, <1>1
  <2> QED BY <2>1, <2>2
<1>4. s \o t = u
  BY <1>1, <1>2, <1>3, SeqEqual
<1> QED BY <1>4 DEF s, t, u

(* The part of a file that lies in one block.                               *)
LEMMA PartOfFile ==
    ASSUME NEW im, Readable(im), NEW i, NEW offset \in Nat, NEW end \in Nat, NEW block \in Nat,
           offset <= end, offset <= block * BlockSize + BlockSize, block * BlockSize <= end
    PROVE  SubSeq(ReadBlock(im, ZoneAt(im, i, block)),
                  MostOf(offset - block * BlockSize, 0) + 1, LeastOf(end - block * BlockSize, BlockSize)) =
           Between(im, i, MostOf(offset, block * BlockSize), LeastOf(end, block * BlockSize + BlockSize))
<1> DEFINE p == block * BlockSize
           r == ReadBlock(im, ZoneAt(im, i, block))
           a == MostOf(offset, p)
           b == LeastOf(end, p + BlockSize)
           m == MostOf(offset - p, 0) + 1
           n == LeastOf(end - p, BlockSize)
           s == SubSeq(r, m, n)
           t == Between(im, i, a, b)
<1>1. p \in Nat
  BY Sizes
<1>2. r \in Block(im)
  BY BlockRead
<1>3. ASSUME NEW k \in 0 .. BlockSize - 1 PROVE UnitAt(im, i, p + (k + 1)) = r[k + 1]
  <2>1. (p + (k + 1)) - 1 = p + k
    BY <1>1
  <2>2. (p + k) \div BlockSize = block /\ (p + k) % BlockSize = k
    BY DivMod
  <2> HIDE DEF p
  <2> QED BY <2>1, <2>2 DEF UnitAt
<1> HIDE DEF p, r
<1>4. /\ a \in Nat /\ b \in Nat /\ a <= b /\ m - 1 = a - p /\ n = b - p
      /\ m \in Nat /\ m >= 1 /\ n \in Nat /\ n <= BlockSize /\ m <= n + 1
  <2>1. offset <= end /\ offset <= p + BlockSize /\ p <= end
    BY DEF p
  <2> QED BY <1>1, <2>1, Sizes DEF MostOf, LeastOf
<1> HIDE DEF a, b, m, n
<1>5. \A k \in m .. n : r[k] \in UnitsOf(im)
  <2>1. \A k \in m .. n : k \in 1 .. BlockSize
    BY <1>4, Sizes
  <2> QED BY <1>2, <2>1 DEF Block
<1>6. /\ s \in Seq(UnitsOf(im))
      /\ Len(s) = IF m <= n THEN n - m + 1 ELSE 0
      /\ \A k \in 1 .. n - m + 1 : s[k] = r[m + k - 1]
  BY <1>4, <1>5, SubSeqProperties
<1>7. /\ t \in Seq(UnitsOf(im)) /\ Len(t) = b - a
      /\ \A k \in 1 .. b - a : t[k] = UnitAt(im, i, a + k)
  BY <1>4, BetweenIsSeq
<1> HIDE DEF s, t
<1>8. n - m + 1 = b - a /\ Len(s) = b - a
  BY <1>1, <1>4, <1>6
<1>9. ASSUME NEW k \in 1 .. b - a PROVE s[k] = t[k]
  <2>1. m + k - 1 = (a - p + k - 1) + 1 /\ a - p + k - 1 \in 0 .. BlockSize - 1 /\ p + ((a - p + k - 1) + 1) = a + k
    BY <1>1, <1>4, Sizes
  <2> QED BY <1>3, <1>6, <1>7, <1>8, <2>1
<1>10. s = t
  BY <1>6, <1>7, <1>8, <1>9, SeqEqual
<1> QED BY <1>10 DEF p, r, a, b, m, n, s, t

(* Pieces of which each begins where the one before it ends, put together.  *)
LEMMA FlattenPieces ==
    ASSUME NEW im, Readable(im), NEW i, NEW c \in Nat, c > 0, NEW at \in [0 .. c -> Nat],
           \A k \in 1 .. c : at[k - 1] <= at[k]
    PROVE  FlattenSeq([k \in 1 .. c |-> Between(im, i, at[k - 1], at[k])]) = Between(im, i, at[0], at[c])
<1> DEFINE X == Seq(UnitsOf(im))
           seqs == [k \in 1 .. c |-> Between(im, i, at[k - 1], at[k])]
           g == [k \in 1 .. c |-> Between(im, i, at[0], at[k])]
           h == [k \in 1 .. c |-> IF k = 1 THEN seqs[k] ELSE g[k - 1] \o seqs[k]]
           Is(f) == f = [k \in 1 .. c |-> IF k = 1 THEN seqs[k] ELSE f[k - 1] \o seqs[k]]
<1>1. \A k \in 1 .. c : k - 1 \in 0 .. c /\ k \in 0 .. c /\ at[k - 1] \in Nat /\ at[k] \in Nat /\ at[0] \in Nat
  OBVIOUS
<1>2. seqs \in Seq(X) /\ Len(seqs) = c
  <2>1. \A k \in 1 .. c : seqs[k] \in X
    BY <1>1, BetweenIsSeq
  <2>2. seqs \in [1 .. c -> X]
    BY <2>1
  <2> HIDE DEF seqs, X
  <2> QED BY <2>2
<1>3. \A k \in 0 .. c : at[0] <= at[k]
  <2> DEFINE S == {k \in 0 .. c : at[0] <= at[k]}
  <2>1. 0 \in S
    OBVIOUS
  <2>2. ASSUME NEW k \in 0 .. c, k \in S, k < c PROVE k + 1 \in S
    <3>1. k + 1 \in 1 .. c /\ (k + 1) - 1 = k
      BY <2>2
    <3>2. at[k] <= at[k + 1] /\ at[k + 1] \in Nat /\ at[k] \in Nat /\ at[0] \in Nat /\ at[0] <= at[k]
      BY <1>1, <2>2, <3>1
    <3> QED BY <3>1, <3>2
  <2> HIDE DEF S
  <2>3. \A k \in 0 .. c : k \in S
    BY <2>1, <2>2, CountUp
  <2> QED BY <2>3 DEF S
<1>4. ASSUME NEW k \in 1 .. c PROVE g[k] = h[k]
  <2>1. CASE k = 1
    BY <2>1
  <2>2. CASE k # 1
    <3>1. k - 1 \in 1 .. c
      BY <2>2
    <3>2. at[0] <= at[k - 1] /\ at[k - 1] <= at[k] /\ at[0] \in Nat /\ at[k - 1] \in Nat /\ at[k] \in Nat
      BY <3>1, <1>1, <1>3
    <3>3. Between(im, i, at[0], at[k - 1]) \o Between(im, i, at[k - 1], at[k]) = Between(im, i, at[0], at[k])
      BY <3>2, BetweenJoins
    <3>4. g[k - 1] = Between(im, i, at[0], at[k - 1])
      BY <3>1
    <3> QED BY <2>2, <3>3, <3>4
  <2> QED BY <2>1, <2>2
<1>5. Is(g)
  <2>1. g = h
    BY <1>4
  <2> QED BY <2>1
<1> HIDE DEF seqs
<1>6. ASSUME NEW f, Is(f) PROVE f[c] = g[c]
  <2> DEFINE S == {n \in 0 .. c : n > 0 => f[n] = g[n]}
  <2>1. 0 \in S
    OBVIOUS
  <2>2. ASSUME NEW n \in 0 .. c, n \in S, n < c PROVE n + 1 \in S
    <3> DEFINE k == n + 1
    <3>1. k \in 1 .. c /\ k - 1 = n
      BY <2>2
    <3> HIDE DEF k
    <3>2. f[k] = IF k = 1 THEN seqs[k] ELSE f[k - 1] \o seqs[k]
      BY <1>6, <3>1
    <3>3. g[k] = IF k = 1 THEN seqs[k] ELSE g[k - 1] \o seqs[k]
      BY <1>5, <3>1
    <3>4. k # 1 => f[k - 1] = g[k - 1]
      BY <2>2, <3>1
    <3>5. f[k] = g[k]
      BY <3>2, <3>3, <3>4
    <3> QED BY <3>1, <3>5 DEF k
  <2> HIDE DEF S, g
  <2>3. \A n \in 0 .. c : n \in S
    BY <2>1, <2>2, CountUp
  <2> QED BY <2>3 DEF S
<1> DEFINE flatten == CHOOSE f : Is(f)
<1>7. Is(flatten)
  <2> HIDE DEF g, h
  <2> QED BY <1>5
<1>8. FlattenSeq(seqs) = flatten[c]
  BY <1>2 DEF FlattenSeq
<1>9. flatten[c] = g[c]
  <2> HIDE DEF flatten, Is, g
  <2> QED BY <1>6, <1>7
<1> QED BY <1>8, <1>9 DEF seqs

(* An inode of the image.                                                   *)
LEMMA InodeRead ==
    ASSUME NEW im, Readable(im), NEW i \in Inodes(im)
    PROVE  /\ im.inode[i].size \in Nat /\ im.inode[i].kind \in Kinds
           /\ im.inode[i].zones \in [1 .. NDirect + 2 -> Nat]
<1> DEFINE T == [kind : Kinds, size : Nat, nlinks : Nat, zones : [1 .. NDirect + 2 -> Nat]]
           s == im.inode
<1>1. s \in Seq(T) /\ i \in DOMAIN s
  BY DEF Readable, Inodes
<1> HIDE DEF T, s
<1>2. s[i] \in T
  BY <1>1
<1> QED BY <1>2 DEF T, s

(* Any part of a file, as it is read (read_file), is that part of it.       *)
LEMMA FileRead ==
    ASSUME NEW im, Readable(im), NEW i \in Inodes(im), NEW offset \in Nat, NEW length \in Nat
    PROVE  ReadFile(im, i, offset, length) =
               Between(im, i, offset, LeastOf(offset + length, im.inode[i].size))
<1> DEFINE size == im.inode[i].size
           end == LeastOf(size, offset + MostOf(length, 0))
<1>1. size \in Nat
  BY InodeRead
<1>2. end \in Nat /\ end = LeastOf(offset + length, size)
  <2> HIDE DEF size
  <2> QED BY <1>1 DEF LeastOf, MostOf
<1> HIDE DEF size
<1>3. CASE offset >= end
  <2>1. ReadFile(im, i, offset, length) = <<>>
    BY <1>3 DEF ReadFile, size
  <2>2. 1 .. end - offset = {}
    <3> HIDE DEF end
    <3> QED BY <1>2, <1>3
  <2>3. Between(im, i, offset, end) = <<>>
    <3> HIDE DEF end
    <3> QED BY <2>2 DEF Between
  <2> QED BY <1>2, <2>1, <2>3 DEF size
<1>4. CASE ~(offset >= end)
  <2> DEFINE first == offset \div BlockSize
             last  == (end - 1) \div BlockSize
             count == last - first + 1
             Part(block) == SubSeq(ReadBlock(im, ZoneAt(im, i, block)),
                                   MostOf(offset - block * BlockSize, 0) + 1,
                                   LeastOf(end - block * BlockSize, BlockSize))
             seqs == [k \in 1 .. count |-> Part(first + k - 1)]
             at == [k \in 0 .. count |-> IF k = 0 THEN offset
                                        ELSE LeastOf(end, (first + k - 1) * BlockSize + BlockSize)]
             pieces == [k \in 1 .. count |-> Between(im, i, at[k - 1], at[k])]
  <2>1. ReadFile(im, i, offset, length) = FlattenSeq(seqs)
    BY <1>4 DEF ReadFile, size
  <2> HIDE DEF end
  <2>2. /\ first \in Nat /\ offset % BlockSize \in 0 .. BlockSize - 1
        /\ offset = first * BlockSize + (offset % BlockSize)
    BY DivSplit
  <2>3. /\ last \in Nat /\ (end - 1) % BlockSize \in 0 .. BlockSize - 1
        /\ end - 1 = last * BlockSize + ((end - 1) % BlockSize)
    <3>1. end - 1 \in Nat
      BY <1>2, <1>4
    <3> QED BY <3>1, DivSplit
  <2> HIDE DEF first, last
  <2>4. first <= last
    <3>1. SUFFICES ASSUME last <= first - 1 PROVE FALSE
      BY <2>2, <2>3
    <3> DEFINE e == first - 1 - last
    <3>2. e \in Nat /\ first = last + 1 + e
      BY <2>2, <2>3, <3>1
    <3> HIDE DEF e
    <3>3. first * BlockSize = last * BlockSize + BlockSize + e * BlockSize /\ e * BlockSize \in Nat
          /\ last * BlockSize \in Nat
      BY <2>3, <3>2, Sizes
    <3> DEFINE x == first * BlockSize
               y == last * BlockSize
    <3>4. x >= y + BlockSize /\ x \in Nat /\ y \in Nat
      BY <3>3, Sizes
    <3>5. offset >= x /\ end - 1 < y + BlockSize
      BY <2>2, <2>3, Sizes, <3>4
    <3> HIDE DEF x, y
    <3> QED BY <3>4, <3>5, <1>2, <1>4, Sizes
  <2>5. count \in Nat /\ count > 0
    BY <2>2, <2>3, <2>4
  (* The block k of the count blocks begins before the end and before the    *)
  (* offset is left behind.                                                  *)
  <2>6. ASSUME NEW k \in 1 .. count
        PROVE  /\ first + k - 1 \in Nat
               /\ offset <= (first + k - 1) * BlockSize + BlockSize
               /\ (first + k - 1) * BlockSize <= end
               /\ (first + k - 1) * BlockSize \in Nat
               /\ k > 1 => /\ offset <= (first + k - 1) * BlockSize
                           /\ (first + (k - 1) - 1) * BlockSize + BlockSize = (first + k - 1) * BlockSize
    <3> DEFINE b == first + k - 1
               c == last - b
               x == first * BlockSize
    <3>1. b \in Nat /\ c \in Nat /\ last = b + c /\ b = first + (k - 1) /\ k - 1 \in Nat
      BY <2>2, <2>3
    <3> HIDE DEF b, c
    <3>2. last * BlockSize = b * BlockSize + c * BlockSize /\ c * BlockSize \in Nat /\ b * BlockSize \in Nat
      BY <3>1, Sizes
    <3>3. b * BlockSize = first * BlockSize + (k - 1) * BlockSize /\ (k - 1) * BlockSize \in Nat
          /\ first * BlockSize \in Nat
      BY <3>1, <2>2, Sizes
    <3>4. b * BlockSize <= end
      BY <3>2, <2>3, <1>2, Sizes
    <3>5. offset <= first * BlockSize + BlockSize
      BY <2>2, <3>3, Sizes
    <3>6. offset <= b * BlockSize + BlockSize
      BY <3>3, <3>5, <3>2, Sizes
    <3>7. ASSUME k > 1
          PROVE  /\ offset <= b * BlockSize
                 /\ (first + (k - 1) - 1) * BlockSize + BlockSize = b * BlockSize
      <4> DEFINE l == k - 2
      <4>1. l \in Nat /\ k - 1 = l + 1
        BY <3>7
      <4> HIDE DEF l
      <4>2. (k - 1) * BlockSize = l * BlockSize + BlockSize /\ l * BlockSize \in Nat
        BY <4>1, Sizes
      <4>3. offset <= b * BlockSize
        BY <4>2, <3>3, <3>5, <3>2, Sizes
      <4>4. first + (k - 1) - 1 = first + l
        BY <4>1, <2>2
      <4>5. (first + l) * BlockSize + BlockSize = first * BlockSize + (l * BlockSize + BlockSize)
        BY <4>1, <2>2, Sizes
      <4>6. (first + (k - 1) - 1) * BlockSize + BlockSize = b * BlockSize
        BY <4>2, <4>4, <4>5, <3>3
      <4> QED BY <4>3, <4>6
    <3> QED BY <3>1, <3>2, <3>4, <3>6, <3>7 DEF b
  <2>7. ASSUME NEW k \in 1 .. count
        PROVE  /\ seqs[k] = Between(im, i, at[k - 1], at[k])
               /\ at[k - 1] \in Nat /\ at[k] \in Nat /\ at[k - 1] <= at[k]
    <3> DEFINE b == first + k - 1
               p == b * BlockSize
    <3>1. k - 1 \in 0 .. count /\ k \in 0 .. count /\ k # 0
      BY <2>5
    <3>2. at[k] = LeastOf(end, p + BlockSize)
      BY <3>1
    <3>3. b \in Nat /\ p \in Nat /\ p <= end /\ offset <= p + BlockSize /\ (k > 1 => offset <= p)
      BY <2>6
    <3>4. at[k - 1] = MostOf(offset, p)
      <4>1. CASE k = 1
        <5>1. b = first /\ p = first * BlockSize
          BY <4>1, <2>2
        <5>2. offset >= p
          BY <5>1, <2>2, <3>3
        <5>3. at[k - 1] = offset
          BY <4>1, <3>1
        <5> HIDE DEF p
        <5> QED BY <5>2, <5>3, <3>3 DEF MostOf
      <4>2. CASE k > 1
        <5>1. at[k - 1] = LeastOf(end, (first + (k - 1) - 1) * BlockSize + BlockSize)
          BY <4>2, <3>1
        <5>2. (first + (k - 1) - 1) * BlockSize + BlockSize = p
          BY <4>2, <2>6
        <5> HIDE DEF p, at
        <5> QED BY <5>1, <5>2, <4>2, <3>3, <1>2 DEF MostOf, LeastOf
      <4> QED BY <4>1, <4>2
    <3>5. seqs[k] = Part(b)
      OBVIOUS
    <3>6. offset <= end
      BY <1>2, <1>4
    <3>7. Part(b) = Between(im, i, at[k - 1], at[k])
      <4>1. Part(b) = Between(im, i, MostOf(offset, p), LeastOf(end, p + BlockSize))
        <5> HIDE DEF b
        <5> QED BY <3>3, <3>6, <1>2, PartOfFile
      <4> HIDE DEF at, Part, p, b
      <4> QED BY <4>1, <3>2, <3>4
    <3>8. at[k - 1] \in Nat /\ at[k] \in Nat /\ at[k - 1] <= at[k]
      <4>1. end \in Nat /\ p + BlockSize \in Nat
        BY <1>2, <3>3, Sizes
      <4>2. LeastOf(end, p + BlockSize) \in Nat /\ MostOf(offset, p) \in Nat
            /\ MostOf(offset, p) <= LeastOf(end, p + BlockSize)
        <5> HIDE DEF p, b
        <5> QED BY <3>3, <3>6, <4>1, Sizes DEF MostOf, LeastOf
      <4> HIDE DEF at, p, b
      <4> QED BY <3>2, <3>4, <4>2
    <3> QED BY <3>5, <3>7, <3>8
  <2>8. at[count] = end /\ at[0] = offset
    <3>1. count \in 0 .. count /\ count # 0 /\ first + count - 1 = last /\ 0 \in 0 .. count
      BY <2>2, <2>3, <2>5
    <3>2. at[count] = LeastOf(end, last * BlockSize + BlockSize) /\ at[0] = offset
      BY <3>1
    <3>3. last * BlockSize \in Nat
      BY <2>3, Sizes
    <3>4. end \in Nat /\ end - 1 < last * BlockSize + BlockSize
      BY <3>3, <2>3, <1>2, Sizes
    <3>5. LeastOf(end, last * BlockSize + BlockSize) = end
      BY <3>3, <3>4, Sizes DEF LeastOf
    <3> HIDE DEF at
    <3> QED BY <3>2, <3>5
  <2>9. at \in [0 .. count -> Nat]
    <3>1. \A k \in 0 .. count : k = 0 \/ k \in 1 .. count
      BY <2>5
    <3>2. at[0] \in Nat
      BY <2>8
    <3>3. \A k \in 0 .. count : at[k] \in Nat
      BY <3>1, <3>2, <2>7
    <3> QED BY <3>3
  <2>10. seqs = [k \in 1 .. count |-> Between(im, i, at[k - 1], at[k])]
    BY <2>7
  <2>11. \A k \in 1 .. count : at[k - 1] <= at[k]
    BY <2>7
  <2> HIDE DEF seqs, at, count
  <2>12. FlattenSeq(seqs) = Between(im, i, at[0], at[count])
    BY <2>5, <2>9, <2>10, <2>11, FlattenPieces
  <2> QED BY <2>1, <2>8, <2>12, <1>2 DEF size
<1> QED BY <1>3, <1>4

(* The entries in use are a sequence of entries (read_dir).                 *)
LEMMA InUseIsSeq ==
    ASSUME NEW U, NEW entries \in Seq(U)
    PROVE  InUse(entries) \in Seq(U)
<1> DEFINE N == Len(entries)
           T == Seq(U)
           Step(x, k) == IF entries[k].n = 0 THEN x ELSE Append(x, entries[k])
           F == [x \in T |-> [k \in 1 .. N |-> Step(x, k)]]
           Is(f) == f = [n \in 0 .. N |->
                            IF n = 0 THEN <<>>
                            ELSE IF entries[n].n = 0 THEN f[n - 1] ELSE Append(f[n - 1], entries[n])]
           upto == CHOOSE f : Is(f)
<1>1. N \in Nat /\ \A k \in 1 .. N : entries[k] \in U
  BY ElementOfSeq, LenProperties
<1>2. \A x \in T, k \in 1 .. N : Step(x, k) \in T
  BY <1>1, AppendProperties
<1>3. <<>> \in T /\ F \in [T -> [1 .. N -> T]]
  BY <1>2, EmptySeq
<1>4. \E f : Recurs(T, <<>>, N, F, f)
  <2> HIDE DEF T, N, F
  <2> QED BY <1>1, <1>3, Recursion
<1>5. PICK f : Recurs(T, <<>>, N, F, f)
  BY <1>4
<1>6. f \in [0 .. N -> T] /\ f[0] = <<>> /\ \A n \in 1 .. N : f[n] = F[f[n - 1]][n]
  BY <1>5 DEF Recurs
<1>7. ASSUME NEW n \in 1 .. N PROVE n - 1 \in 0 .. N /\ f[n - 1] \in T /\ f[n] = Step(f[n - 1], n)
  <2>1. n - 1 \in 0 .. N
    BY <1>1
  <2>2. f[n - 1] \in T
    BY <1>6, <2>1
  <2>3. F[f[n - 1]][n] = Step(f[n - 1], n)
    BY <2>2
  <2> QED BY <1>6, <2>1, <2>2, <2>3
<1>8. Is(f)
  <2> DEFINE g == [n \in 0 .. N |->
                     IF n = 0 THEN <<>>
                     ELSE IF entries[n].n = 0 THEN f[n - 1] ELSE Append(f[n - 1], entries[n])]
  <2>1. ASSUME NEW n \in 0 .. N PROVE f[n] = g[n]
    <3>1. CASE n = 0
      BY <3>1, <1>6
    <3>2. CASE n # 0
      <4>1. n \in 1 .. N
        BY <3>2, <1>1
      <4> QED BY <4>1, <3>2, <1>7
    <3> QED BY <3>1, <3>2
  <2> HIDE DEF T, F
  <2> QED BY <1>6, <2>1
<1>9. Is(upto)
  BY <1>8
<1>10. InUse(entries) = upto[N]
  BY DEF InUse
<1> HIDE DEF upto
<1> DEFINE S == {n \in 0 .. N : upto[n] \in T}
<1>11. 0 \in S
  BY <1>1, <1>3, <1>9
<1>12. ASSUME NEW n \in 0 .. N, n \in S, n < N PROVE n + 1 \in S
  <2>1. n + 1 \in 1 .. N /\ n + 1 \in 0 .. N /\ n + 1 # 0 /\ (n + 1) - 1 = n /\ upto[n] \in T
    BY <1>1, <1>12
  <2>2. upto[n + 1] = Step(upto[n], n + 1)
    BY <2>1, <1>9
  <2> HIDE DEF T, Step
  <2> QED BY <2>1, <2>2, <1>2
<1>13. \A n \in 0 .. N : n \in S
  <2> HIDE DEF S, N
  <2> QED BY <1>1, <1>11, <1>12, CountUp
<1> QED BY <1>1, <1>10, <1>13

(* So a directory is read as a sequence of units.                           *)
LEMMA DirRead ==
    ASSUME NEW im, Readable(im), NEW i \in Inodes(im)
    PROVE  ReadDir(im, i) \in Seq(UnitsOf(im))
<1>1. im.inode[i].size \in Nat
  BY InodeRead
<1>2. LeastOf(0 + im.inode[i].size, im.inode[i].size) = im.inode[i].size
  BY <1>1 DEF LeastOf
<1>3. Content(im, i) = Between(im, i, 0, im.inode[i].size)
  BY <1>1, <1>2, FileRead DEF Content
<1>4. Content(im, i) \in Seq(UnitsOf(im))
  BY <1>1, <1>3, BetweenIsSeq
<1> QED BY <1>4, InUseIsSeq DEF ReadDir

LEMMA PartOfWhole ==
    ASSUME NEW im, Readable(im), NEW i \in Inodes(im), NEW a \in Nat, NEW b \in Nat, b <= im.inode[i].size
    PROVE  Between(im, i, a, b) = SubSeq(WholeFile(im, i), a + 1, b)
<1> DEFINE w == WholeFile(im, i)
           s == SubSeq(w, a + 1, b)
           t == Between(im, i, a, b)
<1>1. ASSUME NEW k \in a + 1 .. b PROVE w[k] = UnitAt(im, i, k) /\ w[k] \in UnitsOf(im)
  <2>1. k \in 1 .. im.inode[i].size /\ k \in Nat /\ k > 0
    BY InodeRead
  <2> QED BY <2>1, UnitRead DEF WholeFile
<1> HIDE DEF w
<1>2. /\ s \in Seq(UnitsOf(im))
      /\ Len(s) = IF a + 1 <= b THEN b - (a + 1) + 1 ELSE 0
      /\ \A k \in 1 .. b - (a + 1) + 1 : s[k] = w[(a + 1) + k - 1]
  BY <1>1, SubSeqProperties
<1>3. /\ t \in Seq(UnitsOf(im))
      /\ Len(t) = IF a <= b THEN b - a ELSE 0
      /\ \A k \in 1 .. b - a : t[k] = UnitAt(im, i, a + k)
  BY BetweenIsSeq
<1> HIDE DEF s, t
<1>4. Len(s) = Len(t)
  BY <1>2, <1>3
<1>5. ASSUME NEW k \in 1 .. Len(t) PROVE t[k] = s[k]
  <2>1. k \in 1 .. b - a /\ k \in 1 .. b - (a + 1) + 1 /\ (a + 1) + k - 1 = a + k /\ a + k \in a + 1 .. b
    BY <1>3
  <2> QED BY <2>1, <1>1, <1>2, <1>3
<1>6. t = s
  BY <1>2, <1>3, <1>4, <1>5, SeqEqual
<1> QED BY <1>6 DEF s, t, w

(* Whatever part of a file is asked for, what is read is that part of it    *)
(* (read_file), on every image.                                             *)
THEOREM PartsAreOfTheFile == FSSpec => []ReadsAgree
<1>1. FSInit => img \in Images
  BY DEF FSInit
<1>2. img \in Images /\ [Checks \/ Runs]_allVars => (img \in Images)'
  BY DEF Checks, CheckNext, CheckDir, CheckRest, Runs, allVars
<1>3. img \in Images => ReadsAgree
  <2> SUFFICES ASSUME img \in Images, NEW i \in Inodes(img),
                      NEW offset \in 0 .. img.inode[i].size + 1, NEW length \in 0 .. img.inode[i].size + 1
               PROVE  ReadFile(img, i, offset, length) =
                          SubSeq(WholeFile(img, i), offset + 1, LeastOf(offset + length, img.inode[i].size))
    BY DEF ReadsAgree
  <2> DEFINE b == LeastOf(offset + length, img.inode[i].size)
  <2>1. Readable(img)
    BY ImagesAssumption
  <2>2. offset \in Nat /\ length \in Nat
    BY <2>1, InodeRead
  <2>3. b \in Nat /\ b <= img.inode[i].size
    BY <2>1, <2>2, InodeRead DEF LeastOf
  <2>4. ReadFile(img, i, offset, length) = Between(img, i, offset, b)
    BY <2>1, <2>2, FileRead
  <2> HIDE DEF b
  <2>5. Between(img, i, offset, b) = SubSeq(WholeFile(img, i), offset + 1, b)
    BY <2>1, <2>2, <2>3, PartOfWhole
  <2> QED BY <2>4, <2>5 DEF b
<1> QED BY <1>1, <1>2, <1>3, PTL DEF FSSpec

-----------------------------------------------------------------------------
(* What a file refers to.                                                   *)

(* The blocks of a file that are no holes, and its references to zones.     *)
Filled(i) == {x \in 0 .. MaxBlocks - 1 : ZoneAt(img, i, x) # 0}
References(i) == DataRefs(i) \cup MetaRefs(i)

(* Only a zone of the image has numbers in it.                              *)
LEMMA NumbersOf ==
    ASSUME Readable(img), NEW z
    PROVE  /\ Numbers(z) = {k \in 0 .. BlockSize - 1 : Word(img, z, k) # 0}
           /\ ~Valid(z) => \A k \in 0 .. BlockSize - 1 : Word(img, z, k) = 0
           /\ ~Valid(0)
<1>1. ASSUME ~Valid(z), NEW k \in 0 .. BlockSize - 1 PROVE Word(img, z, k) = 0
  <2>1. k + 1 \in 1 .. BlockSize
    BY Sizes
  <2> QED BY <1>1, <2>1 DEF Valid, Word, ReadBlock, Hole, ZeroUnit
<1>2. ~Valid(0)
  BY DEF Valid, DataZones, Readable
<1> QED BY <1>1, <1>2 DEF Numbers

(* The three ranges of blocks of a file (zone_at).                          *)
LEMMA ZonesOfFile ==
    ASSUME NEW i
    PROVE  /\ \A k \in 1 .. NDirect : ZoneAt(img, i, k - 1) = img.inode[i].zones[k]
           /\ \A k \in 0 .. BlockSize - 1 :
                 ZoneAt(img, i, NDirect + k) = Word(img, img.inode[i].zones[NDirect + 1], k)
           /\ \A j, k \in 0 .. BlockSize - 1 :
                 ZoneAt(img, i, NDirect + BlockSize + j * BlockSize + k) =
                     Word(img, Word(img, img.inode[i].zones[NDirect + 2], j), k)
<1>1. ASSUME NEW k \in 1 .. NDirect PROVE ZoneAt(img, i, k - 1) = img.inode[i].zones[k]
  <2>1. k - 1 < NDirect /\ ~(k - 1 >= NDirect) /\ (k - 1) + 1 = k
    BY Sizes
  <2> QED BY <2>1 DEF ZoneAt
<1>2. ASSUME NEW k \in 0 .. BlockSize - 1
      PROVE  ZoneAt(img, i, NDirect + k) = Word(img, img.inode[i].zones[NDirect + 1], k)
  <2>1. ~(NDirect + k < NDirect) /\ NDirect + k >= NDirect /\ (NDirect + k) - NDirect = k /\ k < BlockSize
    BY Sizes
  <2> QED BY <2>1 DEF ZoneAt
<1>3. ASSUME NEW j \in 0 .. BlockSize - 1, NEW k \in 0 .. BlockSize - 1
      PROVE  ZoneAt(img, i, NDirect + BlockSize + j * BlockSize + k) =
                 Word(img, Word(img, img.inode[i].zones[NDirect + 2], j), k)
  <2> DEFINE d == j * BlockSize + k
             x == NDirect + BlockSize + j * BlockSize + k
  <2>1. j * BlockSize \in Nat
    BY Sizes
  <2>2. d \in Nat /\ d \div BlockSize = j /\ d % BlockSize = k
    BY DivMod
  <2>3. ~(x < NDirect) /\ ~(x - NDirect < BlockSize) /\ (x - NDirect) - BlockSize = d
    BY <2>1, Sizes
  <2> HIDE DEF x, d
  <2>4. ZoneAt(img, i, x) = Word(img, Word(img, img.inode[i].zones[NDirect + 2], d \div BlockSize), d % BlockSize)
    BY <2>3 DEF ZoneAt
  <2> QED BY <2>2, <2>4 DEF x
<1> QED BY <1>1, <1>2, <1>3

(* Every block of a file is in one of them.                                 *)
LEMMA BlockPlaces ==
    ASSUME NEW x \in 0 .. MaxBlocks - 1
    PROVE  \/ \E k \in 1 .. NDirect : x = k - 1
           \/ \E k \in 0 .. BlockSize - 1 : x = NDirect + k
           \/ \E j, k \in 0 .. BlockSize - 1 : x = NDirect + BlockSize + j * BlockSize + k
<1>1. CASE x < NDirect
  <2>1. x + 1 \in 1 .. NDirect /\ x = (x + 1) - 1
    BY <1>1, Sizes
  <2> QED BY <2>1
<1>2. CASE x >= NDirect /\ x < NDirect + BlockSize
  <2>1. x - NDirect \in 0 .. BlockSize - 1 /\ x = NDirect + (x - NDirect)
    BY <1>2, Sizes
  <2> QED BY <2>1
<1>3. CASE x >= NDirect + BlockSize
  <2> DEFINE d == x - NDirect - BlockSize
             j == d \div BlockSize
             k == d % BlockSize
             p == j * BlockSize
  <2>1. d \in Nat /\ d < BlockSize * BlockSize /\ x = NDirect + BlockSize + d /\ BlockSize * BlockSize \in Nat
    <3> DEFINE sq == BlockSize * BlockSize
    <3>1. sq \in Nat /\ x <= NDirect + BlockSize + sq - 1 /\ x \in Int
      BY Sizes DEF MaxBlocks
    <3> HIDE DEF sq
    <3>2. d \in Nat /\ d < sq /\ x = NDirect + BlockSize + d
      BY <3>1, <1>3, Sizes
    <3> QED BY <3>1, <3>2 DEF sq
  <2> HIDE DEF d
  <2>2. j \in Nat /\ k \in 0 .. BlockSize - 1 /\ d = p + k
    BY <2>1, DivSplit
  <2> HIDE DEF j, k
  <2>3. j < BlockSize
    <3>1. SUFFICES ASSUME j >= BlockSize PROVE FALSE
      BY <2>2, Sizes
    <3> DEFINE e == j - BlockSize
    <3>2. e \in Nat /\ j = BlockSize + e
      BY <2>2, <3>1, Sizes
    <3> HIDE DEF e
    <3>3. j * BlockSize = BlockSize * BlockSize + e * BlockSize /\ e * BlockSize \in Nat
      BY <3>2, Sizes
    <3> QED BY <3>3, <2>1, <2>2, Sizes
  <2>4. x = NDirect + BlockSize + j * BlockSize + k
    <3>1. p \in Nat
      BY <2>2, Sizes
    <3>2. x = NDirect + BlockSize + p + k
      <4> HIDE DEF p
      <4> QED BY <3>1, <2>1, <2>2, Sizes
    <3> QED BY <3>2
  <2>5. j \in 0 .. BlockSize - 1
    BY <2>2, <2>3, Sizes
  <2> QED BY <2>2, <2>4, <2>5
<1>4. x \in Int
  OBVIOUS
<1> QED BY <1>1, <1>2, <1>3, <1>4, Sizes

(* And the three ranges hold nothing else.                                  *)
LEMMA PlacesOfBlocks ==
    /\ \A k \in 1 .. NDirect : k - 1 \in 0 .. MaxBlocks - 1
    /\ \A k \in 0 .. BlockSize - 1 : NDirect + k \in 0 .. MaxBlocks - 1
    /\ \A j, k \in 0 .. BlockSize - 1 : NDirect + BlockSize + j * BlockSize + k \in 0 .. MaxBlocks - 1
<1> DEFINE sq == BlockSize * BlockSize
<1>1. sq \in Nat /\ MaxBlocks = NDirect + BlockSize + sq
  BY Sizes DEF MaxBlocks
<1>2. ASSUME NEW j \in 0 .. BlockSize - 1, NEW k \in 0 .. BlockSize - 1
      PROVE  NDirect + BlockSize + j * BlockSize + k \in 0 .. MaxBlocks - 1
  <2> DEFINE e == BlockSize - 1 - j
             p == j * BlockSize
  <2>1. e \in Nat /\ BlockSize = j + 1 + e
    BY Sizes
  <2> HIDE DEF e
  <2>2. sq = j * BlockSize + BlockSize + e * BlockSize /\ e * BlockSize \in Nat /\ j * BlockSize \in Nat
    BY <2>1, Sizes
  <2>3. p \in Nat /\ p + BlockSize <= sq
    BY <2>2, Sizes
  <2> HIDE DEF p, sq
  <2>4. NDirect + BlockSize + p + k \in 0 .. MaxBlocks - 1
    BY <1>1, <2>3, Sizes
  <2> QED BY <2>4 DEF p
<1> HIDE DEF sq
<1>3. /\ \A k \in 1 .. NDirect : k - 1 \in 0 .. MaxBlocks - 1
      /\ \A k \in 0 .. BlockSize - 1 : NDirect + k \in 0 .. MaxBlocks - 1
  BY <1>1, Sizes
<1> QED BY <1>2, <1>3

(* What check_inode collects of a file are the zones the reader finds.      *)
LEMMA DataRefsAre ==
    ASSUME Readable(img), NEW i
    PROVE  DataRefs(i) = {<<x, ZoneAt(img, i, x)>> : x \in Filled(i)}
<1> DEFINE zones == img.inode[i].zones
           ind == zones[NDirect + 1]
           dbl == zones[NDirect + 2]
           R == {<<x, ZoneAt(img, i, x)>> : x \in Filled(i)}
           At(x) == <<x, ZoneAt(img, i, x)>>
           A == {<<k - 1, zones[k]>> : k \in {j \in 1 .. NDirect : zones[j] # 0}}
           B == IF Valid(ind) THEN {<<NDirect + k, Word(img, ind, k)>> : k \in Numbers(ind)} ELSE {}
           C(j) == {<<NDirect + BlockSize + j * BlockSize + k, Word(img, Word(img, dbl, j), k)>> :
                       k \in Numbers(Word(img, dbl, j))}
           J == {m \in Numbers(dbl) : Valid(Word(img, dbl, m))}
           D == IF Valid(dbl) THEN UNION {C(j) : j \in J} ELSE {}
<1>1. DataRefs(i) = A \cup B \cup D
  BY DEF DataRefs
<1>2. A \subseteq R
  <2> SUFFICES ASSUME NEW k \in 1 .. NDirect, zones[k] # 0 PROVE <<k - 1, zones[k]>> \in R
    OBVIOUS
  <2>1. ZoneAt(img, i, k - 1) = zones[k] /\ k - 1 \in 0 .. MaxBlocks - 1
    BY ZonesOfFile, PlacesOfBlocks
  <2>2. k - 1 \in Filled(i)
    BY <2>1 DEF Filled
  <2> HIDE DEF zones
  <2> QED BY <2>1, <2>2
<1>3. B \subseteq R
  <2> SUFFICES ASSUME NEW k \in Numbers(ind) PROVE <<NDirect + k, Word(img, ind, k)>> \in R
    OBVIOUS
  <2>1. k \in 0 .. BlockSize - 1 /\ Word(img, ind, k) # 0
    BY DEF Numbers
  <2>2. ZoneAt(img, i, NDirect + k) = Word(img, ind, k) /\ NDirect + k \in 0 .. MaxBlocks - 1
    BY <2>1, ZonesOfFile, PlacesOfBlocks
  <2>3. NDirect + k \in Filled(i)
    BY <2>1, <2>2 DEF Filled
  <2> HIDE DEF ind
  <2> QED BY <2>2, <2>3
<1>4. D \subseteq R
  <2> SUFFICES ASSUME NEW j \in J, NEW k \in Numbers(Word(img, dbl, j))
               PROVE  <<NDirect + BlockSize + j * BlockSize + k, Word(img, Word(img, dbl, j), k)>> \in R
    OBVIOUS
  <2>1. /\ j \in 0 .. BlockSize - 1 /\ k \in 0 .. BlockSize - 1
        /\ Word(img, Word(img, dbl, j), k) # 0
    BY DEF Numbers
  <2> DEFINE x == NDirect + BlockSize + j * BlockSize + k
             w == Word(img, Word(img, dbl, j), k)
  <2>2. ZoneAt(img, i, x) = w
    BY <2>1, ZonesOfFile
  <2>3. x \in 0 .. MaxBlocks - 1
    BY <2>1, PlacesOfBlocks
  <2>4. w # 0
    BY <2>1
  <2> HIDE DEF x, w
  <2>5. x \in Filled(i)
    BY <2>2, <2>3, <2>4 DEF Filled
  <2>6. <<x, w>> \in R
    BY <2>2, <2>5
  <2> QED BY <2>6 DEF x, w
<1>5. ASSUME NEW x \in Filled(i) PROVE At(x) \in A \cup B \cup D
  <2>1. x \in 0 .. MaxBlocks - 1 /\ ZoneAt(img, i, x) # 0
    BY DEF Filled
  <2>2. CASE \E k \in 1 .. NDirect : x = k - 1
    <3>1. PICK k \in 1 .. NDirect : x = k - 1
      BY <2>2
    <3>2. At(x) = <<k - 1, zones[k]>> /\ zones[k] # 0
      BY <2>1, <3>1, ZonesOfFile
    <3> QED BY <3>2
  <2>3. CASE \E k \in 0 .. BlockSize - 1 : x = NDirect + k
    <3>1. PICK k \in 0 .. BlockSize - 1 : x = NDirect + k
      BY <2>3
    <3>2. At(x) = <<NDirect + k, Word(img, ind, k)>> /\ Word(img, ind, k) # 0
      BY <2>1, <3>1, ZonesOfFile
    <3>3. Valid(ind) /\ k \in Numbers(ind)
      BY <3>2, NumbersOf
    <3> HIDE DEF ind
    <3> QED BY <3>2, <3>3
  <2>4. CASE \E j, k \in 0 .. BlockSize - 1 : x = NDirect + BlockSize + j * BlockSize + k
    <3>1. PICK j \in 0 .. BlockSize - 1, k \in 0 .. BlockSize - 1 : x = NDirect + BlockSize + j * BlockSize + k
      BY <2>4
    <3> DEFINE v == Word(img, dbl, j)
    <3>2. ZoneAt(img, i, x) = Word(img, v, k)
      BY <3>1, ZonesOfFile
    <3>3. Word(img, v, k) # 0
      BY <2>1, <3>2
    <3>4. Valid(v) /\ k \in Numbers(v)
      BY <3>3, NumbersOf
    <3>5. v # 0
      BY <3>4, NumbersOf
    <3>6. Valid(dbl) /\ j \in Numbers(dbl)
      BY <3>5, NumbersOf
    <3>7. j \in J
      BY <3>4, <3>6
    <3>8. At(x) \in C(j)
      BY <3>1, <3>2, <3>4
    <3> HIDE DEF C, J, dbl
    <3> QED BY <3>6, <3>7, <3>8
  <2> QED BY <2>1, <2>2, <2>3, <2>4, BlockPlaces
<1> HIDE DEF A, B, D
<1>6. R \subseteq A \cup B \cup D
  BY <1>5
<1> QED BY <1>1, <1>2, <1>3, <1>4, <1>6

(* Below the first indirect block the indices are negative.                 *)
LEMMA MetaRefsAre ==
    ASSUME Readable(img), NEW i
    PROVE  /\ \A r \in MetaRefs(i) : r = <<r[1], r[2]>> /\ r[1] \in - (BlockSize + 2) .. -1
           /\ \A r, q \in MetaRefs(i) : r[1] = q[1] => r = q
<1> DEFINE zones == img.inode[i].zones
           dbl == zones[NDirect + 2]
           A == {<<k - NDirect - 3, zones[k]>> : k \in {j \in NDirect + 1 .. NDirect + 2 : zones[j] # 0}}
           B == IF Valid(dbl) THEN {<<-3 - j, Word(img, dbl, j)>> : j \in Numbers(dbl)} ELSE {}
<1>1. MetaRefs(i) = A \cup B
  BY DEF MetaRefs
<1>2. \A r \in A : r[1] \in {-2, -1} /\ r = <<r[1], zones[r[1] + NDirect + 3]>>
  <2> SUFFICES ASSUME NEW k \in NDirect + 1 .. NDirect + 2
               PROVE  k - NDirect - 3 \in {-2, -1} /\ (k - NDirect - 3) + NDirect + 3 = k
    OBVIOUS
  <2> QED BY Sizes
<1>3. \A r \in B : r[1] \in - (BlockSize + 2) .. -3 /\ r = <<r[1], Word(img, dbl, -3 - r[1])>>
  <2> SUFFICES ASSUME NEW j \in 0 .. BlockSize - 1
               PROVE  -3 - j \in - (BlockSize + 2) .. -3 /\ -3 - (-3 - j) = j
    BY DEF Numbers
  <2> QED BY Sizes
<1> HIDE DEF A, B
<1>4. \A r \in A : r[1] \in - (BlockSize + 2) .. -1 /\ r[1] \notin - (BlockSize + 2) .. -3
  BY <1>2, Sizes
<1>5. \A r \in B : r[1] \in - (BlockSize + 2) .. -1
  BY <1>3, Sizes
<1>6. \A r \in A \cup B : r = <<r[1], r[2]>>
  BY <1>2, <1>3
<1>7. \A r, q \in A \cup B : r[1] = q[1] => r = q
  BY <1>2, <1>3, <1>4
<1> QED BY <1>1, <1>4, <1>5, <1>6, <1>7

(* An index refers to one zone.                                             *)
LEMMA ReferencesAre ==
    ASSUME Readable(img), NEW i
    PROVE  /\ \A r \in References(i) : r = <<r[1], r[2]>> /\ r[1] \in - (BlockSize + 2) .. MaxBlocks - 1
           /\ \A r, q \in References(i) : r[1] = q[1] => r = q
           /\ \A r \in DataRefs(i) : r[1] \in Filled(i) /\ r[2] = ZoneAt(img, i, r[1])
<1>1. \A r \in DataRefs(i) : /\ r[1] \in Filled(i) /\ r[1] \in 0 .. MaxBlocks - 1
                              /\ r[2] = ZoneAt(img, i, r[1]) /\ r = <<r[1], r[2]>>
  BY DataRefsAre DEF Filled
<1>2. \A r \in MetaRefs(i) : r = <<r[1], r[2]>> /\ r[1] \in - (BlockSize + 2) .. -1
  BY MetaRefsAre
<1>3. MaxBlocks \in Nat
  <2>1. BlockSize * BlockSize \in Nat
    BY Sizes
  <2> QED BY <2>1, Sizes DEF MaxBlocks
<1>4. \A r \in References(i) : r = <<r[1], r[2]>> /\ r[1] \in - (BlockSize + 2) .. MaxBlocks - 1
  BY <1>1, <1>2, <1>3, Sizes DEF References
<1>5. \A r \in MetaRefs(i) : r[1] \notin 0 .. MaxBlocks - 1
  BY <1>2, <1>3, Sizes
<1>6. \A r, q \in MetaRefs(i) : r[1] = q[1] => r = q
  BY MetaRefsAre
<1>7. \A r, q \in References(i) : r[1] = q[1] => r = q
  BY <1>1, <1>5, <1>6 DEF References
<1> QED BY <1>1, <1>4, <1>7

(* The blocks of a file are as many as its size says, and none of them is   *)
(* missing, exactly when check_inode says so.                               *)
LEMMA SizeRight ==
    ASSUME Readable(img), NEW i \in Inodes(img)
    PROVE  ~SizeWrong(i) <=> Filled(i) = 0 .. Blocks(i) - 1
<1> DEFINE n == Blocks(i)
           I == 0 .. n - 1
           R == DataRefs(i)
           f == [x \in Filled(i) |-> <<x, ZoneAt(img, i, x)>>]
<1>1. n \in Nat
  <2>1. img.inode[i].size + BlockSize - 1 \in Nat
    BY InodeRead, Sizes
  <2> QED BY <2>1, DivSplit DEF Blocks
<1>2. IsFiniteSet(Filled(i))
  <2>1. MaxBlocks \in Nat
    <3>1. BlockSize * BlockSize \in Nat
      BY Sizes
    <3> QED BY <3>1, Sizes DEF MaxBlocks
  <2>2. IsFiniteSet(0 .. MaxBlocks - 1)
    BY <2>1, FS_Interval
  <2> QED BY <2>2, FS_Subset DEF Filled
<1>3. IsFiniteSet(R) /\ Cardinality(R) = Cardinality(Filled(i))
  <2>1. f \in Bijection(Filled(i), R)
    <3>1. f \in [Filled(i) -> R]
      BY DataRefsAre
    <3>2. \A x, y \in Filled(i) : f[x] = f[y] => x = y
      OBVIOUS
    <3>3. \A r \in R : \E x \in Filled(i) : f[x] = r
      BY DataRefsAre
    <3> HIDE DEF f, R
    <3> QED BY <3>1, <3>2, <3>3 DEF Bijection, Injection, Surjection, IsInjective
  <2>2. ExistsBijection(Filled(i), R)
    BY <2>1 DEF ExistsBijection
  <2> QED BY <2>2, <1>2, FS_Bijection
<1>4. IsFiniteSet(I) /\ Cardinality(I) = n
  <2>1. IsFiniteSet(0 .. n - 1) /\ Cardinality(0 .. n - 1) = IF 0 > n - 1 THEN 0 ELSE (n - 1) - 0 + 1
    BY <1>1, FS_Interval
  <2> HIDE DEF n
  <2> QED BY <2>1, <1>1
<1>5. (\A r \in R : ~(r[1] >= n)) <=> Filled(i) \subseteq I
  <2>1. (\A r \in R : ~(r[1] >= n)) <=> \A x \in Filled(i) : ~(x >= n)
    <3>1. \A r \in R : r[1] \in Filled(i)
      BY ReferencesAre
    <3>2. \A x \in Filled(i) : <<x, ZoneAt(img, i, x)>> \in R /\ <<x, ZoneAt(img, i, x)>>[1] = x
      BY DataRefsAre
    <3> HIDE DEF n, R
    <3> QED BY <3>1, <3>2
  <2>2. \A x \in Filled(i) : x \in Nat
    <3>1. MaxBlocks \in Int
      BY Sizes DEF MaxBlocks
    <3> QED BY <3>1 DEF Filled
  <2>3. (\A x \in Filled(i) : ~(x >= n)) <=> Filled(i) \subseteq I
    <3> HIDE DEF n
    <3> QED BY <2>2, <1>1
  <2> QED BY <2>1, <2>3
<1>6. ~SizeWrong(i) <=> Cardinality(Filled(i)) = n /\ Filled(i) \subseteq I
  <2> HIDE DEF n, I
  <2> QED BY <1>3, <1>5 DEF SizeWrong, n
<1>7. Filled(i) \subseteq I /\ Cardinality(Filled(i)) = n => Filled(i) = I
  <2> HIDE DEF I, n
  <2> QED BY <1>4, FS_Subset
<1> QED BY <1>4, <1>6, <1>7

-----------------------------------------------------------------------------
(* Soundness, said of the references of the files.                          *)

Files(S)     == {i \in S : ~IsSpecial(img, i)}
EntriesOf(S) == UNION {Range(ReadDir(img, i)) : i \in {j \in S : IsDir(img, j)}}

(* The zones that the files of S refer to; no two references name the same. *)
Owned(S) == {z \in DataZones(img) : \E i \in Files(S) : \E r \in References(i) : r[2] = z}
Apart(S) ==
    \A i, j \in Files(S) : \A r \in References(i), q \in References(j) :
        Valid(r[2]) /\ r[2] = q[2] => i = j /\ r = q

(* What there is to say of the inodes S, and of the entries E.              *)
Faultless(S, E) ==
    /\ \A e \in E : e.n \in Inodes(img)
    /\ \A i \in S : i \in img.imap /\ img.inode[i].kind # "unknown"
    /\ \A i \in Files(S) : ~SizeWrong(i) /\ \A r \in References(i) : Valid(r[2])
    /\ Owned(S) \subseteq img.zmap
    /\ Apart(S)

LEMMA SoundIs ==
    ASSUME Readable(img)
    PROVE  Sound <=> /\ Faultless(Tree, EntriesOf(Tree))
                     /\ img.imap \cap Inodes(img) \subseteq Tree \cup {e.n : e \in EntriesOf(Tree)}
                     /\ img.zmap \cap DataZones(img) \subseteq Owned(Tree)
<1> DEFINE entries == EntriesOf(Tree)
           files   == Files(Tree)
           slots   == {s \in files \X (0 .. MaxBlocks - 1) : ZoneAt(img, s[1], s[2]) # 0}
           metas   == UNION {{<<i, r[1]>> : r \in MetaRefs(i)} : i \in files}
           zone(s) == IF s \in slots THEN ZoneAt(img, s[1], s[2])
                      ELSE (CHOOSE r \in MetaRefs(s[1]) : r[1] = s[2])[2]
           K       == slots \cup metas
           used    == {zone(s) : s \in K}
           f       == [s \in K |-> zone(s)]
           SizesRight  == \A i \in files : {s[2] : s \in {t \in slots : t[1] = i}} = 0 .. Blocks(i) - 1
<1>1. Sound <=> /\ {e.n : e \in entries} \subseteq Inodes(img)
                /\ Tree \subseteq img.imap
                /\ img.imap \cap Inodes(img) \subseteq Tree \cup {e.n : e \in entries}
                /\ \A i \in Tree : img.inode[i].kind # "unknown"
                /\ SizesRight
                /\ Cardinality(used) = Cardinality(K)
                /\ used \subseteq DataZones(img)
                /\ img.zmap \cap DataZones(img) = used
  BY DEF Sound, EntriesOf, Files
<1>2. Tree \subseteq Inodes(img) /\ files \subseteq Inodes(img)
  BY DEF Tree, Files
<1> HIDE DEF entries, files
<1>3. \A i \in files : {s[2] : s \in {t \in slots : t[1] = i}} = Filled(i)
  <2> SUFFICES ASSUME NEW i \in files PROVE {s[2] : s \in {t \in slots : t[1] = i}} = Filled(i)
    OBVIOUS
  <2> DEFINE F == {s[2] : s \in {t \in slots : t[1] = i}}
  <2>1. ASSUME NEW s \in slots, s[1] = i PROVE s[2] \in Filled(i)
    BY <2>1 DEF Filled
  <2>2. ASSUME NEW x \in Filled(i) PROVE <<i, x>> \in slots /\ <<i, x>>[1] = i /\ <<i, x>>[2] = x
    BY DEF Filled
  <2> HIDE DEF slots
  <2> QED BY <2>1, <2>2
<1>4. SizesRight <=> \A i \in files : ~SizeWrong(i)
  <2> HIDE DEF slots
  <2> QED BY <1>2, <1>3, SizeRight
<1>5. ASSUME NEW i \in files, NEW r \in References(i)
      PROVE  <<i, r[1]>> \in K /\ zone(<<i, r[1]>>) = r[2]
  <2>1. r = <<r[1], r[2]>> /\ r[1] \in - (BlockSize + 2) .. MaxBlocks - 1
    BY ReferencesAre
  <2>2. CASE r \in DataRefs(i)
    <3>1. r[1] \in Filled(i) /\ r[2] = ZoneAt(img, i, r[1])
      BY <2>2, ReferencesAre
    <3>2. <<i, r[1]>> \in slots
      BY <3>1 DEF Filled
    <3> QED BY <3>1, <3>2
  <2>3. CASE r \in MetaRefs(i)
    <3>1. r[1] \in - (BlockSize + 2) .. -1 /\ \A q \in MetaRefs(i) : q[1] = r[1] => q = r
      BY <2>3, MetaRefsAre
    <3>2. r[1] \notin 0 .. MaxBlocks - 1
      BY <3>1, Sizes
    <3>3. <<i, r[1]>> \notin slots
      BY <3>2
    <3>4. <<i, r[1]>> \in metas
      BY <2>3
    <3>5. (CHOOSE q \in MetaRefs(i) : q[1] = r[1]) = r
      BY <2>3, <3>1
    <3> HIDE DEF slots, metas
    <3> QED BY <3>3, <3>4, <3>5
  <2> QED BY <2>2, <2>3 DEF References
<1>6. ASSUME NEW s \in K PROVE \E i \in files : \E r \in References(i) : s = <<i, r[1]>>
  <2>1. CASE s \in slots
    <3>1. s[1] \in files /\ s[2] \in Filled(s[1]) /\ s = <<s[1], s[2]>>
      BY <2>1 DEF Filled
    <3>2. <<s[2], ZoneAt(img, s[1], s[2])>> \in DataRefs(s[1])
      BY <3>1, DataRefsAre
    <3> QED BY <3>1, <3>2 DEF References
  <2>2. CASE s \in metas
    BY <2>2 DEF References
  <2> QED BY <2>1, <2>2
<1> HIDE DEF slots, metas
<1>7. \A z : z \in used <=> \E i \in files : \E r \in References(i) : r[2] = z
  <2> HIDE DEF zone, K
  <2>1. ASSUME NEW z \in used PROVE \E i \in files : \E r \in References(i) : r[2] = z
    <3>1. PICK s \in K : z = zone(s)
      OBVIOUS
    <3>2. PICK i \in files : \E r \in References(i) : s = <<i, r[1]>>
      BY <1>6
    <3>3. PICK r \in References(i) : s = <<i, r[1]>>
      BY <3>2
    <3>4. zone(<<i, r[1]>>) = r[2]
      BY <1>5
    <3> QED BY <3>1, <3>3, <3>4
  <2>2. ASSUME NEW i \in files, NEW r \in References(i) PROVE r[2] \in used
    <3>1. <<i, r[1]>> \in K /\ zone(<<i, r[1]>>) = r[2]
      BY <1>5
    <3> QED BY <3>1
  <2> HIDE DEF used
  <2> QED BY <2>1, <2>2
<1>8. IsFiniteSet(K)
  <2> DEFINE L == - (BlockSize + 2) .. MaxBlocks - 1
  <2>1. IsFiniteSet(Inodes(img))
    <3>1. Len(img.inode) \in Nat /\ Inodes(img) = 1 .. Len(img.inode)
      BY DEF Readable, Inodes
    <3> QED BY <3>1, FS_Interval
  <2>2. MaxBlocks \in Nat
    <3>1. BlockSize * BlockSize \in Nat
      BY Sizes
    <3> QED BY <3>1, Sizes DEF MaxBlocks
  <2>3. IsFiniteSet(L)
    BY <2>2, Sizes, FS_Interval
  <2>4. IsFiniteSet(Inodes(img) \X L)
    BY <2>1, <2>3, FS_Product
  <2>5. K \subseteq Inodes(img) \X L
    <3> HIDE DEF K
    <3> QED BY <1>2, <1>6, ReferencesAre
  <2> HIDE DEF K
  <2> QED BY <2>4, <2>5, FS_Subset
<1>9. Cardinality(used) = Cardinality(K) <=> \A s, t \in K : zone(s) = zone(t) => s = t
  <2>1. f \in Surjection(K, used)
    <3> HIDE DEF zone, K
    <3> QED BY DEF Surjection
  <2>2. Cardinality(used) = Cardinality(K) <=> f \in Injection(K, used)
    <3> HIDE DEF f, used, K
    <3> QED BY <2>1, <1>8, FS_Surjection
  <2>3. f \in [K -> used] /\ \A s \in K : f[s] = zone(s)
    <3> HIDE DEF zone, K
    <3> QED OBVIOUS
  <2>4. f \in Injection(K, used) <=> \A s, t \in K : zone(s) = zone(t) => s = t
    <3> HIDE DEF zone, K, f, used
    <3> QED BY <2>3 DEF Injection, IsInjective
  <2> QED BY <2>2, <2>4
<1>10. (\A s, t \in K : zone(s) = zone(t) => s = t) <=>
           \A i, j \in files : \A r \in References(i), q \in References(j) : r[2] = q[2] => i = j /\ r = q
  <2> HIDE DEF zone, K
  <2>1. ASSUME \A s, t \in K : zone(s) = zone(t) => s = t,
               NEW i \in files, NEW j \in files, NEW r \in References(i), NEW q \in References(j), r[2] = q[2]
        PROVE  i = j /\ r = q
    <3>1. <<i, r[1]>> = <<j, q[1]>>
      <4>1. <<i, r[1]>> \in K /\ zone(<<i, r[1]>>) = r[2]
        BY <1>5
      <4>2. <<j, q[1]>> \in K /\ zone(<<j, q[1]>>) = q[2]
        BY <1>5
      <4>3. zone(<<i, r[1]>>) = zone(<<j, q[1]>>)
        BY <4>1, <4>2, <2>1
      <4> QED BY <4>1, <4>2, <4>3, <2>1
    <3>2. i = j /\ r[1] = q[1]
      BY <3>1
    <3> QED BY <3>2, ReferencesAre
  <2>2. ASSUME \A i, j \in files : \A r \in References(i), q \in References(j) : r[2] = q[2] => i = j /\ r = q,
               NEW s \in K, NEW t \in K, zone(s) = zone(t)
        PROVE  s = t
    <3>1. PICK i \in files : \E r \in References(i) : s = <<i, r[1]>>
      BY <1>6
    <3>2. PICK r \in References(i) : s = <<i, r[1]>>
      BY <3>1
    <3>3. PICK j \in files : \E q \in References(j) : t = <<j, q[1]>>
      BY <1>6
    <3>4. PICK q \in References(j) : t = <<j, q[1]>>
      BY <3>3
    <3>5. r[2] = q[2]
      BY <2>2, <3>2, <3>4, <1>5
    <3> QED BY <2>2, <3>2, <3>4, <3>5
  <2> QED BY <2>1, <2>2
<1> DEFINE NoneTwice == \A i, j \in files : \A r \in References(i), q \in References(j) :
                            r[2] = q[2] => i = j /\ r = q
           AllValid  == \A i \in files : \A r \in References(i) : Valid(r[2])
<1>11. used \subseteq DataZones(img) <=> AllValid
  <2> HIDE DEF used
  <2> QED BY <1>7 DEF Valid
<1>12. AllValid => used = Owned(Tree) /\ (NoneTwice <=> Apart(Tree))
  <2> SUFFICES ASSUME AllValid PROVE used = Owned(Tree) /\ (NoneTwice <=> Apart(Tree))
    OBVIOUS
  <2> HIDE DEF used
  <2>1. used = Owned(Tree)
    BY <1>7 DEF Owned, files, Valid
  <2>2. NoneTwice <=> Apart(Tree)
    BY DEF Apart, files
  <2> QED BY <2>1, <2>2
<1>13. Owned(Tree) \subseteq DataZones(img)
  BY DEF Owned
<1>14. Faultless(Tree, entries) <=> /\ {e.n : e \in entries} \subseteq Inodes(img)
                                    /\ Tree \subseteq img.imap
                                    /\ \A i \in Tree : img.inode[i].kind # "unknown"
                                    /\ \A i \in files : ~SizeWrong(i)
                                    /\ AllValid
                                    /\ Owned(Tree) \subseteq img.zmap
                                    /\ Apart(Tree)
  BY DEF Faultless, files
<1> HIDE DEF used, K, NoneTwice, AllValid, SizesRight
<1>15. Cardinality(used) = Cardinality(K) <=> NoneTwice
  BY <1>9, <1>10 DEF NoneTwice
<1> QED BY <1>1, <1>4, <1>11, <1>12, <1>13, <1>14, <1>15 DEF entries

-----------------------------------------------------------------------------
(* The check of an inode.                                                   *)

CheckFields == {"stack", "checked", "referenced", "owned", "problems", "done"}
CheckShape(s) == DOMAIN s = CheckFields

ValidZones(i) == {z \in DataZones(img) : \E r \in References(i) : r[2] = z}

(* Nothing to report of the references of i, beside the zones owned.        *)
Blameless(i, owned) ==
    /\ ~SizeWrong(i)
    /\ \A r \in References(i) : Valid(r[2]) /\ r[2] \in img.zmap /\ r[2] \notin owned
    /\ \A r, q \in References(i) : r[2] = q[2] => r = q

LEMMA InodeChecked ==
    ASSUME NEW s, CheckShape(s), NEW i
    PROVE  LET t == CheckInode(s, i)
           IN  /\ CheckShape(t) /\ t.stack = s.stack /\ t.checked = s.checked
               /\ t.referenced = s.referenced /\ t.done = s.done
               /\ t.owned = IF IsSpecial(img, i) THEN s.owned ELSE s.owned \cup ValidZones(i)
               /\ t.problems = {} <=> s.problems = {} /\ (IsSpecial(img, i) \/ Blameless(i, s.owned))
<1> DEFINE refs  == References(i)
           valid == {r \in refs : Valid(r[2])}
           c1 == \E r \in refs : ~Valid(r[2])
           c2 == \E r \in valid : r[2] \notin img.zmap
           c3 == \/ \E r \in valid : r[2] \in s.owned
                 \/ \E r, q \in valid : r # q /\ r[2] = q[2]
           c4 == SizeWrong(i)
           kinds == {<<"invalid zone", c1>>, <<"unmarked zone", c2>>, <<"shared zone", c3>>, <<"size", c4>>}
           found == {<<k[1], i>> : k \in {kk \in kinds : kk[2]}}
           t == CheckInode(s, i)
<1>1. CASE IsSpecial(img, i)
  <2>1. t = s
    BY <1>1 DEF CheckInode
  <2> QED BY <2>1, <1>1
<1>2. CASE ~IsSpecial(img, i)
  <2>1. t = [s EXCEPT !.owned = @ \cup {r[2] : r \in valid}, !.problems = @ \cup found]
    BY <1>2 DEF CheckInode, References
  <2>2. {r[2] : r \in valid} = ValidZones(i)
    BY DEF ValidZones, Valid
  <2>3. found = {} <=> ~c1 /\ ~c2 /\ ~c3 /\ ~c4
    <3> HIDE DEF c1, c2, c3, c4
    <3>1. found = {} <=> \A k \in kinds : ~k[2]
      <4> HIDE DEF kinds
      <4> QED OBVIOUS
    <3>2. (\A k \in kinds : ~k[2]) <=> ~c1 /\ ~c2 /\ ~c3 /\ ~c4
      OBVIOUS
    <3> QED BY <3>1, <3>2
  <2>4. ~c1 /\ ~c2 /\ ~c3 /\ ~c4 <=> Blameless(i, s.owned)
    BY DEF Blameless
  <2> HIDE DEF found, valid, t
  <2>5. /\ CheckShape(t) /\ t.stack = s.stack /\ t.checked = s.checked
        /\ t.referenced = s.referenced /\ t.done = s.done
        /\ t.owned = s.owned \cup {r[2] : r \in valid} /\ t.problems = s.problems \cup found
    BY <2>1 DEF CheckShape, CheckFields
  <2> QED BY <1>2, <2>2, <2>3, <2>4, <2>5 DEF t
<1> QED BY <1>1, <1>2

(* One more inode is as good as the others.                                 *)
LEMMA FaultlessGrows ==
    ASSUME NEW S, NEW E, NEW i, i \notin S
    PROVE  LET T == S \cup {i}
           IN  /\ Owned(T) = IF IsSpecial(img, i) THEN Owned(S) ELSE Owned(S) \cup ValidZones(i)
               /\ Faultless(T, E) <=>
                      /\ Faultless(S, E) /\ i \in img.imap /\ img.inode[i].kind # "unknown"
                      /\ IsSpecial(img, i) \/ Blameless(i, Owned(S))
<1> DEFINE T == S \cup {i}
<1>1. CASE IsSpecial(img, i)
  <2>1. Files(T) = Files(S)
    BY <1>1 DEF Files
  <2>2. Owned(T) = Owned(S) /\ (Apart(T) <=> Apart(S))
    BY <2>1 DEF Owned, Apart
  <2> QED BY <1>1, <2>1, <2>2 DEF Faultless
<1>2. CASE ~IsSpecial(img, i)
  <2>1. Files(T) = Files(S) \cup {i} /\ i \notin Files(S)
    BY <1>2 DEF Files
  <2>2. Owned(T) = Owned(S) \cup ValidZones(i)
    BY <2>1 DEF Owned, ValidZones
  <2> DEFINE AllValid == \A r \in References(i) : Valid(r[2])
             One == \A r, q \in References(i) : r[2] = q[2] => r = q
             New == \A r \in References(i) : r[2] \notin Owned(S)
  <2>3. AllValid => (Apart(T) <=> Apart(S) /\ One /\ New)
    <3> SUFFICES ASSUME AllValid PROVE Apart(T) <=> Apart(S) /\ One /\ New
      OBVIOUS
    <3>1. Apart(T) => Apart(S)
      BY <2>1 DEF Apart
    <3>2. Apart(T) => One
      BY <2>1 DEF Apart
    <3>3. Apart(T) => New
      BY <2>1 DEF Apart, Owned
    <3>4. ASSUME Apart(S), One, New,
                 NEW j \in Files(T), NEW k \in Files(T), NEW r \in References(j), NEW q \in References(k),
                 Valid(r[2]), r[2] = q[2]
          PROVE  j = k /\ r = q
      <4>1. CASE j = i /\ k = i
        BY <3>4, <4>1
      <4>2. CASE j = i /\ k # i
        <5>1. k \in Files(S) /\ q[2] \in Owned(S)
          BY <4>2, <2>1, <3>4 DEF Owned, Valid
        <5> QED BY <5>1, <4>2, <3>4
      <4>3. CASE j # i /\ k = i
        <5>1. j \in Files(S) /\ r[2] \in Owned(S)
          BY <4>3, <2>1, <3>4 DEF Owned, Valid
        <5> QED BY <5>1, <4>3, <3>4
      <4>4. CASE j # i /\ k # i
        <5>1. j \in Files(S) /\ k \in Files(S)
          BY <4>4, <2>1
        <5> QED BY <5>1, <3>4 DEF Apart
      <4> QED BY <4>1, <4>2, <4>3, <4>4
    <3>5. Apart(S) /\ One /\ New => Apart(T)
      <4> HIDE DEF One, New, AllValid, T
      <4> QED BY <3>4 DEF Apart
    <3> QED BY <3>1, <3>2, <3>3, <3>5
  <2>4. AllValid => (ValidZones(i) \subseteq img.zmap <=> \A r \in References(i) : r[2] \in img.zmap)
    BY DEF ValidZones, Valid
  <2>5. Blameless(i, Owned(S)) <=> /\ ~SizeWrong(i) /\ AllValid /\ One /\ New
                                   /\ \A r \in References(i) : r[2] \in img.zmap
    BY DEF Blameless
  <2>6. Faultless(T, E) <=> /\ \A e \in E : e.n \in Inodes(img)
                            /\ \A j \in S : j \in img.imap /\ img.inode[j].kind # "unknown"
                            /\ i \in img.imap /\ img.inode[i].kind # "unknown"
                            /\ \A j \in Files(S) : ~SizeWrong(j) /\ \A r \in References(j) : Valid(r[2])
                            /\ ~SizeWrong(i) /\ AllValid
                            /\ Owned(S) \subseteq img.zmap /\ ValidZones(i) \subseteq img.zmap
                            /\ Apart(T)
    BY <2>1, <2>2 DEF Faultless
  <2> HIDE DEF AllValid, One, New
  <2> QED BY <1>2, <2>2, <2>3, <2>4, <2>5, <2>6 DEF Faultless
<1> QED BY <1>1, <1>2

(* What has been found is what there is to say of what was looked at.       *)
Found(s, E) ==
    /\ CheckShape(s)
    /\ s.checked \subseteq Tree
    /\ s.owned = Owned(s.checked)
    /\ s.problems = {} <=> Faultless(s.checked, E)

LEMMA MeetFound ==
    ASSUME NEW s, NEW E, Found(s, E), NEW i \in Tree, i \notin s.checked
    PROVE  LET t == Meet(s, i)
           IN  /\ Found(t, E) /\ t.checked = s.checked \cup {i} /\ t.stack = s.stack
               /\ t.referenced = s.referenced /\ t.done = s.done
<1> DEFINE a == IF i \in img.imap THEN {} ELSE {<<"unmarked inode", i>>}
           b == IF img.inode[i].kind = "unknown" THEN {<<"type", i>>} ELSE {}
           u == [s EXCEPT !.checked = @ \cup {i}, !.problems = @ \cup a \cup b]
           t == CheckInode(u, i)
<1>1. Meet(s, i) = t
  BY DEF Meet
<1>2. a \cup b = {} <=> i \in img.imap /\ img.inode[i].kind # "unknown"
  OBVIOUS
<1> HIDE DEF a, b
<1>3. /\ CheckShape(u) /\ u.stack = s.stack /\ u.checked = s.checked \cup {i} /\ u.done = s.done
      /\ u.referenced = s.referenced /\ u.owned = s.owned /\ u.problems = s.problems \cup a \cup b
  BY DEF Found, CheckShape, CheckFields
<1> HIDE DEF u
<1>4. /\ CheckShape(t) /\ t.stack = u.stack /\ t.checked = u.checked
      /\ t.referenced = u.referenced /\ t.done = u.done
      /\ t.owned = IF IsSpecial(img, i) THEN u.owned ELSE u.owned \cup ValidZones(i)
      /\ t.problems = {} <=> u.problems = {} /\ (IsSpecial(img, i) \/ Blameless(i, u.owned))
  BY <1>3, InodeChecked
<1> HIDE DEF t
<1>5. /\ Owned(s.checked \cup {i}) = IF IsSpecial(img, i) THEN Owned(s.checked)
                                      ELSE Owned(s.checked) \cup ValidZones(i)
      /\ Faultless(s.checked \cup {i}, E) <=>
             /\ Faultless(s.checked, E) /\ i \in img.imap /\ img.inode[i].kind # "unknown"
             /\ IsSpecial(img, i) \/ Blameless(i, Owned(s.checked))
  BY FaultlessGrows
<1>6. s.checked \subseteq Tree /\ s.owned = Owned(s.checked) /\ (s.problems = {} <=> Faultless(s.checked, E))
  BY DEF Found
<1>7. t.owned = Owned(t.checked)
  BY <1>3, <1>4, <1>5, <1>6
<1>8. t.problems = {} <=> Faultless(t.checked, E)
  <2>1. u.problems = {} <=> s.problems = {} /\ a \cup b = {}
    BY <1>3
  <2> QED BY <2>1, <1>2, <1>3, <1>4, <1>5, <1>6
<1>9. t.checked \subseteq Tree
  BY <1>3, <1>4, <1>6
<1> QED BY <1>1, <1>3, <1>4, <1>7, <1>8, <1>9 DEF Found

-----------------------------------------------------------------------------
(* The traversal.                                                           *)

OnStack(s) == {s.stack[k] : k \in 1 .. Len(s.stack)}
Dots == {".", ".."}

(* The traversal has met the entries E, of the directories D that it has    *)
(* looked at, and has looked at what they name or still has it to do.       *)
Traversed(s, E, D) ==
    /\ Found(s, E)
    /\ s.stack \in Seq({i \in Tree : IsDir(img, i)})
    /\ {i \in s.checked : IsDir(img, i)} = D
    /\ s.done = FALSE
    /\ s.referenced = {ROOT_INODE} \cup ({e.n : e \in E} \cap Inodes(img))
    /\ ROOT_INODE \in s.checked \cup OnStack(s)
    /\ s.checked \cup OnStack(s) \subseteq s.referenced
    /\ \A e \in E : e.n \in Inodes(img) /\ e.name \notin Dots => e.n \in s.checked \cup OnStack(s)

LEMMA TreeIs ==
    ASSUME Readable(img)
    PROVE  /\ Tree \subseteq Inodes(img) /\ ROOT_INODE \in Tree /\ IsDir(img, ROOT_INODE)
           /\ \A i \in Tree : IsDir(img, i) => \A e \in Range(ReadDir(img, i)) :
                  e.n \in Inodes(img) /\ e.name \notin Dots => e.n \in Tree
           /\ \A C \in SUBSET Inodes(img) :
                  /\ ROOT_INODE \in C
                  /\ \A i \in C : IsDir(img, i) => \A e \in Range(ReadDir(img, i)) :
                        e.n \in Inodes(img) /\ e.name \notin Dots => e.n \in C
                  => Tree \subseteq C
<1>1. ROOT_INODE \in Inodes(img) /\ IsDir(img, ROOT_INODE)
  BY DEF Readable
<1> DEFINE Closed(C) ==
               /\ ROOT_INODE \in C
               /\ \A i \in C : IsDir(img, i) =>
                     \A e \in Range(ReadDir(img, i)) : e.n \in Inodes(img) /\ e.name \notin Dots => e.n \in C
<1>2. Tree = {i \in Inodes(img) : \A C \in SUBSET Inodes(img) : Closed(C) => i \in C}
  BY DEF Tree, Dots
<1>3. ASSUME NEW i \in Tree, IsDir(img, i), NEW e \in Range(ReadDir(img, i)),
             e.n \in Inodes(img), e.name \notin Dots
      PROVE  e.n \in Tree
  <2>1. SUFFICES ASSUME NEW C \in SUBSET Inodes(img), Closed(C) PROVE e.n \in C
    BY <1>2, <1>3
  <2>2. i \in C
    BY <1>2, <2>1
  <2> QED BY <2>1, <2>2, <1>3
<1>4. \A C \in SUBSET Inodes(img) : Closed(C) => Tree \subseteq C
  <2> HIDE DEF Closed
  <2> QED BY <1>2
<1>5. ROOT_INODE \in Tree
  BY <1>1, <1>2
<1> QED BY <1>1, <1>2, <1>3, <1>4, <1>5

(* One more entry that names an inode is no fault by itself.                *)
LEMMA EntryIsNoFault ==
    ASSUME NEW S, NEW E, NEW e
    PROVE  /\ e.n \in Inodes(img) => (Faultless(S, E \cup {e}) <=> Faultless(S, E))
           /\ e.n \notin Inodes(img) => ~Faultless(S, E \cup {e})
BY DEF Faultless

LEMMA StackGrows ==
    ASSUME NEW U, NEW stack \in Seq(U), NEW i \in U
    PROVE  /\ Append(stack, i) \in Seq(U)
           /\ {Append(stack, i)[k] : k \in 1 .. Len(Append(stack, i))} = {stack[k] : k \in 1 .. Len(stack)} \cup {i}
<1> DEFINE t == Append(stack, i)
           n == Len(stack)
<1>1. /\ t \in Seq(U) /\ Len(t) = n + 1 /\ n \in Nat
      /\ \A k \in 1 .. n : t[k] = stack[k]
      /\ t[n + 1] = i
  BY AppendProperties, LenProperties
<1> HIDE DEF t, n
<1>2. \A k : k \in 1 .. n + 1 <=> k \in 1 .. n \/ k = n + 1
  BY <1>1
<1>3. {t[k] : k \in 1 .. Len(t)} = {stack[k] : k \in 1 .. n} \cup {i}
  BY <1>1, <1>2
<1> QED BY <1>1, <1>3 DEF t, n

(* One entry.                                                               *)
LEMMA EntryWalk ==
    ASSUME Readable(img), NEW s, NEW E, NEW D, Traversed(s, E, D), NEW e,
           e.n \in Inodes(img) /\ e.name \notin Dots => e.n \in Tree
    PROVE  Traversed(CheckEntry(s, e), E \cup {e}, D)
<1> DEFINE X == E \cup {e}
           U == {i \in Tree : IsDir(img, i)}
           P(x) == x.checked \cup OnStack(x)
           t == [s EXCEPT !.referenced = @ \cup {e.n}]
<1>1. CheckShape(s)
  BY DEF Traversed, Found
<1>2. CASE e.n \notin Inodes(img)
  <2> DEFINE u == [s EXCEPT !.problems = @ \cup {<<"inode number", e.n>>}]
  <2>1. CheckEntry(s, e) = u
    BY <1>2 DEF CheckEntry
  <2>2. /\ CheckShape(u) /\ u.stack = s.stack /\ u.checked = s.checked /\ u.done = s.done
        /\ u.referenced = s.referenced /\ u.owned = s.owned /\ u.problems # {}
    BY <1>1 DEF CheckShape, CheckFields
  <2> HIDE DEF u
  <2>3. Found(u, X)
    BY <2>2, <1>2, EntryIsNoFault DEF Traversed, Found
  <2>4. {x.n : x \in X} \cap Inodes(img) = {x.n : x \in E} \cap Inodes(img)
    BY <1>2
  <2>5. OnStack(u) = OnStack(s)
    BY <2>2 DEF OnStack
  <2>6. \A x \in X : x.n \in Inodes(img) => x \in E
    BY <1>2
  <2> HIDE DEF X
  <2>7. Traversed(u, X, D)
    BY <2>2, <2>3, <2>4, <2>5, <2>6 DEF Traversed
  <2> QED BY <2>1, <2>7 DEF X
<1>3. CASE e.n \in Inodes(img)
  <2>1. /\ CheckShape(t) /\ t.stack = s.stack /\ t.checked = s.checked /\ t.done = s.done
        /\ t.referenced = s.referenced \cup {e.n} /\ t.owned = s.owned /\ t.problems = s.problems
    BY <1>1 DEF CheckShape, CheckFields
  <2>2. CheckEntry(s, e) = IF e.name \in Dots \/ e.n \in t.checked THEN t
                           ELSE IF IsDir(img, e.n) THEN [t EXCEPT !.stack = Append(@, e.n)]
                           ELSE Meet(t, e.n)
    BY <1>3 DEF CheckEntry, Dots
  <2> HIDE DEF t
  <2>3. Found(t, X)
    BY <2>1, <1>3, EntryIsNoFault DEF Traversed, Found
  <2>4. {x.n : x \in X} \cap Inodes(img) = ({x.n : x \in E} \cap Inodes(img)) \cup {e.n}
    BY <1>3
  <2>5. t.referenced = {ROOT_INODE} \cup ({x.n : x \in X} \cap Inodes(img))
    <3> HIDE DEF X
    <3> QED BY <2>1, <2>4 DEF Traversed
  (* What remains to be shown of the state u that comes out.                 *)
  <2>6. ASSUME NEW u, Found(u, X), u.stack \in Seq(U), {i \in u.checked : IsDir(img, i)} = D,
               u.done = t.done, u.referenced = t.referenced,
               P(u) = P(t) \/ P(u) = P(t) \cup {e.n}, e.name \notin Dots => e.n \in P(u)
        PROVE  Traversed(u, X, D)
    <3>1. P(t) = P(s)
      BY <2>1 DEF OnStack
    <3>2. ROOT_INODE \in P(s) /\ P(s) \subseteq s.referenced /\ s.done = FALSE
          /\ \A x \in E : x.n \in Inodes(img) /\ x.name \notin Dots => x.n \in P(s)
      BY DEF Traversed
    <3> HIDE DEF P
    <3>3. ROOT_INODE \in P(u) /\ P(u) \subseteq u.referenced
          /\ \A x \in X : x.n \in Inodes(img) /\ x.name \notin Dots => x.n \in P(u)
      BY <2>1, <2>6, <3>1, <3>2
    <3> HIDE DEF X
    <3> QED BY <2>1, <2>5, <2>6, <3>2, <3>3 DEF Traversed, P
  <2>7. t.stack \in Seq(U) /\ {i \in t.checked : IsDir(img, i)} = D
    BY <2>1 DEF Traversed
  <2>8. CASE e.name \in Dots \/ e.n \in t.checked
    <3>1. CheckEntry(s, e) = t
      BY <2>2, <2>8
    <3>2. e.name \notin Dots => e.n \in P(t)
      BY <2>8
    <3> HIDE DEF X, U, P
    <3>3. Traversed(t, X, D)
      BY <2>3, <2>6, <2>7, <3>2
    <3> QED BY <3>1, <3>3 DEF X
  <2>9. CASE ~(e.name \in Dots \/ e.n \in t.checked) /\ IsDir(img, e.n)
    <3> DEFINE u == [t EXCEPT !.stack = Append(@, e.n)]
    <3>1. CheckEntry(s, e) = u
      BY <2>2, <2>9
    <3>2. /\ CheckShape(u) /\ u.stack = Append(t.stack, e.n) /\ u.checked = t.checked /\ u.done = t.done
          /\ u.referenced = t.referenced /\ u.owned = t.owned /\ u.problems = t.problems
      BY <2>1 DEF CheckShape, CheckFields
    <3> HIDE DEF u
    <3>3. e.n \in U
      BY <2>9, <1>3
    <3>4. u.stack \in Seq(U) /\ OnStack(u) = OnStack(t) \cup {e.n}
      <4> HIDE DEF U
      <4>1. /\ Append(t.stack, e.n) \in Seq(U)
            /\ {Append(t.stack, e.n)[k] : k \in 1 .. Len(Append(t.stack, e.n))} =
                  {t.stack[k] : k \in 1 .. Len(t.stack)} \cup {e.n}
        BY <2>7, <3>3, StackGrows
      <4> QED BY <3>2, <4>1 DEF OnStack
    <3>5. P(u) = P(t) \cup {e.n} /\ e.n \in P(u)
      BY <3>2, <3>4
    <3>6. Found(u, X)
      <4> HIDE DEF X
      <4> QED BY <2>3, <3>2 DEF Found
    <3>7. {i \in u.checked : IsDir(img, i)} = D
      BY <2>7, <3>2
    <3> HIDE DEF X, U, P
    <3>8. Traversed(u, X, D)
      BY <2>6, <3>2, <3>4, <3>5, <3>6, <3>7
    <3> QED BY <3>1, <3>8 DEF X
  <2>10. CASE ~(e.name \in Dots \/ e.n \in t.checked) /\ ~IsDir(img, e.n)
    <3> DEFINE u == Meet(t, e.n)
    <3>1. CheckEntry(s, e) = u
      BY <2>2, <2>10
    <3>2. e.n \in Tree
      BY <2>10, <1>3
    <3>3. /\ Found(u, X) /\ u.checked = t.checked \cup {e.n} /\ u.stack = t.stack
          /\ u.referenced = t.referenced /\ u.done = t.done
      <4> HIDE DEF X
      <4> QED BY <2>3, <2>10, <3>2, MeetFound
    <3> HIDE DEF u
    <3>4. {i \in u.checked : IsDir(img, i)} = D
      BY <2>7, <2>10, <3>3
    <3>5. P(u) = P(t) \cup {e.n} /\ e.n \in P(u)
      BY <3>3 DEF OnStack
    <3>6. u.stack \in Seq(U)
      BY <2>7, <3>3
    <3> HIDE DEF X, U, P
    <3>7. Traversed(u, X, D)
      BY <2>6, <3>3, <3>4, <3>5, <3>6
    <3> QED BY <3>1, <3>7 DEF X
  <2> QED BY <2>8, <2>9, <2>10
<1> QED BY <1>2, <1>3

(* The entries of a directory, one after the other.                         *)
EntriesUpTo(s, entries, n, f) ==
    f = [k \in 0 .. n |-> IF k = 0 THEN s ELSE CheckEntry(f[k - 1], entries[k])]

LEMMA CheckEntriesUnfolds ==
    ASSUME NEW s, NEW U, NEW entries \in Seq(U)
    PROVE  \E f : EntriesUpTo(s, entries, Len(entries), f) /\ CheckEntries(s, entries) = f[Len(entries)]
<1> DEFINE N == Len(entries)
           S == {n \in 0 .. N : \E f : EntriesUpTo(s, entries, n, f)}
<1>1. N \in Nat
  BY LenProperties
<1>2. 0 \in S
  <2> DEFINE f == [k \in 0 .. 0 |-> s]
  <2>1. \A k \in 0 .. 0 : k = 0
    OBVIOUS
  <2>2. EntriesUpTo(s, entries, 0, f)
    BY <2>1 DEF EntriesUpTo
  <2> HIDE DEF f
  <2> QED BY <1>1, <2>2
<1>3. ASSUME NEW n \in 0 .. N, n \in S, n < N PROVE n + 1 \in S
  <2>1. PICK f : EntriesUpTo(s, entries, n, f)
    BY <1>3
  <2> DEFINE g == [k \in 0 .. n + 1 |-> IF k <= n THEN f[k] ELSE CheckEntry(f[n], entries[n + 1])]
             h == [k \in 0 .. n + 1 |-> IF k = 0 THEN s ELSE CheckEntry(g[k - 1], entries[k])]
  <2>2. ASSUME NEW k \in 0 .. n + 1 PROVE g[k] = IF k = 0 THEN s ELSE CheckEntry(g[k - 1], entries[k])
    <3>1. CASE k <= n
      <4>1. k \in 0 .. n /\ g[k] = f[k] /\ f[k] = IF k = 0 THEN s ELSE CheckEntry(f[k - 1], entries[k])
        BY <3>1, <2>1 DEF EntriesUpTo
      <4>2. k # 0 => k - 1 \in 0 .. n + 1 /\ k - 1 <= n
        BY <3>1
      <4> QED BY <4>1, <4>2
    <3>2. CASE k = n + 1
      <4>1. k # 0 /\ ~(k <= n) /\ k - 1 = n /\ n \in 0 .. n + 1 /\ n <= n
        BY <3>2
      <4> QED BY <4>1, <3>2
    <3> QED BY <3>1, <3>2
  <2>3. g = h
    BY <2>2
  <2>4. EntriesUpTo(s, entries, n + 1, g)
    BY <2>3 DEF EntriesUpTo
  <2> HIDE DEF g
  <2> QED BY <2>4, <1>3, <1>1
<1>4. N \in S
  <2> HIDE DEF S, N
  <2>1. \A n \in 0 .. N : n \in S
    BY <1>1, <1>2, <1>3, CountUp
  <2> QED BY <1>1, <2>1
<1> DEFINE after == CHOOSE f : EntriesUpTo(s, entries, N, f)
<1>5. EntriesUpTo(s, entries, N, after)
  BY <1>4
<1>6. CheckEntries(s, entries) = after[N]
  BY DEF CheckEntries, EntriesUpTo
<1> QED BY <1>5, <1>6

LEMMA EntriesWalk ==
    ASSUME Readable(img), NEW s, NEW E, NEW D, Traversed(s, E, D), NEW U, NEW entries \in Seq(U),
           \A e \in Range(entries) : e.n \in Inodes(img) /\ e.name \notin Dots => e.n \in Tree
    PROVE  Traversed(CheckEntries(s, entries), E \cup Range(entries), D)
<1> DEFINE N == Len(entries)
           Seen(n) == {entries[k] : k \in 1 .. n}
<1>1. N \in Nat /\ Range(entries) = Seen(N)
  BY LenProperties, RangeEquality
<1>2. PICK f : EntriesUpTo(s, entries, N, f) /\ CheckEntries(s, entries) = f[N]
  BY CheckEntriesUnfolds
<1>3. f[0] = s /\ \A k \in 1 .. N : f[k] = CheckEntry(f[k - 1], entries[k])
  BY <1>1, <1>2 DEF EntriesUpTo
<1> DEFINE S == {n \in 0 .. N : Traversed(f[n], E \cup Seen(n), D)}
<1>4. 0 \in S
  <2>1. Seen(0) = {}
    OBVIOUS
  <2>2. E \cup Seen(0) = E
    BY <2>1
  <2> HIDE DEF Seen, N
  <2>3. Traversed(f[0], E \cup Seen(0), D)
    BY <2>2, <1>3
  <2> QED BY <2>3, <1>1
<1>5. ASSUME NEW n \in 0 .. N, n \in S, n < N PROVE n + 1 \in S
  <2> DEFINE e == entries[n + 1]
  <2>1. n + 1 \in 1 .. N /\ n + 1 \in 0 .. N /\ (n + 1) - 1 = n
    BY <1>1, <1>5
  <2>2. e \in Range(entries)
    BY <1>1, <2>1
  <2>3. Seen(n + 1) = Seen(n) \cup {e}
    <3>1. \A k : k \in 1 .. n + 1 <=> k \in 1 .. n \/ k = n + 1
      BY <1>1
    <3> QED BY <3>1
  <2>4. f[n + 1] = CheckEntry(f[n], e)
    BY <1>3, <2>1
  <2>5. Traversed(f[n], E \cup Seen(n), D)
    BY <1>5
  <2> HIDE DEF e, Seen
  <2>6. Traversed(CheckEntry(f[n], e), (E \cup Seen(n)) \cup {e}, D)
    BY <2>2, <2>5, EntryWalk
  <2>7. (E \cup Seen(n)) \cup {e} = E \cup Seen(n + 1)
    BY <2>3
  <2>8. Traversed(f[n + 1], E \cup Seen(n + 1), D)
    BY <2>4, <2>6, <2>7
  <2> QED BY <2>1, <2>8
<1>6. N \in S
  <2> HIDE DEF S, N
  <2>1. \A n \in 0 .. N : n \in S
    BY <1>1, <1>4, <1>5, CountUp
  <2> QED BY <1>1, <2>1
<1> HIDE DEF Seen
<1> QED BY <1>1, <1>2, <1>6

(* The traversal begins.                                                    *)
LEMMA WalkBegins ==
    ASSUME Readable(img), CheckInit
    PROVE  Traversed(check, EntriesOf(check.checked), {i \in check.checked : IsDir(img, i)})
<1>1. /\ CheckShape(check) /\ check.stack = <<ROOT_INODE>> /\ check.checked = {} /\ check.done = FALSE
      /\ check.referenced = {ROOT_INODE} /\ check.owned = {} /\ check.problems = {}
  BY DEF CheckInit, CheckShape, CheckFields
<1>2. EntriesOf({}) = {} /\ Files({}) = {}
  BY DEF EntriesOf, Files
<1>3. Owned({}) = {} /\ Apart({}) /\ Faultless({}, {})
  BY <1>2 DEF Owned, Apart, Faultless
<1>4. ROOT_INODE \in Tree /\ IsDir(img, ROOT_INODE) /\ ROOT_INODE \in Inodes(img)
  BY TreeIs
<1>5. /\ <<ROOT_INODE>> \in Seq({i \in Tree : IsDir(img, i)})
      /\ Len(<<ROOT_INODE>>) = 1 /\ <<ROOT_INODE>>[1] = ROOT_INODE
  BY <1>4
<1>6. OnStack(check) = {ROOT_INODE}
  BY <1>1, <1>5 DEF OnStack
<1>7. Found(check, EntriesOf(check.checked))
  BY <1>1, <1>2, <1>3 DEF Found
<1> QED BY <1>1, <1>2, <1>5, <1>6, <1>7 DEF Traversed

(* A round of the loop.                                                     *)
LEMMA DirWalk ==
    ASSUME Readable(img), Traversed(check, EntriesOf(check.checked), {i \in check.checked : IsDir(img, i)}), CheckDir
    PROVE  Traversed(check', EntriesOf(check'.checked), {i \in check'.checked : IsDir(img, i)})
<1> DEFINE dir == Last(check.stack)
           s   == [check EXCEPT !.stack = Front(@)]
           t   == IF dir \in s.checked THEN s ELSE Meet(s, dir)
           D   == {i \in check.checked : IsDir(img, i)}
           E   == EntriesOf(check.checked)
           U   == {i \in Tree : IsDir(img, i)}
           n   == Len(check.stack)
           entries == ReadDir(img, dir)
<1>1. check.stack # <<>> /\ check' = CheckEntries(t, entries)
  BY DEF CheckDir
<1>2. CheckShape(check) /\ check.stack \in Seq(U)
  BY DEF Traversed, Found
<1>3. n \in Nat /\ n > 0 /\ \A k \in 1 .. n : check.stack[k] \in U
  <2> HIDE DEF U
  <2> QED BY <1>1, <1>2, EmptySeq, ElementOfSeq, LenProperties
<1>4. dir = check.stack[n] /\ dir \in Tree /\ IsDir(img, dir)
  BY <1>3 DEF Last
<1>5. /\ CheckShape(s) /\ s.stack = Front(check.stack) /\ s.checked = check.checked /\ s.done = check.done
      /\ s.referenced = check.referenced /\ s.owned = check.owned /\ s.problems = check.problems
  BY <1>2 DEF CheckShape, CheckFields
<1>6. s.stack \in Seq(U) /\ OnStack(check) = OnStack(s) \cup {dir}
  <2>1. Front(check.stack) = SubSeq(check.stack, 1, n - 1)
    BY DEF Front
  <2>2. \A k \in 1 .. n - 1 : check.stack[k] \in U
    BY <1>3
  <2>3. /\ SubSeq(check.stack, 1, n - 1) \in Seq(U)
        /\ Len(SubSeq(check.stack, 1, n - 1)) = IF 1 <= n - 1 THEN n - 1 - 1 + 1 ELSE 0
        /\ \A k \in 1 .. n - 1 - 1 + 1 : SubSeq(check.stack, 1, n - 1)[k] = check.stack[1 + k - 1]
    <3> HIDE DEF U, n
    <3> QED BY <1>3, <2>2, SubSeqProperties
  <2> HIDE DEF s, n, U
  <2>4. s.stack \in Seq(U) /\ Len(s.stack) = n - 1 /\ \A k \in 1 .. n - 1 : s.stack[k] = check.stack[k]
    BY <1>3, <1>5, <2>1, <2>3
  <2>5. \A k : k \in 1 .. n <=> k \in 1 .. n - 1 \/ k = n
    BY <1>3
  <2>6. OnStack(check) = OnStack(s) \cup {dir}
    BY <1>4, <2>4, <2>5 DEF OnStack, n
  <2> QED BY <2>4, <2>6
<1>7. Found(s, E)
  BY <1>5 DEF Traversed, Found
<1> HIDE DEF s
<1> DEFINE Dt == D \cup {dir}
<1>8. /\ Found(t, E) /\ t.checked = check.checked \cup {dir} /\ t.stack = s.stack
      /\ t.referenced = check.referenced /\ t.done = check.done
  <2>1. CASE dir \in s.checked
    <3>1. t = s
      BY <2>1
    <3> QED BY <3>1, <2>1, <1>5, <1>7
  <2>2. CASE dir \notin s.checked
    <3>1. t = Meet(s, dir)
      BY <2>2
    <3> HIDE DEF E, dir, t
    <3> QED BY <3>1, <2>2, <1>4, <1>5, <1>7, MeetFound
  <2> QED BY <2>1, <2>2
<1> HIDE DEF t
<1>9. Traversed(t, E, Dt)
  <2>1. OnStack(t) = OnStack(s)
    BY <1>8 DEF OnStack
  <2>2. t.checked \cup OnStack(t) = check.checked \cup OnStack(check)
    BY <2>1, <1>6, <1>8
  <2>3. {i \in t.checked : IsDir(img, i)} = Dt
    BY <1>4, <1>8
  <2> HIDE DEF E, Dt, dir
  <2> QED BY <2>2, <2>3, <1>6, <1>8 DEF Traversed, E
<1>10. entries \in Seq(UnitsOf(img))
  BY <1>4, TreeIs, DirRead
<1>11. \A e \in Range(entries) : e.n \in Inodes(img) /\ e.name \notin Dots => e.n \in Tree
  BY <1>4, TreeIs
<1>12. Traversed(check', E \cup Range(entries), Dt)
  <2> HIDE DEF E, Dt, entries
  <2> QED BY <1>1, <1>9, <1>10, <1>11, EntriesWalk
<1>13. {i \in check'.checked : IsDir(img, i)} = Dt
  <2> HIDE DEF Dt, E
  <2> QED BY <1>12 DEF Traversed
<1>14. EntriesOf(check'.checked) = E \cup Range(entries)
  <2>1. EntriesOf(check'.checked) = UNION {Range(ReadDir(img, i)) : i \in Dt}
    <3> HIDE DEF Dt
    <3> QED BY <1>13 DEF EntriesOf
  <2>2. E = UNION {Range(ReadDir(img, i)) : i \in D}
    BY DEF EntriesOf
  <2> QED BY <2>1, <2>2
<1> QED BY <1>12, <1>13, <1>14

(* The traversal ends: it has looked at the whole tree.                     *)
LEMMA WalkEnds ==
    ASSUME Readable(img), Traversed(check, EntriesOf(check.checked), {i \in check.checked : IsDir(img, i)}),
           check.stack = <<>>
    PROVE  check.checked = Tree
<1>1. OnStack(check) = {}
  <2>1. Len(check.stack) = 0
    OBVIOUS
  <2> QED BY <2>1 DEF OnStack
<1>2. check.checked \subseteq Tree /\ ROOT_INODE \in check.checked
  BY <1>1 DEF Traversed, Found
<1>3. \A i \in check.checked : IsDir(img, i) => \A e \in Range(ReadDir(img, i)) :
          e.n \in Inodes(img) /\ e.name \notin Dots => e.n \in check.checked
  BY <1>1 DEF Traversed, EntriesOf
<1>4. Tree \subseteq check.checked
  BY <1>2, <1>3, TreeIs
<1> QED BY <1>2, <1>4

(* What the reverse checks add makes the verdict that of Sound.             *)
LEMMA Verdict ==
    ASSUME Readable(img), Traversed(check, EntriesOf(check.checked), {i \in check.checked : IsDir(img, i)}), CheckRest
    PROVE  check'.problems = {} <=> Sound
<1> DEFINE a == {<<"orphan", i>> : i \in (img.imap \cap Inodes(img)) \ check.referenced}
           b == {<<"lost zone", 0>> : z \in (img.zmap \cap DataZones(img)) \ check.owned}
           names == {e.n : e \in EntriesOf(Tree)}
<1>1. check.checked = Tree
  BY WalkEnds DEF CheckRest
<1>2. check'.problems = check.problems \cup a \cup b
  <2>1. CheckShape(check)
    BY DEF Traversed, Found
  <2> HIDE DEF a, b
  <2> QED BY <2>1 DEF CheckRest, CheckShape, CheckFields, a, b
<1>3. a = {} <=> img.imap \cap Inodes(img) \subseteq check.referenced
  OBVIOUS
<1>4. b = {} <=> img.zmap \cap DataZones(img) \subseteq check.owned
  OBVIOUS
<1>5. /\ check.problems = {} <=> Faultless(Tree, EntriesOf(Tree))
      /\ check.owned = Owned(Tree)
      /\ check.referenced = {ROOT_INODE} \cup (names \cap Inodes(img))
      /\ Tree \subseteq check.referenced
  BY <1>1 DEF Traversed, Found
<1>6. ROOT_INODE \in Tree
  BY TreeIs
<1>7. Faultless(Tree, EntriesOf(Tree)) => names \subseteq Inodes(img)
  BY DEF Faultless
<1> HIDE DEF a, b, names
<1>8. Faultless(Tree, EntriesOf(Tree)) => check.referenced = Tree \cup names
  BY <1>5, <1>6, <1>7
<1>9. Sound <=> /\ Faultless(Tree, EntriesOf(Tree))
                /\ img.imap \cap Inodes(img) \subseteq Tree \cup names
                /\ img.zmap \cap DataZones(img) \subseteq Owned(Tree)
  BY SoundIs DEF names
<1> QED BY <1>2, <1>3, <1>4, <1>5, <1>8, <1>9

(* All this is said of the image, which stays the same.                     *)
LEMMA SameImage ==
    ASSUME img' = img
    PROVE  \A s, E, D : /\ Traversed(s, E, D)' <=> Traversed(s, E, D)
                        /\ EntriesOf(s.checked)' = EntriesOf(s.checked)
<1>1. \A z : (Valid(z)' <=> Valid(z)) /\ Numbers(z)' = Numbers(z)
  BY DEF Valid, Numbers
<1>2. \A i : DataRefs(i)' = DataRefs(i)
  BY DEF DataRefs, Valid, Numbers
<1>3. \A i : MetaRefs(i)' = MetaRefs(i)
  BY DEF MetaRefs, Valid, Numbers
<1>4. \A i : References(i)' = References(i)
  BY <1>2, <1>3 DEF References
<1>5. \A i : SizeWrong(i)' <=> SizeWrong(i)
  BY <1>2 DEF SizeWrong, Blocks
<1>6. \A S : Files(S)' = Files(S) /\ EntriesOf(S)' = EntriesOf(S)
  BY DEF Files, EntriesOf
<1>7. \A S : Owned(S)' = Owned(S) /\ (Apart(S)' <=> Apart(S))
  BY <1>1, <1>4, <1>6 DEF Owned, Apart
<1>8. \A S, E : Faultless(S, E)' <=> Faultless(S, E)
  BY <1>1, <1>4, <1>5, <1>6, <1>7 DEF Faultless
<1>9. Tree' = Tree
  BY DEF Tree
<1>10. \A s, E : Found(s, E)' <=> Found(s, E)
  BY <1>7, <1>8, <1>9 DEF Found, CheckShape
<1>11. \A s, E, D : Traversed(s, E, D)' <=> Traversed(s, E, D)
  BY <1>9, <1>10 DEF Traversed, OnStack
<1> QED BY <1>6, <1>11

WalkInv ==
    /\ img \in Images
    /\ check.done => check.stack = <<>>
    /\ ~check.done => Traversed(check, EntriesOf(check.checked), {i \in check.checked : IsDir(img, i)})

LEMMA WalkInvKept ==
    ASSUME WalkInv, Checks
    PROVE  WalkInv' /\ (check'.done /\ ~check.done => (check'.problems = {} <=> Sound))
<1>1. Readable(img) /\ img \in Images
  BY ImagesAssumption DEF WalkInv
<1>2. CASE CheckDir
  <2>1. ~check.done /\ img' = img
    BY <1>2 DEF CheckDir, WalkInv
  <2>2. Traversed(check', EntriesOf(check'.checked), {i \in check'.checked : IsDir(img, i)})
    BY <1>1, <1>2, <2>1, DirWalk DEF WalkInv
  <2>3. check'.done = FALSE
    BY <2>2 DEF Traversed
  <2>4. Traversed(check, EntriesOf(check.checked), {i \in check.checked : IsDir(img, i)})'
    <3>1. EntriesOf(check.checked)' = EntriesOf(check'.checked)
      BY <2>1 DEF EntriesOf
    <3>2. {i \in check.checked : IsDir(img, i)}' = {i \in check'.checked : IsDir(img, i)}
      BY <2>1
    <3> QED BY <2>1, <2>2, <3>1, <3>2, SameImage
  <2> QED BY <1>1, <2>1, <2>3, <2>4 DEF WalkInv
<1>3. CASE CheckRest
  <2>1. ~check.done /\ img' = img /\ check.stack = <<>>
    BY <1>3 DEF CheckRest
  <2>2. Traversed(check, EntriesOf(check.checked), {i \in check.checked : IsDir(img, i)})
    BY <2>1 DEF WalkInv
  <2>3. check'.problems = {} <=> Sound
    BY <1>1, <1>3, <2>2, Verdict
  <2>4. check'.done = TRUE /\ check'.stack = check.stack
    BY <2>2, <1>3 DEF Traversed, Found, CheckShape, CheckFields, CheckRest
  <2> QED BY <1>1, <2>1, <2>3, <2>4 DEF WalkInv
<1> QED BY <1>2, <1>3 DEF Checks, CheckNext

(* check_fs reports nothing exactly when the image is sound, on every image *)
(* that can be read, however it is damaged.                                 *)
THEOREM CleanExactlyIfSound == FSSpec => CleanIffSound
<1> DEFINE A == check'.done /\ ~check.done => (check'.problems = {} <=> Sound)
<1>1. FSInit => WalkInv
  <2> SUFFICES ASSUME FSInit PROVE WalkInv
    OBVIOUS
  <2>1. img \in Images /\ CheckInit /\ Readable(img)
    BY ImagesAssumption DEF FSInit
  <2>2. ~check.done
    BY <2>1 DEF CheckInit
  <2> QED BY <2>1, <2>2, WalkBegins DEF WalkInv
<1>2. WalkInv /\ [Checks \/ Runs]_allVars => WalkInv' /\ [A]_check
  <2> SUFFICES ASSUME WalkInv, [Checks \/ Runs]_allVars PROVE WalkInv' /\ [A]_check
    OBVIOUS
  <2>1. CASE Checks
    BY <2>1, WalkInvKept
  <2>2. CASE UNCHANGED <<img, check>>
    <3>1. WalkInv'
      BY <2>2, SameImage DEF WalkInv
    <3> QED BY <3>1, <2>2
  <2>3. CASE Runs
    BY <2>2, <2>3 DEF Runs
  <2> QED BY <2>1, <2>2, <2>3 DEF allVars
<1> QED BY <1>1, <1>2, PTL DEF FSSpec, CleanIffSound
=============================================================================
