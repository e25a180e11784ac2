--------------------------------- MODULE Image ---------------------------------
(***************************************************************************)
(* The disk image as MinixFS (minixfs.py) reads it: inodes, bitmaps, the   *)
(* zones of a file through one and two levels of indirection, and          *)
(* directories.  An image is a record; reading is a family of operators.   *)
(*                                                                         *)
(* A block is BlockSize units.  A unit is a directory entry, a zone number *)
(* or a datum of a file, whatever the reader takes it for: unit.n is the   *)
(* number it begins with, unit.name the rest.  (In the code a block holds  *)
(* 64 entries, 512 zone numbers or 1024 bytes; sizes are in bytes.)        *)
(***************************************************************************)
EXTENDS Integers, FiniteSets, SequencesExt

CONSTANTS NDirect,    \* zone numbers in the inode itself: 7 in the code
          BlockSize   \* units of a block

ASSUME ImageAssumption == NDirect \in Nat \ {0} /\ BlockSize \in Nat \ {0}

ROOT_INODE == 1
ZeroUnit   == [n |-> 0, name |-> ""]
Hole       == [k \in 1 .. BlockSize |-> ZeroUnit]
LeastOf(a, b) == IF a < b THEN a ELSE b
MostOf(a, b)  == IF a > b THEN a ELSE b

(* img.inode: a sequence of [kind, size, nlinks, zones]; img.block: the     *)
(* contents of the zones first .. nzones - 1; img.imap, img.zmap: the inode *)
(* numbers and zones that the bitmaps mark.                                 *)
(* "file": a regular file or a symbolic link, which are read and checked    *)
(* alike; "chr": a device of either sort.                                   *)
Kinds             == {"dir", "file", "chr", "fifo", "unknown"}
Inodes(img)       == DOMAIN img.inode
DataZones(img)    == img.first .. img.nzones - 1
IsDir(img, i)     == img.inode[i].kind = "dir"
IsSpecial(img, i) == img.inode[i].kind \in {"chr", "fifo"}

(* read_block: zone 0 is a hole, and what lies behind the end reads as      *)
(* zeros.  So do, here, the blocks before the first data zone: bitmaps and  *)
(* inodes are not kept as blocks.                                           *)
ReadBlock(img, z) == IF z \in DataZones(img) THEN img.block[z] ELSE Hole

Word(img, z, k) == ReadBlock(img, z)[k + 1].n

(* zone_at: the zone of the index-th block of a file, 0 for a hole. *)
ZoneAt(img, i, index) ==
    LET zones == img.inode[i].zones
        single == index - NDirect
        double == single - BlockSize
    IN  CASE index < NDirect -> zones[index + 1]
          [] index >= NDirect /\ single < BlockSize -> Word(img, zones[NDirect + 1], single)
          [] OTHER -> Word(img, Word(img, zones[NDirect + 2], double \div BlockSize), double % BlockSize)

MaxBlocks == NDirect + BlockSize + BlockSize * BlockSize   \* of one file

(* Mutant: only the first block is cut.                                     *)
ReadFile_Past(img, i, offset, length) ==
    LET end == LeastOf(img.inode[i].size, offset + MostOf(length, 0))
        Part(block) == SubSeq(ReadBlock(img, ZoneAt(img, i, block)),
                              MostOf(offset - block * BlockSize, 0) + 1, BlockSize)
        first == offset \div BlockSize
    IN  IF offset >= end THEN <<>>
        ELSE FlattenSeq([k \in 1 .. (end - 1) \div BlockSize - first + 1 |-> Part(first + k - 1)])

(* read_file: block by block, the first and the last one cut. *)
ReadFile(img, i, offset, length) ==
    LET end == LeastOf(img.inode[i].size, offset + MostOf(length, 0))
        Part(block) ==
            LET pos == block * BlockSize
            IN  SubSeq(ReadBlock(img, ZoneAt(img, i, block)),
                       MostOf(offset - pos, 0) + 1, LeastOf(end - pos, BlockSize))
        first == offset \div BlockSize
        count == (end - 1) \div BlockSize - first + 1
    IN  IF offset >= end THEN <<>>
        ELSE FlattenSeq([k \in 1 .. count |-> Part(first + k - 1)])

Content(img, i) == ReadFile(img, i, 0, img.inode[i].size)

(* read_dir: the entries in use. *)
InUse(entries) ==
    LET upto[n \in 0 .. Len(entries)] ==
            IF n = 0 THEN <<>>
            ELSE IF entries[n].n = 0 THEN upto[n - 1] ELSE Append(upto[n - 1], entries[n])
    IN  upto[Len(entries)]
ReadDir(img, i) == InUse(Content(img, i))

(* What the reader can take from any disk, but for what makes it give up:   *)
(* a root that is no directory, or a directory longer than zone_at reaches. *)
Readable(img) ==
    /\ img.inode \in Seq([kind : Kinds, size : Nat, nlinks : Nat, zones : [1 .. NDirect + 2 -> Nat]])
    /\ ROOT_INODE \in Inodes(img) /\ IsDir(img, ROOT_INODE)
    /\ img.first \in Nat \ {0} /\ img.nzones \in Nat
    /\ \A z \in DataZones(img) :
          /\ img.block[z] \in [1 .. BlockSize -> Range(img.block[z])]
          /\ \A unit \in Range(img.block[z]) : unit.n \in Nat
    /\ \A i \in Inodes(img) : IsDir(img, i) => img.inode[i].size <= MaxBlocks * BlockSize

-----------------------------------------------------------------------------
(* A reference for reading: the units of a file one by one. *)
UnitAt(img, i, k) == ReadBlock(img, ZoneAt(img, i, (k - 1) \div BlockSize))[((k - 1) % BlockSize) + 1]
WholeFile(img, i) == [k \in 1 .. img.inode[i].size |-> UnitAt(img, i, k)]
=============================================================================
