---------------------------------- MODULE Fsck ----------------------------------
(***************************************************************************)
(* check_fs (minixfs.py): the traversal of the directory tree, one step    *)
(* per directory taken from the stack, and the reverse checks at its end.  *)
(* A problem is its kind and the inode it is reported for; paths and       *)
(* messages are left out.                                                  *)
(***************************************************************************)
EXTENDS Image

VARIABLES img,    \* the image that is checked
          check   \* the local state of check_fs

CheckInit == check = [stack |-> <<ROOT_INODE>>, checked |-> {}, referenced |-> {ROOT_INODE},
                      owned |-> {}, problems |-> {}, done |-> FALSE]

Valid(z) == z \in DataZones(img)
Numbers(z) == {k \in 0 .. BlockSize - 1 : Word(img, z, k) # 0}

(* collect_zones: what a file refers to, as pairs <<index, zone>>; the      *)
(* indirect blocks have negative indices.  Invalid ones are not followed.   *)
DataRefs(i) ==
    LET zones == img.inode[i].zones
        ind == zones[NDirect + 1]
        dbl == zones[NDirect + 2]
    IN  {<<k - 1, zones[k]>> : k \in {j \in 1 .. NDirect : zones[j] # 0}}
        \cup (IF Valid(ind) THEN {<<NDirect + k, Word(img, ind, k)>> : k \in Numbers(ind)} ELSE {})
        \cup (IF Valid(dbl)
              THEN UNION {{<<NDirect + BlockSize + j * BlockSize + k, Word(img, Word(img, dbl, j), k)>> :
                              k \in Numbers(Word(img, dbl, j))} :
                          j \in {m \in Numbers(dbl) : Valid(Word(img, dbl, m))}}
              ELSE {})

MetaRefs(i) ==
    LET zones == img.inode[i].zones
        dbl == zones[NDirect + 2]
    IN  {<<k - NDirect - 3, zones[k]>> : k \in {j \in NDirect + 1 .. NDirect + 2 : zones[j] # 0}}
        \cup (IF Valid(dbl) THEN {<<-3 - j, Word(img, dbl, j)>> : j \in Numbers(dbl)} ELSE {})

Blocks(i) == (img.inode[i].size + BlockSize - 1) \div BlockSize

(* Mutant: the blocks are counted, not looked at one by one.                *)
SizeWrong_Count(i) == Cardinality(DataRefs(i)) # Blocks(i)

SizeWrong(i) == \/ Cardinality(DataRefs(i)) # Blocks(i)
                \/ \E r \in DataRefs(i) : r[1] >= Blocks(i)

(* check_inode, on the state s of the check. *)
CheckInode(s, i) ==
    LET refs  == DataRefs(i) \cup MetaRefs(i)
        valid == {r \in refs : Valid(r[2])}
        kinds == {<<"invalid zone",  \E r \in refs : ~Valid(r[2])>>,
                  <<"unmarked zone", \E r \in valid : r[2] \notin img.zmap>>,
                  <<"shared zone",   \/ \E r \in valid : r[2] \in s.owned
                                     \/ \E r, q \in valid : r # q /\ r[2] = q[2]>>,
                  <<"size",          SizeWrong(i)>>}
    IN  IF IsSpecial(img, i) THEN s
        ELSE [s EXCEPT !.owned = @ \cup {r[2] : r \in valid},
                       !.problems = @ \cup {<<k[1], i>> : k \in {kk \in kinds : kk[2]}}]

(* An inode met for the first time. *)
Meet(s, i) ==
    LET t == [s EXCEPT !.checked = @ \cup {i},
                       !.problems = @ \cup (IF i \in img.imap THEN {} ELSE {<<"unmarked inode", i>>})
                                      \cup (IF img.inode[i].kind = "unknown" THEN {<<"type", i>>} ELSE {})]
    IN  CheckInode(t, i)

(* Mutant: a directory goes onto the stack whether it was met or not.       *)
CheckEntry_Again(s, e) ==
    IF e.n \notin Inodes(img) THEN [s EXCEPT !.problems = @ \cup {<<"inode number", e.n>>}]
    ELSE LET t == [s EXCEPT !.referenced = @ \cup {e.n}]
         IN  IF e.name \in {".", ".."} THEN t
             ELSE IF IsDir(img, e.n) THEN [t EXCEPT !.stack = Append(@, e.n)]
             ELSE IF e.n \in t.checked THEN t
             ELSE Meet(t, e.n)

(* One entry of a directory. *)
CheckEntry(s, e) ==
    IF e.n \notin Inodes(img) THEN [s EXCEPT !.problems = @ \cup {<<"inode number", e.n>>}]
    ELSE LET t == [s EXCEPT !.referenced = @ \cup {e.n}]
         IN  IF e.name \in {".", ".."} \/ e.n \in t.checked THEN t
             ELSE IF IsDir(img, e.n) THEN [t EXCEPT !.stack = Append(@, e.n)]
             ELSE Meet(t, e.n)

(* One entry after the other.                                               *)
CheckEntries(s, entries) ==
    LET after[n \in 0 .. Len(entries)] == IF n = 0 THEN s ELSE CheckEntry(after[n - 1], entries[n])
    IN  after[Len(entries)]

(* One round of the loop: a directory from the stack, then its entries. *)
CheckDir ==
    /\ check.stack # <<>>
    /\ LET dir == Last(check.stack)
           s   == [check EXCEPT !.stack = Front(@)]
           t   == IF dir \in s.checked THEN s ELSE Meet(s, dir)
       IN  \E entries \in {ReadDir(img, dir)} : check' = CheckEntries(t, entries)
    /\ UNCHANGED img

(* The reverse checks: marked inodes and zones that nothing refers to. *)
CheckRest ==
    /\ check.stack = <<>> /\ ~check.done
    /\ check' = [check EXCEPT !.done = TRUE,
                    !.problems = @ \cup {<<"orphan", i>> : i \in (img.imap \cap Inodes(img)) \ check.referenced}
                                   \cup {<<"lost zone", 0>> : z \in (img.zmap \cap DataZones(img)) \ check.owned}]
    /\ UNCHANGED img

CheckNext == CheckDir \/ CheckRest

-----------------------------------------------------------------------------
(* The inodes of the tree: in every set that holds the root and, with a     *)
(* directory, what its entries name.                                        *)
Tree ==
    LET Closed(C) ==
            /\ ROOT_INODE \in C
            /\ \A i \in C : IsDir(img, i) =>
                  \A e \in Range(ReadDir(img, i)) : e.n \in Inodes(img) /\ e.name \notin {".", ".."} => e.n \in C
    IN  {i \in Inodes(img) : \A C \in SUBSET Inodes(img) : Closed(C) => i \in C}

(* What a sound image is, in terms of what the reader (zone_at) finds.      *)
Sound ==
    LET entries == UNION {Range(ReadDir(img, i)) : i \in {j \in Tree : IsDir(img, j)}}
        files   == {i \in Tree : ~IsSpecial(img, i)}
        slots   == {s \in files \X (0 .. MaxBlocks - 1) : ZoneAt(img, s[1], s[2]) # 0}
        metas   == UNION {{<<i, r[1]>> : r \in MetaRefs(i)} : i \in files}
        zone(s) == IF s \in slots THEN ZoneAt(img, s[1], s[2])
                   ELSE (CHOOSE r \in MetaRefs(s[1]) : r[1] = s[2])[2]
        used    == {zone(s) : s \in slots \cup metas}
    IN  /\ {e.n : e \in entries} \subseteq Inodes(img)
        /\ Tree \subseteq img.imap
        /\ img.imap \cap Inodes(img) \subseteq Tree \cup {e.n : e \in entries}
        /\ \A i \in Tree : img.inode[i].kind # "unknown"
        /\ \A i \in files : {s[2] : s \in {t \in slots : t[1] = i}} = 0 .. Blocks(i) - 1
        /\ Cardinality(used) = Cardinality(slots \cup metas)
        /\ used \subseteq DataZones(img)
        /\ img.zmap \cap DataZones(img) = used

(* check_fs reports nothing exactly when the image is sound: no pair of     *)
(* faults hides from it, and a sound image is not accused.                  *)
CleanIffSound == [][check'.done /\ ~check.done => (check'.problems = {} <=> Sound)]_check

(* However the entries are damaged (a directory named twice, or below       *)
(* itself), the traversal ends.                                             *)
CheckEnds == <>check.done

(* Whatever part of a file is asked for, it is that part of the file.       *)
ReadsAgree ==
    check.stack = <<ROOT_INODE>> => \A i \in Inodes(img) : img.inode[i].kind \in {"dir", "file"} =>
        \A offset, length \in 0 .. img.inode[i].size + 1 :
            ReadFile(img, i, offset, length) =
                SubSeq(WholeFile(img, i), offset + 1, LeastOf(offset + length, img.inode[i].size))
=============================================================================
