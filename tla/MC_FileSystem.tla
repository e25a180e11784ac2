----------------------------- MODULE MC_FileSystem -----------------------------
(* A finite instance of FileSystem: a root with a subdirectory, one file of *)
(* two names that needs both levels of indirection (two units to a block,   *)
(* one direct zone), a device, and every image that differs from it by at   *)
(* most two faults.                                                         *)
EXTENDS FileSystem, TLC

Entry(i, name) == [n |-> i, name |-> name]
Two(a, b)      == <<Entry(a, ""), Entry(b, "")>>

Written   == Entry(1, "")
FileUnits == {Entry(n, "") : n \in 21 .. 27}

Clean ==
    [inode |-> <<[kind |-> "dir",  size |-> 4, nlinks |-> 3, zones |-> <<4, 5, 0>>],
                 [kind |-> "dir",  size |-> 4, nlinks |-> 2, zones |-> <<7, 8, 0>>],
                 [kind |-> "file", size |-> 7, nlinks |-> 2, zones |-> <<10, 11, 12>>]>>,
     first |-> 4, nzones |-> 18, imap |-> 0 .. 3, zmap |-> 3 .. 16,
     block |-> 4  :> <<Entry(1, "."), Entry(1, "..")>> @@
               5  :> Two(6, 0)   @@ 6  :> <<Entry(2, "a"), Entry(3, "b")>> @@
               7  :> <<Entry(2, "."), Entry(1, "..")>> @@
               8  :> Two(9, 0)   @@ 9  :> <<Entry(0, "x"), Entry(3, "a")>> @@
               10 :> Two(21, 22) @@ 11 :> Two(13, 14) @@ 13 :> Two(23, 24) @@ 14 :> Two(25, 26) @@
               12 :> Two(15, 0)  @@ 15 :> Two(16, 0)  @@ 16 :> Two(27, 0)  @@ 17 :> Two(0, 0)]

Toggled(S, x) == IF x \in S THEN S \ {x} ELSE S \cup {x}

Damaged(im) ==
         {[im EXCEPT !.imap = Toggled(@, i)] : i \in 1 .. 3}
    \cup {[im EXCEPT !.zmap = Toggled(@, z)] : z \in {4, 10, 11, 15, 16, 17}}
    \cup {[im EXCEPT !.inode[3].size = n] : n \in {0, 5, 8}}
    \cup {[im EXCEPT !.inode[3].kind = k] : k \in {"chr", "unknown"}}
    \cup {[im EXCEPT !.inode[i].zones[k] = z] : i \in {2, 3}, k \in 2 .. 3, z \in {0, 2, 17, 18}}
    \cup {[im EXCEPT !.block[z][k].n = y] : z \in {11, 12, 15}, k \in 1 .. 2, y \in {0, 14, 17}}
    \cup {[im EXCEPT !.block[6][k].n = i] : k \in 1 .. 2, i \in 0 .. 4}
    \cup {[im EXCEPT !.block[9][2].n = i] : i \in 0 .. 2}

OneFault   == {Clean} \cup Damaged(Clean)
JustClean  == {Clean}
TwoFaults  == OneFault \cup UNION {Damaged(im) : im \in OneFault}

(* One descriptor for an inode.  Only the file of the image gets another    *)
(* mode or content, the latter once, while there is no new inode.           *)
Small ==
    /\ \A i \in Ino :
          /\ vnode[i].open_refs <= 1 /\ (vnode[i].open_refs = 1 => vnode[i].kind = "file")
          /\ i # 3 => vnode[i].mode = 0 /\ vnode[i].data \in {None, <<>>}
    /\ vnode[3].data # None => next_ino = 4 /\ Len(SelectSeq(vnode[3].data, LAMBDA u : u = Datum)) <= 1

(* The runs the properties of links and parents are about.                  *)
MCNext == Checks \/ (Runs /\ NoBareDirectories')
MCSpec == FSInit /\ [][MCNext]_allVars /\ WF_allVars(Checks)
=============================================================================
