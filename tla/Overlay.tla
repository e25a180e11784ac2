-------------------------------- MODULE Overlay --------------------------------
(***************************************************************************)
(* The writable layer over the image: OverlayFS (kvfs.py) and the calls of *)
(* the kernel on paths, as one process makes them.  An inode is copied     *)
(* into memory when it is first written; until then its content, or its    *)
(* entries, are read from the image.                                       *)
(*                                                                         *)
(* A call names a directory that a path leads to and a last component;     *)
(* Walk says where paths lead.  An error return changes nothing, except    *)
(* that rmdir of a directory that is not empty copies it.                  *)
(*                                                                         *)
(* mknod takes any mode.  With S_IFDIR it makes a bare directory: one      *)
(* without "." and "..", whose parent does not count a "..".  Nothing can  *)
(* be looked up in it, and when it is removed or moved its parent loses a  *)
(* link that was never there.  What is said of links and parents below is  *)
(* therefore said of runs without bare directories (NoBareDirectories).    *)
(***************************************************************************)
EXTENDS Integers, FiniteSets, SequencesExt

CONSTANTS Names,     \* the names programs use
          NInodes,   \* inodes of the image
          NewInodes, \* how many inodes can be created: up to 65535 in the code
          Units,     \* what files on the image consist of
          Zero,      \* what fills a gap
          Datum,     \* what programs write
          None,
          Depth      \* components of the paths that lead to the directory of a call

VARIABLES disk,     \* what the reader of the image finds: the inodes, see DiskInode
          vnode,    \* OverlayFS.vnodes, with an untouched wrapper for every inode of the image
          next_ino, \* OverlayFS.next_ino
          cwd,      \* Process.cwd, an inode number
          root      \* Process.root

treeVars == <<disk, vnode, next_ino, cwd, root>>

ROOT   == 1
Base   == 1 .. NInodes
MaxIno == NInodes + NewInodes
Ino    == 1 .. MaxIno

(* The contents of a file, and the entries of a directory: a function from  *)
(* names to inode numbers.                                                  *)
Contents  == Seq({Zero, Datum} \cup Units)
AllNames  == Names \cup {".", ".."}
EntrySets == UNION {[N -> Ino] : N \in SUBSET AllNames}

ASSUME OverlayAssumption ==
    /\ NInodes \in Nat \ {0} /\ NewInodes \in Nat /\ Depth \in Nat
    /\ IsFiniteSet(Names) /\ {".", ".."} \cap Names = {}
    /\ None \notin {"dir", "file", "chr"} /\ None \notin Contents /\ None \notin EntrySets

(* An inode as MinixFS returns it, with all of its content or its entries.  *)
DiskInode == [kind : {"dir", "file", "chr"}, nlinks : Nat, data : Contents, entries : EntrySets]

(* VInode.from_base.  data, entries: None while they are in the image.      *)
FromBase(i) == [kind |-> disk[i].kind, mode |-> 0, nlinks |-> disk[i].nlinks,
                data |-> None, entries |-> None, base |-> TRUE, open_refs |-> 0, deleted |-> FALSE]
NoInode     == [kind |-> None, mode |-> 0, nlinks |-> 0, data |-> None, entries |-> None,
                base |-> FALSE, open_refs |-> 0, deleted |-> FALSE]
NewInode(k) == [NoInode EXCEPT !.kind = k, !.data = <<>>]

Dirs == {i \in Ino : vnode[i].kind = "dir"}

(* What mknod makes with S_IFDIR: lookup, list_dir and readdir_raw fail in  *)
(* it with an exception that is no FsError, _cow_dir takes it for empty.    *)
Bare(i) == vnode[i].kind = "dir" /\ vnode[i].entries = None /\ ~vnode[i].base

EntriesIn(vn, d) ==
    IF vn[d].entries # None THEN vn[d].entries ELSE IF vn[d].base THEN disk[d].entries ELSE <<>>
Entries(d)       == EntriesIn(vnode, d)
DataOf(i)        == IF vnode[i].data = None THEN disk[i].data ELSE vnode[i].data

Has(d, name)      == name \in DOMAIN Entries(d)
Put(es, name, i)  == [m \in DOMAIN es \cup {name} |-> IF m = name THEN i ELSE es[m]]
Drop(es, name)    == [m \in DOMAIN es \ {name} |-> es[m]]

-----------------------------------------------------------------------------
(* walk: where a path leads from the directory start, 0 for an error.  The  *)
(* root of the process has no parent.                                       *)
WalkStep(cur, part) ==
    IF cur = 0 \/ cur \notin Dirs THEN 0
    ELSE IF part = ".." /\ cur = root THEN cur
    ELSE IF Has(cur, part) THEN Entries(cur)[part] ELSE 0

Walk(path, start) == FoldLeft(WalkStep, start, path)

Paths   == UNION {[1 .. n -> Names \cup {".."}] : n \in 0 .. Depth}
Leads   == {Walk(path, start) : path \in Paths, start \in {cwd, root}} \ {0}
Places  == Leads \cap Dirs                    \* what chdir and chroot take
Parents == {d \in Places : ~Bare(d)}          \* what walk_parent returns, where lookup works
Targets == UNION {{Entries(d)[name] : name \in Names \cap DOMAIN Entries(d)} : d \in Parents}

-----------------------------------------------------------------------------
(* Mutant: the directory starts empty instead of being copied.              *)
LinkEntry_Empty(vn, d, name, i) ==
    [vn EXCEPT ![d].entries = Put(IF @ = None THEN <<>> ELSE @, name, i), ![i].nlinks = @ + 1]

(* The table vn with one entry more, or one less: _link_entry and           *)
(* _unlink_entry, which copy the directory first.                           *)
LinkEntry(vn, d, name, i) ==
    [vn EXCEPT ![d].entries = Put(EntriesIn(vn, d), name, i), ![i].nlinks = @ + 1]

Less(n) == IF n > 0 THEN n - 1 ELSE 0

UnlinkEntry(vn, d, name) ==
    LET i == EntriesIn(vn, d)[name]
        w == [vn EXCEPT ![d].entries = Drop(EntriesIn(vn, d), name), ![i].nlinks = Less(@)]
    IN  [w EXCEPT ![i].deleted = @ \/ (w[i].nlinks = 0 /\ w[i].open_refs = 0)]

(* _new_inode: the inode numbers end (at 65535 in the code). *)
FreeIno == next_ino <= MaxIno
WithNew(i, new) == [vnode EXCEPT ![i] = new]
UsesIno == next_ino' = next_ino + 1

-----------------------------------------------------------------------------
(* The calls. *)

(* sys_open of a name that does not exist, with O_CREAT.  The file is there *)
(* also when no descriptor is left (full).                                  *)
Create(d, name, full) ==
    /\ ~Has(d, name) /\ FreeIno /\ UsesIno
    /\ vnode' = LinkEntry(WithNew(next_ino, [NewInode("file") EXCEPT !.open_refs = IF full THEN 0 ELSE 1]),
                          d, name, next_ino)

(* sys_open of an inode; the kernel opens a device itself (_open_device).   *)
(* O_TRUNC takes effect before the lack of a descriptor is noticed.         *)
Open(i, truncate, full) ==
    /\ vnode[i].kind \in {"file", "dir"}
    /\ truncate => vnode[i].kind = "file"
    /\ vnode' = [vnode EXCEPT ![i].data = IF truncate THEN <<>> ELSE @,
                              ![i].open_refs = IF full THEN @ ELSE @ + 1]
    /\ UNCHANGED next_ino

Close(i) ==
    /\ vnode' = [vnode EXCEPT ![i].open_refs = @ - 1]
    /\ UNCHANGED next_ino

(* write, behind the end with zeros in between. *)
Overwrite(data, offset, unit) ==
    [k \in 1 .. (IF offset < Len(data) THEN Len(data) ELSE offset + 1) |->
        IF k = offset + 1 THEN unit ELSE IF k <= Len(data) THEN data[k] ELSE Zero]

Write(i, offset) ==
    /\ vnode' = [vnode EXCEPT ![i].data = Overwrite(DataOf(i), offset, Datum)]
    /\ UNCHANGED next_ino

(* chmod, and with it chown and utime. *)
Chmod(i, mode) ==
    /\ vnode' = [vnode EXCEPT ![i].mode = mode]
    /\ UNCHANGED next_ino

Chdir(d)  == cwd' = d /\ UNCHANGED <<vnode, next_ino, root>>
Chroot(d) == cwd' = d /\ root' = d /\ UNCHANGED <<vnode, next_ino>>

(* A FIFO or a device, a file, or a directory without "." and "..".         *)
Mknod(d, name, kind) ==
    /\ ~Has(d, name) /\ FreeIno /\ UsesIno
    /\ vnode' = LinkEntry(WithNew(next_ino, NewInode(kind)), d, name, next_ino)

Mkdir(d, name) ==
    /\ ~Has(d, name) /\ FreeIno /\ UsesIno
    /\ LET i   == next_ino
           new == [NewInode("dir") EXCEPT !.data = None, !.nlinks = 1,
                                          !.entries = [m \in {".", ".."} |-> IF m = "." THEN i ELSE d]]
       IN  vnode' = LinkEntry([WithNew(i, new) EXCEPT ![d].nlinks = @ + 1], d, name, i)

Empty(vn, i) == DOMAIN EntriesIn(vn, i) \subseteq {".", ".."}

(* rmdir of the directory that name denotes in d. *)
RemoveDir(vn, d, name) ==
    LET i == EntriesIn(vn, d)[name]
        w == UnlinkEntry([vn EXCEPT ![i].entries = EntriesIn(vn, i)], d, name)
    IN  [w EXCEPT ![d].nlinks = Less(@), ![i].nlinks = 0, ![i].deleted = TRUE]

Rmdir(d, name) ==
    /\ Has(d, name) /\ Entries(d)[name] \in Dirs
    /\ LET i == Entries(d)[name]
       IN  vnode' = IF Empty(vnode, i) THEN RemoveDir(vnode, d, name)
                    ELSE [vnode EXCEPT ![i].entries = Entries(i)]
    /\ UNCHANGED next_ino

Unlink(d, name) ==
    /\ Has(d, name) /\ Entries(d)[name] \notin Dirs
    /\ vnode' = UnlinkEntry(vnode, d, name)
    /\ UNCHANGED next_ino

Link(i, d, name) ==
    /\ i \notin Dirs /\ ~Has(d, name)
    /\ vnode' = LinkEntry(vnode, d, name, i)
    /\ UNCHANGED next_ino

(* Mutant: the counts of the two parents are left alone.                    *)
Move_Uncounted(vn, d, name, e, new) ==
    LET i == EntriesIn(vn, d)[name]
        w == UnlinkEntry(LinkEntry(vn, e, new, i), d, name)
    IN  IF i \in Dirs /\ d # e
        THEN [w EXCEPT ![i].entries = Put(EntriesIn(w, i), "..", e)]
        ELSE w

(* Mutant: the directory keeps its old "..".                                *)
Move_Keeps(vn, d, name, e, new) == UnlinkEntry(LinkEntry(vn, e, new, EntriesIn(vn, d)[name]), d, name)

(* rename, once what stood under the new name is gone: the new entry, then  *)
(* the old one goes, then ".." of a directory that changes its parent.      *)
Move(vn, d, name, e, new) ==
    LET i == EntriesIn(vn, d)[name]
        w == UnlinkEntry(LinkEntry(vn, e, new, i), d, name)
    IN  IF i \in Dirs /\ d # e
        THEN LET x == [w EXCEPT ![i].entries = Put(EntriesIn(w, i), "..", e), ![e].nlinks = @ + 1]
             IN  [x EXCEPT ![d].nlinks = Less(@)]
        ELSE w

Rename(d, name, e, new) ==
    /\ Has(d, name) /\ (Has(e, new) => Entries(e)[new] # Entries(d)[name])
    /\ vnode' = IF ~Has(e, new) THEN Move(vnode, d, name, e, new)
                ELSE LET i == Entries(e)[new]
                     IN  IF i \notin Dirs THEN Move(UnlinkEntry(vnode, e, new), d, name, e, new)
                         ELSE IF Empty(vnode, i) THEN Move(RemoveDir(vnode, e, new), d, name, e, new)
                         ELSE [vnode EXCEPT ![i].entries = Entries(i)]
    /\ UNCHANGED next_ino

TreeInit ==
    /\ vnode = [i \in Ino |-> IF i \in Base THEN FromBase(i) ELSE NoInode]
    /\ next_ino = NInodes + 1
    /\ cwd = ROOT /\ root = ROOT

TreeCall ==
    LET parents == Parents
        targets == Targets
    IN  \/ \E d \in parents, name \in Names :
              \/ \E full \in BOOLEAN : Create(d, name, full)
              \/ \E kind \in {"chr", "file", "dir"} : Mknod(d, name, kind)
              \/ Mkdir(d, name)
              \/ Rmdir(d, name)
              \/ Unlink(d, name)
              \/ \E i \in targets : Link(i, d, name)
              \/ \E e \in parents, new \in Names : Rename(d, name, e, new)
        \/ \E i \in Leads \cup targets :
              \/ \E truncate, full \in BOOLEAN : Open(i, truncate, full)
              \/ \E mode \in {0, 1} : Chmod(i, mode)
        \/ \E i \in {j \in Ino : vnode[j].open_refs > 0} :
              \/ Close(i)
              \/ vnode[i].kind = "file" /\ \E offset \in 0 .. Len(DataOf(i)) + 1 : Write(i, offset)

TreeNext ==
    /\ \/ TreeCall /\ UNCHANGED <<cwd, root>>
       \/ \E d \in Places : Chdir(d) \/ Chroot(d)
    /\ UNCHANGED disk

-----------------------------------------------------------------------------
(* --save-overlay and --load-overlay: export_changes, and what              *)
(* import_changes makes of it over the same image.                          *)

(* Mutant: a directory is saved when its own data were written.             *)
Skipped_Dirs(i) == vnode[i].data = None /\ ~vnode[i].deleted /\ vnode[i].base

Skipped(i) == vnode[i].data = None /\ vnode[i].entries = None /\ ~vnode[i].deleted /\ vnode[i].base

Used     == 1 .. next_ino - 1
Reloaded == [i \in Ino |-> IF i \in Used /\ ~Skipped(i) THEN [vnode[i] EXCEPT !.open_refs = 0]
                           ELSE IF i \in Base THEN FromBase(i) ELSE NoInode]

-----------------------------------------------------------------------------

(* The entries that name i; "." and ".." of a removed directory are not     *)
(* counted any more.                                                        *)
Referrers(i) ==
    {s \in Dirs \X AllNames :
        /\ Has(s[1], s[2]) /\ Entries(s[1])[s[2]] = i
        /\ s[2] \in {".", ".."} => ~vnode[s[1]].deleted}

(* Nobody makes a directory with mknod.  A hypothesis on runs, not a        *)
(* property: the code does not forbid it to root.                           *)
NoBareDirectories == \A i \in Ino : ~Bare(i)

(* nlinks is the number of entries that name the inode, through every       *)
(* create, link, rename and removal, from removed working directories too;  *)
(* unlink decides on it that the inode is gone, and what is gone is not     *)
(* named anywhere.  (Where no directory was made with mknod.)               *)
LinksExact ==
    \A i \in Used : IF vnode[i].deleted THEN \A s \in Referrers(i) : s[2] \in {".", ".."}
                     ELSE vnode[i].nlinks = Cardinality(Referrers(i))

(* A directory has one name, and its ".." is the directory that has it:     *)
(* also after it was moved, over another one or below itself.  (Where no    *)
(* directory was made with mknod.)                                          *)
DotDotRight ==
    \A i \in Dirs \ {ROOT} : ~vnode[i].deleted =>
        \E name \in Names : {s \in Referrers(i) : s[2] \in Names} = {<<Entries(i)[".."], name>>}

(* What is saved and loaded again is the same tree with the same contents.  *)
ReloadKeepsTree ==
    \A i \in Used :
        /\ i \in Dirs => EntriesIn(Reloaded, i) = Entries(i)
        /\ vnode[i].kind = "file" =>
              DataOf(i) = (IF Reloaded[i].data = None THEN disk[i].data ELSE Reloaded[i].data)

(* What export_changes skips was not touched at all (its comment says so).  *)
SkippedAreUntouched ==
    \A i \in Base : Skipped(i) => [vnode[i] EXCEPT !.open_refs = 0] = FromBase(i)

(* Copying on the first write is not to be seen: what programs see changes  *)
(* as in a file system that is written in place.                            *)
Visible == INSTANCE FileTree WITH
    Unit <- {Datum},
    data <- [i \in Ino |-> IF vnode[i].kind = "file" THEN DataOf(i) ELSE <<>>],
    tree <- [i \in Ino |-> IF i \in Dirs THEN Entries(i) ELSE <<>>]
ImplementsFileTree == Visible!Spec
=============================================================================
