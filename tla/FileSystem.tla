------------------------------- MODULE FileSystem -------------------------------
(***************************************************************************)
(* The file system from the image to the calls of programs: an image is    *)
(* checked (check_fs), and one that is clean is mounted under the overlay. *)
(***************************************************************************)
EXTENDS Overlay, Fsck

CONSTANTS Images,    \* the images that are checked
          Formatted  \* the one that is mounted, with the link counts that mkfs gives it

ASSUME FileSystemAssumption == Formatted \in Images /\ Inodes(Formatted) = Base
ASSUME ImagesAssumption == \A im \in Images : Readable(im)

allVars == <<img, check, treeVars>>

(* What OverlayFS gets from get_inode, read_file and read_dir of the image. *)
DiskEntries(i) ==
    LET es == ReadDir(Formatted, i)
    IN  [name \in {e.name : e \in Range(es)} |-> (CHOOSE e \in Range(es) : e.name = name).n]

DiskRead == [i \in Base |-> [kind |-> Formatted.inode[i].kind, nlinks |-> Formatted.inode[i].nlinks,
                             data |-> IF IsDir(Formatted, i) THEN <<>> ELSE Content(Formatted, i),
                             entries |-> IF IsDir(Formatted, i) THEN DiskEntries(i) ELSE <<>>]]

(* What mkfs makes of a tree of files: every directory has its own number   *)
(* as "." and the one that has it as "..", only files have several names,   *)
(* and nlinks counts the names.  (check_fs does not look at nlinks.)        *)
DiskReferrers(dk, i) ==
    {s \in Base \X AllNames :
        dk[s[1]].kind = "dir" /\ s[2] \in DOMAIN dk[s[1]].entries /\ dk[s[1]].entries[s[2]] = i}
DiskNames(dk, i) == {s \in DiskReferrers(dk, i) : s[2] \in Names}

SoundTree(dk) ==
    /\ dk \in [Base -> DiskInode]
    /\ \A i \in Base : dk[i].nlinks = Cardinality(DiskReferrers(dk, i))
    /\ \A i \in Base : dk[i].kind = "dir" =>
          /\ {".", ".."} \subseteq DOMAIN dk[i].entries
          /\ \A name \in DOMAIN dk[i].entries : dk[i].entries[name] \in Base
          /\ dk[i].entries["."] = i /\ dk[dk[i].entries[".."]].kind = "dir"
          /\ i # ROOT => \E name \in Names : DiskNames(dk, i) = {<<dk[i].entries[".."], name>>}
    /\ dk[ROOT].kind = "dir" /\ DiskNames(dk, ROOT) = {}

ASSUME MountedAssumption == SoundTree(DiskRead)

FSInit == img \in Images /\ CheckInit /\ disk = DiskRead /\ TreeInit

Checks == CheckNext /\ UNCHANGED treeVars
Runs   == img = Formatted /\ check.done /\ check.problems = {} /\ TreeNext /\ UNCHANGED <<img, check>>

FSSpec == FSInit /\ [][Checks \/ Runs]_allVars /\ WF_allVars(Checks)
=============================================================================
