-------------------------------- MODULE FileTree --------------------------------
(***************************************************************************)
(* What a file system promises to the programs that use it: files with     *)
(* contents, directories whose entries are functions from names to inodes, *)
(* and calls that change one file, or the entries of one name, and nothing *)
(* else.                                                                   *)
(***************************************************************************)
EXTENDS Naturals, Sequences

CONSTANTS Ino, Names,
          Unit, Zero  \* what is written, and what fills gaps

VARIABLES data,  \* the content of each file
          tree   \* the entries of each directory

vars == <<data, tree>>

IsDirectory(d)  == tree[d] # <<>>
Has(d, name)    == name \in DOMAIN tree[d]
IsEmpty(i)      == DOMAIN tree[i] \subseteq {".", ".."}
With(es, name, i) == [m \in DOMAIN es \cup {name} |-> IF m = name THEN i ELSE es[m]]
Without(es, name) == [m \in DOMAIN es \ {name} |-> es[m]]

(* One unit is written, with zeros up to it. *)
Write(i) ==
    /\ \E unit \in Unit, at \in 1 .. Len(data[i]) + 2 :
          LET length == IF at > Len(data[i]) THEN at ELSE Len(data[i])
          IN  data' = [data EXCEPT ![i] = [k \in 1 .. length |->
                          IF k = at THEN unit ELSE IF k <= Len(data[i]) THEN data[i][k] ELSE Zero]]
    /\ UNCHANGED tree

Truncate(i) == data' = [data EXCEPT ![i] = <<>>] /\ UNCHANGED tree

(* A new name for a file. *)
Enter(d, name, i) ==
    /\ ~IsDirectory(i)
    /\ tree' = [tree EXCEPT ![d] = With(@, name, i)]
    /\ UNCHANGED data

MakeDirectory(d, name, i) ==
    /\ ~IsDirectory(i)
    /\ tree' = [tree EXCEPT ![d] = With(@, name, i),
                           ![i] = [m \in {".", ".."} |-> IF m = "." THEN i ELSE d]]
    /\ UNCHANGED data

(* A name goes; a directory that loses it is empty. *)
Leave(d, name) ==
    /\ IsEmpty(tree[d][name])
    /\ tree' = [tree EXCEPT ![d] = Without(@, name)]
    /\ UNCHANGED data

(* An entry gets another name, perhaps in another directory, in the place   *)
(* of what stood there; a directory learns its new parent.                  *)
Move(d, name, c, new) ==
    LET i == tree[d][name]
        moved == [[tree EXCEPT ![c] = With(@, new, i)] EXCEPT ![d] = Without(@, name)]
    IN  /\ Has(c, new) => IsEmpty(tree[c][new])
        /\ tree' = IF IsDirectory(i) THEN [moved EXCEPT ![i] = With(@, "..", c)] ELSE moved
        /\ UNCHANGED data

Next ==
    \/ \E i \in Ino : Write(i) \/ Truncate(i)
    \/ \E d \in {k \in Ino : IsDirectory(k)}, name \in Names :
          IF Has(d, name)
          THEN \/ Leave(d, name)
               \/ \E c \in {k \in Ino : IsDirectory(k)}, new \in Names : Move(d, name, c, new)
          ELSE \E i \in Ino : Enter(d, name, i) \/ MakeDirectory(d, name, i)

Spec == [][Next]_vars
=============================================================================
