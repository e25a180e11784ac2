----------------------------- MODULE Overlay_proofs -----------------------------
(***************************************************************************)
(* Proofs about the overlay file system, for any number of inodes on the   *)
(* image and created later, any names and any sound image.                 *)
(*                                                                         *)
(* The argument.  A table of inodes is looked at as a map from slots (an   *)
(* inode and a name) to the inode the entry names, 0 for none.  Every call *)
(* changes this map in at most three slots, and with them the counts and   *)
(* the inodes that are gone; Wired says what is true of map, counts and    *)
(* gone inodes together, and is proved of each of the changes first        *)
(* without regard to how the table is stored.                              *)
(***************************************************************************)
EXTENDS FileSystem, FiniteSetTheorems, TLAPS

Slots == Ino \X AllNames

(* The slots that name i in the map m, and those that do it by name.        *)
Refs(m, i)  == {s \in Slots : m[s] = i}
Named(m, i) == {s \in Slots : s[2] \in Names /\ m[s] = i}

(* How many slots name i; and k is m but for three slots.                   *)
Count(m, i) == Cardinality(Refs(m, i))
OnlyAt(k, m, s, t, u) == \A r \in Slots \ {s, t, u} : k[r] = m[r]

(* The only name of i is name in d; d is the only one who names i, once.    *)
IsNamed(m, i, d, name) == Named(m, i) = {<<d, name>>}
HasName(m, i, d)       == \E name \in Names : IsNamed(m, i, d, name)

(* D: the directories, G: the inodes that are gone, nl: the counts,         *)
(* n: the next inode number.                                                *)
Wired(D, G, nl, n, m) ==
    /\ n \in NInodes + 1 .. MaxIno + 1
    /\ D \subseteq 1 .. n - 1 /\ G \subseteq 1 .. n - 1
    /\ nl \in [Ino -> Nat] /\ m \in [Slots -> 0 .. n - 1]
    /\ \A s \in Slots : m[s] # 0 => s[1] \in D
    /\ \A i \in D \ G : m[<<i, ".">>] = i /\ m[<<i, "..">>] \in D
    /\ \A i \in G : m[<<i, ".">>] = 0 /\ m[<<i, "..">>] = 0
    /\ \A i \in (1 .. n - 1) \ G : nl[i] = Count(m, i)
    /\ \A i \in G : Named(m, i) = {}
    /\ ROOT \in D \ G /\ Named(m, ROOT) = {}
    /\ \A i \in (D \ G) \ {ROOT} : HasName(m, i, m[<<i, "..">>])

-----------------------------------------------------------------------------
(* Counting slots.                                                          *)

(* There are finitely many slots to count.                                  *)
LEMMA SlotsFinite == IsFiniteSet(Slots) /\ IsFiniteSet(Ino) /\ ROOT \in Ino /\ Ino \subseteq Nat
<1>1. MaxIno \in Nat /\ NInodes \in Nat /\ NInodes >= 1 /\ MaxIno >= NInodes
  BY OverlayAssumption DEF MaxIno
<1>2. IsFiniteSet(Ino)
  BY <1>1, FS_Interval DEF Ino
<1>3. IsFiniteSet({".", ".."})
  <2>1. IsFiniteSet({"."}) /\ {"."} \cup {".."} = {".", ".."}
    BY FS_Singleton
  <2> QED BY <2>1, FS_AddElement
<1>4. IsFiniteSet(AllNames)
  BY <1>3, FS_Union, OverlayAssumption DEF AllNames
<1>5. IsFiniteSet(Slots)
  BY <1>2, <1>4, FS_Product DEF Slots
<1>6. ROOT \in Ino /\ Ino \subseteq Nat
  BY <1>1 DEF Ino, ROOT
<1> QED BY <1>2, <1>5, <1>6

(* What one slot contributes to the count of j.                             *)
One(a, b) == IF a = b THEN 1 ELSE 0

(* When one slot changes, the counts of what it named and names change.     *)
LEMMA Reassign ==
    ASSUME NEW m, NEW k, NEW s \in Slots, OnlyAt(k, m, s, s, s), NEW j
    PROVE  /\ Count(k, j) = Count(m, j) + One(k[s], j) - One(m[s], j)
           /\ Count(m, j) \in Nat
           /\ m[s] = j => Count(m, j) > 0
<1> DEFINE R == Refs(m, j)
           S == Refs(k, j)
<1>1. IsFiniteSet(R) /\ IsFiniteSet(S)
  BY SlotsFinite, FS_Subset DEF Refs
<1>2. /\ s \in R <=> m[s] = j
      /\ S = IF k[s] = j THEN R \cup {s} ELSE R \ {s}
  BY DEF Refs, OnlyAt
<1>3. Cardinality(R) \in Nat
  BY <1>1, FS_CardinalityType
<1>4. s \in R => Cardinality(R) > 0
  BY <1>1, <1>3, FS_EmptySet
<1>5. Cardinality(R \cup {s}) = IF s \in R THEN Cardinality(R) ELSE Cardinality(R) + 1
  BY <1>1, FS_AddElement
<1>6. Cardinality(R \ {s}) = IF s \in R THEN Cardinality(R) - 1 ELSE Cardinality(R)
  BY <1>1, FS_RemoveElement
<1> HIDE DEF R, S
<1>7. /\ Cardinality(S) = Cardinality(R) + One(k[s], j) - One(m[s], j)
      /\ Cardinality(R) \in Nat
      /\ m[s] = j => Cardinality(R) > 0
  BY <1>2, <1>3, <1>4, <1>5, <1>6 DEF One
<1> QED BY <1>7 DEF R, S, Count

(* One counts.                                                              *)
LEMMA OneIsInt == \A a, b : One(a, b) \in Int
BY DEF One

(* The same for three slots.                                                *)
LEMMA Reassign3 ==
    ASSUME NEW m, NEW k, NEW s \in Slots, NEW t \in Slots, NEW u \in Slots, s # t, s # u, t # u,
           OnlyAt(k, m, s, t, u), NEW j
    PROVE  Count(k, j) = Count(m, j) + (One(k[s], j) - One(m[s], j))
              + (One(k[t], j) - One(m[t], j)) + (One(k[u], j) - One(m[u], j))
<1> DEFINE m1 == [r \in Slots |-> IF r = s THEN k[s] ELSE m[r]]
           m2 == [r \in Slots |-> IF r = t THEN k[t] ELSE m1[r]]
<1>1. m1[s] = k[s] /\ m1[t] = m[t] /\ m2[t] = k[t] /\ m2[u] = m[u]
  OBVIOUS
<1>2. OnlyAt(m1, m, s, s, s) /\ OnlyAt(m2, m1, t, t, t)
  BY DEF OnlyAt
<1>3. OnlyAt(k, m2, u, u, u)
  BY DEF OnlyAt
<1> HIDE DEF m1, m2
<1>4. Count(m1, j) = Count(m, j) + One(m1[s], j) - One(m[s], j) /\ Count(m, j) \in Nat
  BY <1>2, Reassign
<1>5. Count(m2, j) = Count(m1, j) + One(m2[t], j) - One(m1[t], j) /\ Count(m1, j) \in Nat
  BY <1>2, Reassign
<1>6. Count(k, j) = Count(m2, j) + One(k[u], j) - One(m2[u], j) /\ Count(m2, j) \in Nat
  BY <1>3, Reassign
<1> QED BY <1>1, <1>4, <1>5, <1>6, OneIsInt

(* What Wired says of a live inode, a directory or not, and of a slot.      *)
LEMMA WiredTypes ==
    ASSUME NEW D, NEW G, NEW nl, NEW n, NEW m, Wired(D, G, nl, n, m)
    PROVE  /\ n \in Nat /\ n - 1 \in Nat /\ 1 .. n - 1 \subseteq Ino /\ Ino \subseteq Nat
           /\ D \subseteq Ino /\ G \subseteq Ino /\ 0 \notin Ino /\ ROOT \in Ino
           /\ nl \in [Ino -> Nat] /\ m \in [Slots -> Nat] /\ m \in [Slots -> 0 .. n - 1]
<1>1. MaxIno \in Nat /\ NInodes \in Nat /\ NInodes >= 1 /\ MaxIno >= NInodes
  BY OverlayAssumption DEF MaxIno
<1>2. n \in Nat /\ n - 1 \in Nat /\ n >= NInodes + 1 /\ n <= MaxIno + 1
  BY <1>1 DEF Wired
<1>3. 1 .. n - 1 \subseteq Ino /\ 0 \notin Ino
  BY <1>1, <1>2 DEF Ino
<1>4. D \subseteq Ino /\ G \subseteq Ino
  BY <1>3 DEF Wired
<1>5. m \in [Slots -> 0 .. n - 1] /\ 0 .. n - 1 \subseteq Nat
  BY <1>2 DEF Wired
<1>6. nl \in [Ino -> Nat]
  BY DEF Wired
<1> QED BY <1>2, <1>3, <1>4, <1>5, <1>6, SlotsFinite

(* Slots are determined by inode and name; the dots are no names.           *)
LEMMA SlotFacts ==
    /\ \A i \in Ino, name \in AllNames : <<i, name>> \in Slots
    /\ Names \subseteq AllNames /\ "." \in AllNames /\ ".." \in AllNames
    /\ "." \notin Names /\ ".." \notin Names
    /\ \A s \in Slots : s[1] \in Ino /\ s[2] \in AllNames /\ s = <<s[1], s[2]>>
    /\ \A name \in AllNames : name \in Names \/ name \in {".", ".."}
BY OverlayAssumption DEF Slots, AllNames

(* A new file, without a name.                                              *)
LEMMA WiredNew ==
    ASSUME NEW D, NEW G, NEW nl, NEW n, NEW m, Wired(D, G, nl, n, m),
           n <= MaxIno, nl[n] = 0
    PROVE  Wired(D, G, nl, n + 1, m)
<1>1. n \in NInodes + 1 .. MaxIno + 1 /\ MaxIno \in Nat /\ NInodes \in Nat
  BY OverlayAssumption DEF Wired, MaxIno
<1>2. /\ n + 1 \in NInodes + 1 .. MaxIno + 1
      /\ 1 .. (n + 1) - 1 = (1 .. n - 1) \cup {n} /\ 0 .. n - 1 \subseteq 0 .. (n + 1) - 1
  BY <1>1
<1>3. Refs(m, n) = {}
  BY <1>1 DEF Refs, Wired
<1>4. n \notin G /\ nl[n] = Count(m, n)
  BY <1>1, <1>3, FS_EmptySet DEF Wired, Count
<1>5. m \in [Slots -> 0 .. (n + 1) - 1]
  BY <1>2 DEF Wired
<1>6. \A i \in (1 .. (n + 1) - 1) \ G : nl[i] = Count(m, i)
  BY <1>2, <1>4 DEF Wired
<1> QED BY <1>2, <1>4, <1>5, <1>6 DEF Wired

(* A slot that names j neither before nor after the change is no matter.    *)
LEMMA NamedSame ==
    ASSUME NEW m, NEW k, NEW j, \A r \in Slots : r[2] \in Names => (k[r] = j <=> m[r] = j)
    PROVE  Named(k, j) = Named(m, j)
BY DEF Named

(* A file gets one more name.                                               *)
LEMMA WiredAdd ==
    ASSUME NEW D, NEW G, NEW nl, NEW n, NEW m, Wired(D, G, nl, n, m),
           NEW s \in Slots, s[1] \in D, s[2] \in Names, m[s] = 0,
           NEW i \in (1 .. n - 1) \ G, i \notin D,
           NEW k \in [Slots -> Nat], k[s] = i, OnlyAt(k, m, s, s, s),
           NEW c \in [Ino -> Nat], c[i] = nl[i] + 1, \A j \in Ino \ {i} : c[j] = nl[j]
    PROVE  Wired(D, G, c, n, k)
<1>1. /\ n \in Nat /\ n - 1 \in Nat /\ 1 .. n - 1 \subseteq Ino /\ D \subseteq Ino /\ i \in Nat /\ i # 0
      /\ i \in 0 .. n - 1 /\ nl \in [Ino -> Nat] /\ m \in [Slots -> Nat] /\ m \in [Slots -> 0 .. n - 1]
      /\ ROOT \in Ino /\ G \subseteq Ino /\ 0 \notin Ino
      /\ \A r \in Slots \ {s} : k[r] = m[r]
  BY WiredTypes DEF OnlyAt
<1>2. \A j \in Ino : /\ <<j, ".">> \in Slots \ {s} /\ <<j, "..">> \in Slots \ {s}
                     /\ k[<<j, ".">>] = m[<<j, ".">>] /\ k[<<j, "..">>] = m[<<j, "..">>]
  BY <1>1, SlotFacts
<1>3. k \in [Slots -> 0 .. n - 1]
  BY <1>1
<1>4. \A j \in (1 .. n - 1) \ G : c[j] = Count(k, j)
  <2> SUFFICES ASSUME NEW j \in (1 .. n - 1) \ G PROVE c[j] = Count(k, j)
    OBVIOUS
  <2>1. Count(k, j) = Count(m, j) + One(k[s], j) - One(m[s], j)
    BY Reassign
  <2>2. nl[j] = Count(m, j) /\ nl[j] \in Nat /\ j # 0
    BY <1>1 DEF Wired
  <2>3. c[j] = nl[j] + One(i, j)
    BY <1>1, <2>2 DEF One
  <2> QED BY <2>1, <2>2, <2>3, OneIsInt DEF One
<1>5. ASSUME NEW j \in Ino \ {i} PROVE Named(k, j) = Named(m, j)
  <2>1. \A r \in Slots : r[2] \in Names => (k[r] = j <=> m[r] = j)
    BY <1>1
  <2> QED BY <2>1, NamedSame
<1>6. \A r \in Slots : k[r] # 0 => r[1] \in D
  BY <1>1 DEF Wired
<1>7. ASSUME NEW j \in D \ G PROVE k[<<j, ".">>] = j /\ k[<<j, "..">>] \in D
  <2>1. j \in Ino /\ m[<<j, ".">>] = j /\ m[<<j, "..">>] \in D
    BY <1>1 DEF Wired
  <2> QED BY <1>2, <2>1
<1>8. ASSUME NEW j \in G PROVE k[<<j, ".">>] = 0 /\ k[<<j, "..">>] = 0
  <2>1. j \in Ino /\ m[<<j, ".">>] = 0 /\ m[<<j, "..">>] = 0
    BY <1>1 DEF Wired
  <2> QED BY <1>2, <2>1
<1>9. (\A j \in G : Named(k, j) = {}) /\ ROOT \in D \ G /\ Named(k, ROOT) = {}
  BY <1>1, <1>5 DEF Wired
<1>10. ASSUME NEW j \in (D \ G) \ {ROOT}
       PROVE  HasName(k, j, k[<<j, "..">>])
  <2>1. j \in Ino \ {i} /\ HasName(m, j, m[<<j, "..">>])
    BY <1>1 DEF Wired
  <2> QED BY <1>2, <1>5, <2>1 DEF HasName, IsNamed
<1> QED BY <1>3, <1>4, <1>6, <1>7, <1>8, <1>9, <1>10 DEF Wired

(* A file loses a name; when that was the last one the file may be gone.    *)
LEMMA WiredCut ==
    ASSUME NEW D, NEW G, NEW nl, NEW n, NEW m, Wired(D, G, nl, n, m),
           NEW s \in Slots, s[2] \in Names, NEW i, i = m[s], i # 0, i \notin D,
           NEW k \in [Slots -> Nat], k[s] = 0, OnlyAt(k, m, s, s, s),
           NEW c \in [Ino -> Nat], c[i] = nl[i] - 1, \A j \in Ino \ {i} : c[j] = nl[j],
           NEW H, H = G \/ (H = G \cup {i} /\ c[i] = 0)
    PROVE  Wired(D, H, c, n, k)
<1>1. /\ n \in Nat /\ n - 1 \in Nat /\ 1 .. n - 1 \subseteq Ino /\ D \subseteq Ino
      /\ nl \in [Ino -> Nat] /\ m \in [Slots -> Nat] /\ m \in [Slots -> 0 .. n - 1]
      /\ ROOT \in Ino /\ G \subseteq Ino /\ 0 \notin Ino
      /\ \A r \in Slots \ {s} : k[r] = m[r]
  BY WiredTypes DEF OnlyAt
<1>2. \A j \in Ino : /\ <<j, ".">> \in Slots \ {s} /\ <<j, "..">> \in Slots \ {s}
                     /\ k[<<j, ".">>] = m[<<j, ".">>] /\ k[<<j, "..">>] = m[<<j, "..">>]
  BY <1>1, SlotFacts
<1>3. k \in [Slots -> 0 .. n - 1]
  BY <1>1
<1>4. i \in (1 .. n - 1) \ G /\ i \in Ino
  <2>1. i \in 1 .. n - 1
    BY <1>1
  <2>2. s \in Named(m, i)
    BY DEF Named
  <2> QED BY <1>1, <2>1, <2>2 DEF Wired
<1>5. ASSUME NEW j \in (1 .. n - 1) \ G PROVE c[j] = Count(k, j)
  <2>1. Count(k, j) = Count(m, j) + One(k[s], j) - One(m[s], j)
    BY Reassign
  <2>2. nl[j] = Count(m, j) /\ nl[j] \in Nat /\ j # 0
    BY <1>1 DEF Wired
  <2>3. c[j] = nl[j] - One(i, j)
    BY <1>1, <2>2 DEF One
  <2> QED BY <2>1, <2>2, <2>3, OneIsInt DEF One
<1>6. ASSUME NEW j \in Ino \ {i} PROVE Named(k, j) = Named(m, j)
  <2>1. \A r \in Slots : r[2] \in Names => (k[r] = j <=> m[r] = j)
    BY <1>1
  <2> QED BY <2>1, NamedSame
<1>7. \A r \in Slots : k[r] # 0 => r[1] \in D
  BY <1>1 DEF Wired
<1>8. ASSUME NEW j \in D \ H PROVE k[<<j, ".">>] = j /\ k[<<j, "..">>] \in D
  <2>1. j \in Ino /\ m[<<j, ".">>] = j /\ m[<<j, "..">>] \in D
    BY <1>1 DEF Wired
  <2> QED BY <1>2, <2>1
<1>9. ASSUME NEW j \in H PROVE k[<<j, ".">>] = 0 /\ k[<<j, "..">>] = 0 /\ Named(k, j) = {}
  <2>1. CASE j \in G
    <3>1. j \in Ino /\ j # i /\ m[<<j, ".">>] = 0 /\ m[<<j, "..">>] = 0 /\ Named(m, j) = {}
      BY <1>1, <1>4, <2>1 DEF Wired
    <3> QED BY <1>2, <1>6, <3>1
  <2>2. CASE j = i /\ c[i] = 0
    <3>1. m[<<i, ".">>] = 0 /\ m[<<i, "..">>] = 0
      <4>1. /\ <<i, ".">> \in Slots /\ <<i, "..">> \in Slots
            /\ <<i, ".">>[1] = i /\ <<i, "..">>[1] = i
        BY <1>2, <1>4
      <4> QED BY <4>1 DEF Wired
    <3>2. IsFiniteSet(Refs(k, i)) /\ Count(k, i) = 0
      BY <1>4, <1>5, <2>2, SlotsFinite, FS_Subset DEF Refs, Count
    <3>3. Refs(k, i) = {}
      BY <3>2, FS_EmptySet DEF Count
    <3>4. Named(k, i) = {}
      BY <3>3 DEF Refs, Named
    <3> QED BY <1>2, <1>4, <2>2, <3>1, <3>4
  <2> QED BY <2>1, <2>2
<1>10. ROOT \in D \ H /\ Named(k, ROOT) = {}
  BY <1>1, <1>6 DEF Wired
<1>11. ASSUME NEW j \in (D \ H) \ {ROOT}
       PROVE  HasName(k, j, k[<<j, "..">>])
  <2>1. j \in Ino \ {i} /\ HasName(m, j, m[<<j, "..">>])
    BY <1>1 DEF Wired
  <2> QED BY <1>2, <1>6, <2>1 DEF HasName, IsNamed
<1>12. H \subseteq 1 .. n - 1 /\ G \subseteq H
  BY <1>4 DEF Wired
<1> QED BY <1>3, <1>5, <1>7, <1>8, <1>9, <1>10, <1>11, <1>12 DEF Wired

(* Who has a directory: its only name stands in its "..".                   *)
HasDir(D, G, m, d, name, i) ==
    /\ i \notin G /\ i # ROOT /\ i \in Ino /\ i # 0 /\ d \in D
    /\ m[<<i, ".">>] = i /\ m[<<i, "..">>] = d
    /\ IsNamed(m, i, d, name)

(* What a slot names, if it is a directory, has that directory as parent.   *)
LEMMA WiredParent ==
    ASSUME NEW D, NEW G, NEW nl, NEW n, NEW m, Wired(D, G, nl, n, m),
           NEW d \in Ino, NEW name \in Names, NEW i \in D, m[<<d, name>>] = i
    PROVE  HasDir(D, G, m, d, name, i)
<1> DEFINE s == <<d, name>>
<1>1. s \in Slots /\ s \in Named(m, i) /\ s[1] = d
  BY SlotFacts DEF Named
<1>2. i \in Ino /\ i # 0
  BY WiredTypes
<1>3. i \notin G /\ i # ROOT
  BY <1>1, <1>2 DEF Wired
<1>4. PICK nm \in Names : Named(m, i) = {<<m[<<i, "..">>], nm>>}
  BY <1>3 DEF Wired, HasName, IsNamed
<1>5. s = <<m[<<i, "..">>], nm>>
  BY <1>1, <1>4
<1>6. m[<<i, ".">>] = i /\ d \in D
  BY <1>1, <1>2, <1>3 DEF Wired
<1> QED BY <1>2, <1>3, <1>4, <1>5, <1>6 DEF HasDir, IsNamed

(* The counts c of live inodes are the counts nl, but for one more of up    *)
(* and one less of down.                                                    *)
Counts(c, nl, G, up, down) ==
    \A j \in Ino : j \notin G => c[j] = nl[j] + One(up, j) - One(down, j)

(* An empty directory goes: its name, and its dots.                         *)
LEMMA WiredCutDir ==
    ASSUME NEW D, NEW G, NEW nl, NEW n, NEW m, Wired(D, G, nl, n, m),
           NEW d \in Ino, NEW name \in Names, NEW i \in D, m[<<d, name>>] = i,
           \A nm \in Names : m[<<i, nm>>] = 0,
           NEW k \in [Slots -> Nat], k[<<d, name>>] = 0, k[<<i, ".">>] = 0, k[<<i, "..">>] = 0,
           OnlyAt(k, m, <<d, name>>, <<i, ".">>, <<i, "..">>),
           NEW c \in [Ino -> Nat], Counts(c, nl, G \cup {i}, 0, d)
    PROVE  Wired(D, G \cup {i}, c, n, k) /\ d # i /\ i # ROOT /\ i \notin G
<1> DEFINE s == <<d, name>>
           u == <<i, ".">>
           v == <<i, "..">>
           H == G \cup {i}
<1>1. /\ n \in Nat /\ n - 1 \in Nat /\ 1 .. n - 1 \subseteq Ino /\ D \subseteq Ino
      /\ nl \in [Ino -> Nat] /\ m \in [Slots -> Nat] /\ m \in [Slots -> 0 .. n - 1]
      /\ ROOT \in Ino /\ G \subseteq Ino /\ 0 \notin Ino
  BY WiredTypes
<1>2. /\ i \notin G /\ i # ROOT /\ i \in Ino /\ i # 0 /\ d \in D
      /\ m[u] = i /\ m[v] = d /\ Named(m, i) = {s}
  <2>1. HasDir(D, G, m, d, name, i)
    BY WiredParent
  <2> QED BY <2>1 DEF HasDir, IsNamed
<1>3. /\ s \in Slots /\ u \in Slots /\ v \in Slots /\ u # v /\ u # s /\ v # s
      /\ u[1] = i /\ v[1] = i /\ u[2] = "." /\ v[2] = ".." /\ u[2] \notin Names /\ v[2] \notin Names
  BY <1>1, <1>2, SlotFacts
<1>4. d # i
  BY <1>2, SlotFacts
<1>5. ASSUME NEW j \in Ino \ {i}
      PROVE  /\ <<j, ".">> \in Slots /\ <<j, "..">> \in Slots
             /\ k[<<j, ".">>] = m[<<j, ".">>] /\ k[<<j, "..">>] = m[<<j, "..">>]
  <2>1. /\ <<j, ".">> \in Slots \ {s, u, v} /\ <<j, "..">> \in Slots \ {s, u, v}
    BY SlotFacts
  <2> QED BY <2>1 DEF OnlyAt
<1> HIDE DEF s, u, v
<1>6. /\ m[s] = i /\ m[u] = i /\ m[v] = d /\ k[s] = 0 /\ k[u] = 0 /\ k[v] = 0
      /\ OnlyAt(k, m, s, u, v) /\ \A r \in Slots \ {s, u, v} : k[r] = m[r]
  BY <1>2 DEF OnlyAt, s, u, v
<1>7. k \in [Slots -> 0 .. n - 1]
  BY <1>1, <1>6
<1>8. ASSUME NEW j \in (1 .. n - 1) \ H PROVE c[j] = Count(k, j)
  <2>1. Count(k, j) = Count(m, j)
           + (One(k[s], j) - One(m[s], j)) + (One(k[u], j) - One(m[u], j))
           + (One(k[v], j) - One(m[v], j))
    <3>1. /\ s \in Slots /\ u \in Slots /\ v \in Slots /\ s # u /\ s # v /\ u # v
          /\ OnlyAt(k, m, s, u, v) /\ m \in [Slots -> Nat] /\ k \in [Slots -> Nat]
      BY <1>1, <1>3, <1>6
    <3> QED BY <3>1, Reassign3
  <2>2. nl[j] = Count(m, j) /\ nl[j] \in Nat /\ j # 0 /\ j \in Ino \ {i} /\ j \notin G
    BY <1>1 DEF Wired
  <2>3. c[j] = nl[j] + One(0, j) - One(d, j)
    BY <2>2 DEF Counts
  <2>4. One(0, j) = 0 /\ One(i, j) = 0 /\ One(d, j) \in Int
    BY <2>2 DEF One
  <2> QED BY <1>6, <2>1, <2>2, <2>3, <2>4
<1>9. ASSUME NEW j \in Ino \ {i} PROVE Named(k, j) = Named(m, j)
  <2>1. \A r \in Slots : r[2] \in Names => (k[r] = j <=> m[r] = j)
    BY <1>1, <1>3, <1>6
  <2> QED BY <2>1, NamedSame
<1>10. Named(k, i) = {}
  BY <1>2, <1>3, <1>6 DEF Named
<1>11. \A r \in Slots : k[r] # 0 => r[1] \in D
  BY <1>6 DEF Wired
<1>12. ASSUME NEW j \in D \ H PROVE k[<<j, ".">>] = j /\ k[<<j, "..">>] \in D
  <2>1. j \in Ino \ {i} /\ m[<<j, ".">>] = j /\ m[<<j, "..">>] \in D
    BY <1>1 DEF Wired
  <2> QED BY <1>5, <2>1
<1>13. ASSUME NEW j \in H PROVE k[<<j, ".">>] = 0 /\ k[<<j, "..">>] = 0 /\ Named(k, j) = {}
  <2>1. CASE j \in G
    <3>1. j \in Ino \ {i} /\ m[<<j, ".">>] = 0 /\ m[<<j, "..">>] = 0 /\ Named(m, j) = {}
      BY <1>1, <1>2, <2>1 DEF Wired
    <3> QED BY <1>5, <1>9, <3>1
  <2>2. CASE j = i
    BY <1>6, <1>10, <2>2 DEF u, v
  <2> QED BY <2>1, <2>2
<1>14. ROOT \in D \ H /\ Named(k, ROOT) = {}
  BY <1>1, <1>2, <1>9 DEF Wired
<1>15. ASSUME NEW j \in (D \ H) \ {ROOT}
       PROVE  HasName(k, j, k[<<j, "..">>])
  <2>1. j \in Ino \ {i} /\ HasName(m, j, m[<<j, "..">>])
    BY <1>1 DEF Wired
  <2> QED BY <1>5, <1>9, <2>1 DEF HasName, IsNamed
<1>16. H \subseteq 1 .. n - 1 /\ G \subseteq H
  BY DEF Wired
<1> HIDE DEF H
<1>17. Wired(D, H, c, n, k)
  BY <1>7, <1>8, <1>11, <1>12, <1>13, <1>14, <1>15, <1>16 DEF Wired
<1> QED BY <1>2, <1>4, <1>17 DEF H

(* A directory gets another name, in the same directory or another one,     *)
(* which its ".." names from then on.                                       *)
LEMMA WiredMoveDir ==
    ASSUME NEW D, NEW G, NEW nl, NEW n, NEW m, Wired(D, G, nl, n, m),
           NEW d \in Ino, NEW name \in Names, NEW i \in D, m[<<d, name>>] = i,
           NEW e \in D, NEW new \in Names, m[<<e, new>>] = 0,
           NEW k \in [Slots -> Nat], k[<<d, name>>] = 0, k[<<e, new>>] = i, k[<<i, "..">>] = e,
           OnlyAt(k, m, <<d, name>>, <<e, new>>, <<i, "..">>),
           NEW c \in [Ino -> Nat], Counts(c, nl, G, e, d)
    PROVE  Wired(D, G, c, n, k)
<1> DEFINE s == <<d, name>>
           v == <<i, "..">>
           q == <<e, new>>
<1>1. /\ n \in Nat /\ n - 1 \in Nat /\ 1 .. n - 1 \subseteq Ino /\ D \subseteq Ino
      /\ nl \in [Ino -> Nat] /\ m \in [Slots -> Nat] /\ m \in [Slots -> 0 .. n - 1]
      /\ ROOT \in Ino /\ G \subseteq Ino /\ 0 \notin Ino
  BY WiredTypes
<1>2. /\ i \notin G /\ i # ROOT /\ i \in Ino /\ i # 0 /\ d \in D
      /\ m[<<i, "..">>] = d /\ IsNamed(m, i, d, name)
  <2>1. HasDir(D, G, m, d, name, i)
    BY WiredParent
  <2> QED BY <2>1 DEF HasDir
<1>3. /\ s \in Slots /\ q \in Slots /\ v \in Slots /\ q[2] \in Names /\ v # s /\ v # q /\ s # q /\ v[1] = i /\ v[2] \notin Names
  BY <1>1, <1>2, SlotFacts
<1>4. ASSUME NEW j \in Ino
      PROVE  /\ k[<<j, ".">>] = m[<<j, ".">>]
             /\ k[<<j, "..">>] = IF j = i THEN e ELSE m[<<j, "..">>]
  <2>1. <<j, ".">> \in Slots \ {s, q, v} /\ (j # i => <<j, "..">> \in Slots \ {s, q, v})
    BY SlotFacts
  <2> QED BY <2>1 DEF OnlyAt
<1> HIDE DEF s, v, q
<1>5. /\ m[s] = i /\ m[q] = 0 /\ m[v] = d /\ k[s] = 0 /\ k[q] = i /\ k[v] = e
      /\ Named(m, i) = {s} /\ OnlyAt(k, m, s, q, v) /\ \A r \in Slots \ {s, q, v} : k[r] = m[r]
  BY <1>2 DEF OnlyAt, IsNamed, s, v, q
<1>6. e \in 0 .. n - 1 /\ i \in 0 .. n - 1
  <2>1. D \subseteq 1 .. n - 1
    BY DEF Wired
  <2> QED BY <1>1, <2>1
<1>7. k \in [Slots -> 0 .. n - 1]
  BY <1>1, <1>5, <1>6
<1>8. ASSUME NEW j \in (1 .. n - 1) \ G PROVE c[j] = Count(k, j)
  <2>1. Count(k, j) = Count(m, j)
           + (One(k[s], j) - One(m[s], j)) + (One(k[q], j) - One(m[q], j))
           + (One(k[v], j) - One(m[v], j))
    <3>1. OnlyAt(k, m, s, q, v) /\ s # q /\ s # v /\ q # v /\ s \in Slots /\ q \in Slots /\ v \in Slots
      BY <1>3, <1>5
    <3> QED BY <3>1, Reassign3
  <2>2. nl[j] = Count(m, j) /\ nl[j] \in Nat /\ j # 0 /\ j \in Ino /\ j \notin G
    BY <1>1 DEF Wired
  <2>3. c[j] = nl[j] + One(e, j) - One(d, j)
    BY <2>2 DEF Counts
  <2>4. One(0, j) = 0 /\ One(i, j) \in Int /\ One(d, j) \in Int /\ One(e, j) \in Int
    BY <2>2 DEF One
  <2> QED BY <1>5, <2>1, <2>2, <2>3, <2>4
<1>9. ASSUME NEW j \in Ino \ {i} PROVE Named(k, j) = Named(m, j)
  <2>1. \A r \in Slots : r[2] \in Names => (k[r] = j <=> m[r] = j)
    BY <1>1, <1>3, <1>5
  <2> QED BY <2>1, NamedSame
<1>10. Named(k, i) = {q}
  BY <1>3, <1>5 DEF Named
<1>11. \A r \in Slots : k[r] # 0 => r[1] \in D
  <2>1. q[1] = e /\ v[1] = i
    BY DEF q, v
  <2> QED BY <1>5, <2>1 DEF Wired
<1>12. ASSUME NEW j \in D \ G PROVE k[<<j, ".">>] = j /\ k[<<j, "..">>] \in D
  <2>1. j \in Ino /\ m[<<j, ".">>] = j /\ m[<<j, "..">>] \in D
    BY <1>1 DEF Wired
  <2> QED BY <1>4, <2>1
<1>13. ASSUME NEW j \in G PROVE k[<<j, ".">>] = 0 /\ k[<<j, "..">>] = 0 /\ Named(k, j) = {}
  <2>1. j \in Ino \ {i} /\ m[<<j, ".">>] = 0 /\ m[<<j, "..">>] = 0 /\ Named(m, j) = {}
    BY <1>1, <1>2 DEF Wired
  <2> QED BY <1>4, <1>9, <2>1
<1>14. ROOT \in D \ G /\ Named(k, ROOT) = {}
  BY <1>1, <1>2, <1>9 DEF Wired
<1>15. ASSUME NEW j \in (D \ G) \ {ROOT}
       PROVE  HasName(k, j, k[<<j, "..">>])
  <2>1. CASE j = i
    <3>1. IsNamed(k, j, e, new) /\ k[<<j, "..">>] = e
      BY <1>2, <1>4, <1>10, <2>1 DEF q, IsNamed
    <3> QED BY <3>1 DEF HasName
  <2>2. CASE j # i
    <3>1. j \in Ino \ {i} /\ HasName(m, j, m[<<j, "..">>])
      BY <1>1, <2>2 DEF Wired
    <3> QED BY <1>4, <1>9, <2>2, <3>1 DEF HasName, IsNamed
  <2> QED BY <2>1, <2>2
<1> QED BY <1>7, <1>8, <1>11, <1>12, <1>13, <1>14, <1>15 DEF Wired

(* A file gets another name: a new one first, then it loses the old one.    *)
LEMMA WiredMove ==
    ASSUME NEW D, NEW G, NEW nl, NEW n, NEW m, Wired(D, G, nl, n, m),
           NEW d \in Ino, NEW name \in Names, NEW i, m[<<d, name>>] = i, i # 0, i \notin D,
           NEW e \in D, NEW new \in Names, m[<<e, new>>] = 0,
           NEW k \in [Slots -> Nat], k[<<d, name>>] = 0, k[<<e, new>>] = i,
           OnlyAt(k, m, <<d, name>>, <<e, new>>, <<e, new>>)
    PROVE  Wired(D, G, nl, n, k)
<1> DEFINE s == <<d, name>>
           q == <<e, new>>
           m1 == [m EXCEPT ![q] = i]
           c1 == [nl EXCEPT ![i] = @ + 1]
<1>1. /\ n \in Nat /\ n - 1 \in Nat /\ 1 .. n - 1 \subseteq Ino /\ D \subseteq Ino
      /\ nl \in [Ino -> Nat] /\ m \in [Slots -> Nat] /\ m \in [Slots -> 0 .. n - 1]
  BY WiredTypes
<1>2. /\ s \in Slots /\ q \in Slots /\ s # q /\ s \in Named(m, i)
      /\ s[2] \in Names /\ q[2] \in Names /\ q[1] = e
  BY <1>1, SlotFacts DEF Named
<1> HIDE DEF s, q
<1>3. /\ m[s] = i /\ m[q] = 0 /\ k[s] = 0 /\ k[q] = i
      /\ \A r \in Slots \ {s, q} : k[r] = m[r]
  BY DEF s, q, OnlyAt
<1>4. i \in 1 .. n - 1
  BY <1>1, <1>2, <1>3
<1>5. i \in (1 .. n - 1) \ G /\ i \in Ino
  BY <1>1, <1>2, <1>4 DEF Wired
<1>6. /\ m1 \in [Slots -> Nat] /\ m1[q] = i /\ m1[s] = i
      /\ c1 \in [Ino -> Nat] /\ c1[i] = nl[i] + 1 /\ \A j \in Ino \ {i} : c1[j] = nl[j]
  BY <1>1, <1>2, <1>3, <1>5
<1>7. OnlyAt(m1, m, q, q, q) /\ OnlyAt(k, m1, s, s, s)
  BY <1>1, <1>2, <1>3 DEF OnlyAt
<1> HIDE DEF m1, c1
<1>8. Wired(D, G, c1, n, m1)
  BY <1>2, <1>3, <1>5, <1>6, <1>7, WiredAdd
<1>9. nl[i] = c1[i] - 1 /\ \A j \in Ino \ {i} : nl[j] = c1[j]
  BY <1>1, <1>5, <1>6
<1> QED BY <1>1, <1>2, <1>3, <1>5, <1>6, <1>7, <1>8, <1>9, WiredCut

(* A new directory: its name, and its dots.                                 *)
LEMMA WiredMkdir ==
    ASSUME NEW D, NEW G, NEW nl, NEW n, NEW m, Wired(D, G, nl, n, m), n <= MaxIno,
           NEW d \in D, NEW name \in Names, m[<<d, name>>] = 0,
           NEW k \in [Slots -> Nat], k[<<d, name>>] = n, k[<<n, ".">>] = n, k[<<n, "..">>] = d,
           OnlyAt(k, m, <<d, name>>, <<n, ".">>, <<n, "..">>),
           NEW c \in [Ino -> Nat], c[n] = 2, Counts(c, nl, G \cup {n}, d, 0)
    PROVE  Wired(D \cup {n}, G, c, n + 1, k)
<1> DEFINE s == <<d, name>>
           u == <<n, ".">>
           v == <<n, "..">>
<1>1. /\ n \in Nat /\ n - 1 \in Nat /\ 1 .. n - 1 \subseteq Ino /\ D \subseteq Ino
      /\ nl \in [Ino -> Nat] /\ m \in [Slots -> Nat] /\ m \in [Slots -> 0 .. n - 1]
      /\ ROOT \in Ino /\ G \subseteq Ino /\ 0 \notin Ino
  BY WiredTypes
<1>2. n \in NInodes + 1 .. MaxIno + 1 /\ MaxIno \in Nat /\ NInodes \in Nat
  BY OverlayAssumption DEF Wired, MaxIno
<1>3. /\ n + 1 \in NInodes + 1 .. MaxIno + 1 /\ n \in Ino /\ n # 0
      /\ 1 .. (n + 1) - 1 = (1 .. n - 1) \cup {n} /\ 0 .. (n + 1) - 1 = (0 .. n - 1) \cup {n}
      /\ n \notin 1 .. n - 1 /\ n \notin 0 .. n - 1
  BY <1>2 DEF Ino
<1>4. D \subseteq 1 .. n - 1 /\ G \subseteq 1 .. n - 1 /\ n \notin D /\ n \notin G
  BY <1>3 DEF Wired
<1>5. /\ s \in Slots /\ u \in Slots /\ v \in Slots /\ u # v /\ s # u /\ s # v
      /\ s[1] = d /\ u[1] = n /\ v[1] = n /\ s[2] \in Names /\ u[2] \notin Names /\ v[2] \notin Names
  BY <1>1, <1>3, SlotFacts
<1>6. ASSUME NEW j \in Ino \ {n}
      PROVE  /\ <<j, ".">> \in Slots /\ <<j, "..">> \in Slots
             /\ k[<<j, ".">>] = m[<<j, ".">>] /\ k[<<j, "..">>] = m[<<j, "..">>]
  <2>1. /\ <<j, ".">> \in Slots \ {s, u, v} /\ <<j, "..">> \in Slots \ {s, u, v}
    BY SlotFacts
  <2> QED BY <2>1 DEF OnlyAt
<1> HIDE DEF s, u, v
<1>7. /\ m[s] = 0 /\ k[s] = n /\ k[u] = n /\ k[v] = d
      /\ OnlyAt(k, m, s, u, v) /\ \A r \in Slots \ {s, u, v} : k[r] = m[r]
  BY DEF OnlyAt, s, u, v
<1>8. m[u] = 0 /\ m[v] = 0
  BY <1>4, <1>5 DEF Wired
<1>9. k \in [Slots -> 0 .. (n + 1) - 1]
  <2>1. d \in 0 .. (n + 1) - 1 /\ n \in 0 .. (n + 1) - 1
    BY <1>1, <1>3, <1>4
  <2> QED BY <1>1, <1>3, <1>7, <2>1
<1>10. ASSUME NEW j \in (1 .. (n + 1) - 1) \ G PROVE c[j] = Count(k, j)
  <2>1. Count(k, j) = Count(m, j)
           + (One(k[s], j) - One(m[s], j)) + (One(k[u], j) - One(m[u], j))
           + (One(k[v], j) - One(m[v], j))
    <3>1. /\ OnlyAt(k, m, s, u, v) /\ s # u /\ s # v /\ u # v
          /\ s \in Slots /\ u \in Slots /\ v \in Slots
      BY <1>5, <1>7
    <3> QED BY <3>1, Reassign3
  <2>2. j # 0 /\ j \in Ino /\ One(0, j) = 0
    BY <1>1, <1>3 DEF One
  <2>3. Count(k, j) = Count(m, j) + One(n, j) + One(n, j) + One(d, j) /\ Count(m, j) \in Nat
    <3>1. Count(m, j) \in Nat
      BY SlotsFinite, FS_Subset, FS_CardinalityType DEF Count, Refs
    <3> QED BY <1>7, <1>8, <2>1, <2>2, <3>1, OneIsInt
  <2>4. CASE j = n
    <3>1. Refs(m, n) = {}
      BY <1>1, <1>3 DEF Refs
    <3>2. Count(m, n) = 0
      BY <3>1, FS_EmptySet DEF Count
    <3>3. One(n, j) = 1 /\ One(d, j) = 0
      BY <1>4, <2>4 DEF One
    <3> QED BY <2>3, <2>4, <3>2, <3>3
  <2>5. CASE j # n
    <3>1. nl[j] = Count(m, j) /\ One(n, j) = 0 /\ j \notin G \cup {n}
      BY <1>3, <2>5 DEF Wired, One
    <3>2. c[j] = nl[j] + One(d, j) - One(0, j)
      BY <2>2, <3>1 DEF Counts
    <3> QED BY <2>2, <2>3, <3>1, <3>2, OneIsInt
  <2> QED BY <2>4, <2>5
<1>11. ASSUME NEW j \in Ino \ {n} PROVE Named(k, j) = Named(m, j)
  <2>1. \A r \in Slots : r[2] \in Names => (k[r] = j <=> m[r] = j)
    BY <1>1, <1>5, <1>7
  <2> QED BY <2>1, NamedSame
<1>12. Named(k, n) = {s}
  BY <1>1, <1>3, <1>5, <1>7 DEF Named
<1>13. \A r \in Slots : k[r] # 0 => r[1] \in D \cup {n}
  BY <1>5, <1>7 DEF Wired
<1>14. ASSUME NEW j \in (D \cup {n}) \ G PROVE k[<<j, ".">>] = j /\ k[<<j, "..">>] \in D \cup {n}
  <2>1. CASE j = n
    BY <2>1
  <2>2. CASE j # n
    <3>1. j \in Ino \ {n} /\ m[<<j, ".">>] = j /\ m[<<j, "..">>] \in D
      BY <1>1, <2>2 DEF Wired
    <3> QED BY <1>6, <3>1
  <2> QED BY <2>1, <2>2
<1>15. ASSUME NEW j \in G PROVE k[<<j, ".">>] = 0 /\ k[<<j, "..">>] = 0 /\ Named(k, j) = {}
  <2>1. j \in Ino \ {n} /\ m[<<j, ".">>] = 0 /\ m[<<j, "..">>] = 0 /\ Named(m, j) = {}
    BY <1>1, <1>4 DEF Wired
  <2> QED BY <1>6, <1>11, <2>1
<1>16. ROOT \in (D \cup {n}) \ G /\ ROOT # n /\ Named(k, ROOT) = {}
  <2>1. ROOT \in D \ G /\ Named(m, ROOT) = {}
    BY DEF Wired
  <2> QED BY <1>1, <1>4, <1>11, <2>1
<1>17. ASSUME NEW j \in ((D \cup {n}) \ G) \ {ROOT} PROVE HasName(k, j, k[<<j, "..">>])
  <2>1. CASE j = n
    <3>1. IsNamed(k, n, d, name)
      BY <1>12 DEF s, IsNamed
    <3> QED BY <2>1, <3>1 DEF HasName
  <2>2. CASE j # n
    <3>1. j \in Ino \ {n} /\ HasName(m, j, m[<<j, "..">>])
      BY <1>1, <2>2 DEF Wired
    <3> QED BY <1>6, <1>11, <3>1 DEF HasName, IsNamed
  <2> QED BY <2>1, <2>2
<1>18. /\ D \cup {n} \subseteq 1 .. (n + 1) - 1 /\ G \subseteq 1 .. (n + 1) - 1
  BY <1>3, <1>4
<1> QED BY <1>3, <1>9, <1>10, <1>13, <1>14, <1>15, <1>16, <1>17, <1>18 DEF Wired

-----------------------------------------------------------------------------
(* The table as map, counts and gone inodes.                                *)

VNode == [kind : {None, "dir", "file", "chr"}, mode : {0, 1}, nlinks : Nat,
          data : Contents \cup {None}, entries : EntrySets \cup {None},
          base : BOOLEAN, open_refs : Nat, deleted : BOOLEAN]

(* What programs see of the table vn: EntriesIn and DataOf over the image   *)
(* as it is mounted.                                                        *)
EntriesOf(vn, i) ==
    IF vn[i].entries # None THEN vn[i].entries ELSE IF vn[i].base THEN DiskRead[i].entries ELSE <<>>
ContentOf(vn, i) == IF vn[i].data = None THEN DiskRead[i].data ELSE vn[i].data
TreeOf(vn)   == [i \in Ino |-> IF vn[i].kind = "dir" THEN EntriesOf(vn, i) ELSE <<>>]
DataIn(vn)   == [i \in Ino |-> IF vn[i].kind = "file" THEN ContentOf(vn, i) ELSE <<>>]
DirsIn(vn)   == {i \in Ino : vn[i].kind = "dir"}
GoneIn(vn)   == {i \in Ino : vn[i].deleted}
CountsIn(vn) == [i \in Ino |-> vn[i].nlinks]

At(es, name) == IF name \in DOMAIN es THEN es[name] ELSE 0

MapOf(tree, G) ==
    [s \in Slots |-> IF s[2] \in Names \/ s[1] \notin G THEN At(tree[s[1]], s[2]) ELSE 0]

(* An inode that was never made: counts nothing, is not gone, is not of the *)
(* image.                                                                   *)
Blank(v) == v.nlinks = 0 /\ ~v.deleted /\ ~v.base

TableOK(vn, n) ==
    /\ n \in NInodes + 1 .. MaxIno + 1
    /\ vn \in [Ino -> VNode]
    /\ \A i \in Ino :
          /\ vn[i].kind = None <=> i >= n
          /\ i >= n => Blank(vn[i])
          /\ vn[i].base => i \in Base
          /\ vn[i].kind = "dir" =>
                EntriesOf(vn, i) \in EntrySets /\ "." \in DOMAIN EntriesOf(vn, i) /\ ".." \in DOMAIN EntriesOf(vn, i)
          /\ vn[i].kind = "file" => ContentOf(vn, i) \in Contents

TableWired(vn, n) ==
    Wired(DirsIn(vn), GoneIn(vn), CountsIn(vn), n, MapOf(TreeOf(vn), GoneIn(vn)))

FSInv == disk = DiskRead /\ TableOK(vnode, next_ino) /\ TableWired(vnode, next_ino)

(* On the image as read, the two ways to look at entries agree.             *)
LEMMA EntriesAre == ASSUME disk = DiskRead, NEW vn, NEW i PROVE EntriesIn(vn, i) = EntriesOf(vn, i)
BY DEF EntriesIn, EntriesOf

(* Entries with one more, or one less.                                      *)
LEMMA PutEntries ==
    ASSUME NEW es \in EntrySets, NEW name \in AllNames, NEW i \in Ino
    PROVE  /\ Put(es, name, i) \in EntrySets
           /\ \A x : x \in DOMAIN Put(es, name, i) <=> x \in DOMAIN es \/ x = name
           /\ \A x : At(Put(es, name, i), x) = IF x = name THEN i ELSE At(es, x)
<1>1. PICK N \in SUBSET AllNames : es \in [N -> Ino]
  BY DEF EntrySets
<1>2. DOMAIN es = N /\ N \cup {name} \in SUBSET AllNames
  BY <1>1
<1>3. Put(es, name, i) \in [N \cup {name} -> Ino]
  BY <1>1, <1>2 DEF Put
<1>4. Put(es, name, i) \in EntrySets
  BY <1>2, <1>3 DEF EntrySets
<1> QED BY <1>4 DEF Put, At

(* Dropping a name changes that name alone.                                 *)
LEMMA DropEntries ==
    ASSUME NEW es \in EntrySets, NEW name
    PROVE  /\ Drop(es, name) \in EntrySets
           /\ \A x : x \in DOMAIN Drop(es, name) <=> x \in DOMAIN es /\ x # name
           /\ \A x : At(Drop(es, name), x) = IF x = name THEN 0 ELSE At(es, x)
<1>1. PICK N \in SUBSET AllNames : es \in [N -> Ino]
  BY DEF EntrySets
<1>2. DOMAIN es = N /\ N \ {name} \in SUBSET AllNames
  BY <1>1
<1>3. Drop(es, name) \in [N \ {name} -> Ino]
  BY <1>1, <1>2 DEF Drop
<1>4. Drop(es, name) \in EntrySets
  BY <1>2, <1>3 DEF EntrySets
<1> QED BY <1>4 DEF Drop, At

(* Entries name inodes, and 0 stands for no entry.                          *)
LEMMA EntryValues ==
    ASSUME NEW es \in EntrySets
    PROVE  /\ DOMAIN es \subseteq AllNames /\ \A x \in DOMAIN es : es[x] \in Ino /\ At(es, x) = es[x]
           /\ \A x : At(es, x) \in Nat /\ (x \in DOMAIN es <=> At(es, x) # 0)
<1>1. DOMAIN es \subseteq AllNames /\ \A x \in DOMAIN es : es[x] \in Ino
  BY DEF EntrySets
<1>2. Ino \subseteq Nat /\ 0 \notin Ino
  BY SlotsFinite DEF Ino
<1> QED BY <1>1, <1>2 DEF At

(* Putting what is there changes nothing.                                   *)
LEMMA PutSame ==
    ASSUME NEW es \in EntrySets, NEW name, NEW i \in Ino, At(es, name) = i
    PROVE  Put(es, name, i) = es
<1>1. name \in DOMAIN es /\ es[name] = i
  <2>1. i # 0
    BY DEF Ino
  <2> QED BY <2>1 DEF At
<1>2. PICK N \in SUBSET AllNames : es \in [N -> Ino]
  BY DEF EntrySets
<1> QED BY <1>1, <1>2 DEF Put

(* An empty directory names nothing.                                        *)
LEMMA NoEntries == <<>> \in EntrySets /\ \A x : At(<<>>, x) = 0
<1>1. <<>> \in [{} -> Ino] /\ {} \in SUBSET AllNames
  OBVIOUS
<1> QED BY <1>1 DEF EntrySets, At

-----------------------------------------------------------------------------
(* What the table operations do to the map.                                 *)

(* The map of a tree is a function on slots.                                *)
LEMMA MapType ==
    ASSUME NEW tree, NEW G, \A i \in Ino : tree[i] \in EntrySets
    PROVE  MapOf(tree, G) \in [Slots -> Nat]
<1>1. ASSUME NEW s \in Slots PROVE At(tree[s[1]], s[2]) \in Nat
  <2>1. tree[s[1]] \in EntrySets
    BY SlotFacts
  <2> QED BY <2>1, EntryValues
<1> QED BY <1>1 DEF MapOf

(* When the entries of d change under name only, the map changes there.     *)
LEMMA MapChange ==
    ASSUME NEW tree, NEW new, NEW G, NEW d \in Ino, NEW name \in Names,
           \A j \in Ino \ {d} : new[j] = tree[j],
           \A x : x # name => At(new[d], x) = At(tree[d], x)
    PROVE  /\ MapOf(new, G)[<<d, name>>] = At(new[d], name)
           /\ MapOf(tree, G)[<<d, name>>] = At(tree[d], name)
           /\ OnlyAt(MapOf(new, G), MapOf(tree, G), <<d, name>>, <<d, name>>, <<d, name>>)
<1> DEFINE q == <<d, name>>
           m == MapOf(tree, G)
           k == MapOf(new, G)
<1>1. q \in Slots /\ q[1] = d /\ q[2] = name
  BY SlotFacts
<1>2. k[q] = At(new[d], name) /\ m[q] = At(tree[d], name)
  BY <1>1 DEF MapOf
<1>3. ASSUME NEW s \in Slots \ {q} PROVE k[s] = m[s]
  <2>1. CASE s[1] = d
    <3>1. s[2] # name
      BY <2>1, SlotFacts
    <3> QED BY <2>1, <3>1 DEF MapOf
  <2>2. CASE s[1] # d
    <3>1. new[s[1]] = tree[s[1]]
      BY <2>2, SlotFacts
    <3> QED BY <3>1 DEF MapOf
  <2> QED BY <2>1, <2>2
<1> QED BY <1>2, <1>3 DEF OnlyAt

-----------------------------------------------------------------------------
(* The table operations.                                                    *)

(* A function that differs at one point, and the edits of tables and trees. *)
Changed(f, x, v)      == [f EXCEPT ![x] = v]
Grown(T, d, name, i)  == [T EXCEPT ![d] = Put(@, name, i)]
Shrunk(T, d, name)    == [T EXCEPT ![d] = Drop(@, name)]
WithCount(vn, d, c)   == [vn EXCEPT ![d].nlinks = c]
Copied(vn, i)         == [vn EXCEPT ![i].entries = EntriesIn(vn, i)]
Dead(vn, i)           == [vn EXCEPT ![i].nlinks = 0, ![i].deleted = TRUE]

(* w is vn but for entries, counts and what is gone, below n.               *)
Edited(w, vn, n) ==
    /\ w \in [Ino -> VNode]
    /\ \A j \in Ino : /\ w[j].kind = vn[j].kind /\ w[j].data = vn[j].data /\ w[j].base = vn[j].base
                      /\ j >= n => w[j] = vn[j]

SameFiles(w, vn) == DirsIn(w) = DirsIn(vn) /\ DataIn(w) = DataIn(vn)

(* The table vn with one entry more.                                        *)
Linked(w, vn, d, name, i) ==
    /\ SameFiles(w, vn) /\ GoneIn(w) = GoneIn(vn)
    /\ TreeOf(w) = Grown(TreeOf(vn), d, name, i)
    /\ CountsIn(w) = Changed(CountsIn(vn), i, CountsIn(vn)[i] + 1)

(* What the types of a table say of its parts.                              *)
LEMMA TableTypes ==
    ASSUME NEW vn, NEW n, TableOK(vn, n)
    PROVE  /\ n \in Nat /\ n - 1 \in Nat /\ 1 .. n - 1 \subseteq Ino /\ Ino \subseteq Nat
           /\ vn \in [Ino -> VNode] /\ DirsIn(vn) \subseteq 1 .. n - 1 /\ DirsIn(vn) \subseteq Ino
           /\ TreeOf(vn) \in [Ino -> EntrySets] /\ CountsIn(vn) \in [Ino -> Nat]
           /\ \A G : MapOf(TreeOf(vn), G) \in [Slots -> Nat]
<1>1. MaxIno \in Nat /\ NInodes \in Nat /\ NInodes >= 1 /\ MaxIno >= NInodes
  BY OverlayAssumption DEF MaxIno
<1>2. n \in Nat /\ n - 1 \in Nat /\ 1 .. n - 1 \subseteq Ino /\ Ino \subseteq Nat
  BY <1>1 DEF TableOK, Ino
<1>3. vn \in [Ino -> VNode] /\ CountsIn(vn) \in [Ino -> Nat]
  BY DEF TableOK, VNode, CountsIn
<1>4. DirsIn(vn) \subseteq 1 .. n - 1 /\ DirsIn(vn) \subseteq Ino
  <2> SUFFICES ASSUME NEW i \in Ino, vn[i].kind = "dir" PROVE i \in 1 .. n - 1
    BY DEF DirsIn
  <2>1. ~(i >= n)
    BY OverlayAssumption DEF TableOK
  <2> QED BY <1>1, <1>2, <2>1 DEF Ino
<1>5. TreeOf(vn) \in [Ino -> EntrySets]
  BY NoEntries DEF TreeOf, TableOK
<1> QED BY <1>2, <1>3, <1>4, <1>5, MapType

(* An edited table is a table as long as directories keep their dots.       *)
LEMMA EditedTable ==
    ASSUME NEW vn, NEW n, TableOK(vn, n), NEW w, Edited(w, vn, n),
           \A j \in DirsIn(vn) : /\ EntriesOf(w, j) \in EntrySets
                                 /\ "." \in DOMAIN EntriesOf(w, j) /\ ".." \in DOMAIN EntriesOf(w, j)
    PROVE  TableOK(w, n) /\ SameFiles(w, vn)
<1>1. /\ w \in [Ino -> VNode] /\ DirsIn(w) = DirsIn(vn)
      /\ \A j \in Ino : ContentOf(w, j) = ContentOf(vn, j) /\ w[j].kind = vn[j].kind /\ w[j].base = vn[j].base
  BY DEF Edited, DirsIn, ContentOf
<1>2. DataIn(w) = DataIn(vn)
  BY <1>1 DEF DataIn
<1>3. ASSUME NEW i \in Ino
      PROVE  /\ w[i].kind = None <=> i >= n
             /\ i >= n => Blank(w[i])
             /\ w[i].base => i \in Base
             /\ w[i].kind = "dir" =>
                   /\ EntriesOf(w, i) \in EntrySets
                   /\ "." \in DOMAIN EntriesOf(w, i) /\ ".." \in DOMAIN EntriesOf(w, i)
             /\ w[i].kind = "file" => ContentOf(w, i) \in Contents
  <2>1. (w[i].kind = None <=> i >= n) /\ (w[i].base => i \in Base) /\ (w[i].kind = "file" => ContentOf(w, i) \in Contents)
    BY <1>1 DEF TableOK
  <2>2. i >= n => Blank(w[i])
    BY DEF TableOK, Edited
  <2>3. w[i].kind = "dir" => i \in DirsIn(vn)
    BY <1>1 DEF DirsIn
  <2> QED BY <2>1, <2>2, <2>3
<1>4. n \in NInodes + 1 .. MaxIno + 1
  BY DEF TableOK
<1> QED BY <1>1, <1>2, <1>3, <1>4 DEF TableOK, SameFiles

(* _link_entry.                                                             *)
LEMMA LinkEffect ==
    ASSUME disk = DiskRead, NEW vn, NEW n, TableOK(vn, n),
           NEW d \in DirsIn(vn), NEW name \in AllNames, NEW i \in 1 .. n - 1,
           NEW w, w = LinkEntry(vn, d, name, i)
    PROVE  TableOK(w, n) /\ Linked(w, vn, d, name, i)
<1> USE DEF Grown, Changed
<1> DEFINE es == Put(EntriesOf(vn, d), name, i)
<1>1. /\ n \in Nat /\ i \in Ino /\ d \in Ino /\ d < n /\ i < n /\ vn \in [Ino -> VNode] /\ vn[d].kind = "dir"
      /\ d \in DirsIn(vn)
  BY TableTypes, SlotFacts DEF DirsIn
<1>2. EntriesOf(vn, d) \in EntrySets /\ "." \in DOMAIN EntriesOf(vn, d) /\ ".." \in DOMAIN EntriesOf(vn, d)
  BY <1>1 DEF TableOK
<1>3. es \in EntrySets /\ "." \in DOMAIN es /\ ".." \in DOMAIN es
  BY <1>1, <1>2, PutEntries
<1>4. w = [vn EXCEPT ![d].entries = es, ![i].nlinks = @ + 1]
  BY EntriesAre DEF LinkEntry
<1> HIDE DEF es
<1>5. ASSUME NEW j \in Ino
      PROVE  /\ w[j] \in VNode /\ w[j].kind = vn[j].kind /\ w[j].data = vn[j].data /\ w[j].base = vn[j].base
             /\ w[j].deleted = vn[j].deleted
             /\ w[j].nlinks = IF j = i THEN vn[j].nlinks + 1 ELSE vn[j].nlinks
             /\ w[j].entries = IF j = d THEN es ELSE vn[j].entries
             /\ j # d /\ j # i => w[j] = vn[j]
  BY <1>1, <1>3, <1>4 DEF VNode
<1>6. Edited(w, vn, n)
  <2>1. DOMAIN w = Ino
    BY <1>1, <1>4
  <2>2. w \in [Ino -> VNode]
    BY <1>4, <1>5, <2>1
  <2>3. ASSUME NEW j \in Ino, j >= n PROVE w[j] = vn[j]
    BY <1>1, <1>5, <2>3, TableTypes
  <2> QED BY <1>5, <2>2, <2>3 DEF Edited
<1>7. ASSUME NEW j \in Ino PROVE EntriesOf(w, j) = IF j = d THEN es ELSE EntriesOf(vn, j)
  <2>1. None # es
    BY <1>3, OverlayAssumption
  <2> QED BY <1>5, <2>1 DEF EntriesOf
<1>8. TableOK(w, n) /\ SameFiles(w, vn)
  <2>1. \A j \in DirsIn(vn) : /\ EntriesOf(w, j) \in EntrySets
                              /\ "." \in DOMAIN EntriesOf(w, j) /\ ".." \in DOMAIN EntriesOf(w, j)
    BY <1>3, <1>7 DEF TableOK, DirsIn
  <2> QED BY <1>6, <2>1, EditedTable
<1>9. GoneIn(w) = GoneIn(vn)
  BY <1>5 DEF GoneIn
<1>10. TreeOf(w) = Grown(TreeOf(vn), d, name, i)
  <2>1. \A j \in Ino : TreeOf(w)[j] = IF j = d THEN es ELSE TreeOf(vn)[j]
    BY <1>1, <1>5, <1>7 DEF TreeOf
  <2>2. es = Put(TreeOf(vn)[d], name, i)
    BY <1>1 DEF es, TreeOf
  <2> QED BY <2>1, <2>2 DEF TreeOf
<1>11. CountsIn(w) = Changed(CountsIn(vn), i, CountsIn(vn)[i] + 1)
  BY <1>1, <1>5 DEF CountsIn
<1> QED BY <1>8, <1>9, <1>10, <1>11 DEF Linked

(* The table vn with one entry less.                                        *)
Unlinked(w, vn, d, name, i) ==
    /\ SameFiles(w, vn)
    /\ TreeOf(w) = Shrunk(TreeOf(vn), d, name)
    /\ CountsIn(w) = Changed(CountsIn(vn), i, Less(CountsIn(vn)[i]))
    /\ \/ GoneIn(w) = GoneIn(vn)
       \/ GoneIn(w) = GoneIn(vn) \cup {i} /\ CountsIn(w)[i] = 0

(* _unlink_entry.                                                           *)
LEMMA UnlinkEffect ==
    ASSUME disk = DiskRead, NEW vn, NEW n, TableOK(vn, n),
           NEW d \in DirsIn(vn), NEW name \in Names, NEW i \in 1 .. n - 1, EntriesOf(vn, d)[name] = i,
           NEW w, w = UnlinkEntry(vn, d, name)
    PROVE  TableOK(w, n) /\ Unlinked(w, vn, d, name, i)
<1> USE DEF Shrunk, Changed
<1> DEFINE es == Drop(EntriesOf(vn, d), name)
           w0 == [vn EXCEPT ![d].entries = es, ![i].nlinks = Less(@)]
           gone == w0[i].nlinks = 0 /\ w0[i].open_refs = 0
<1>1. /\ n \in Nat /\ i \in Ino /\ d \in Ino /\ d < n /\ i < n /\ vn \in [Ino -> VNode] /\ vn[d].kind = "dir"
      /\ name # "." /\ name # ".."
  BY TableTypes, SlotFacts DEF DirsIn
<1>2. EntriesOf(vn, d) \in EntrySets /\ "." \in DOMAIN EntriesOf(vn, d) /\ ".." \in DOMAIN EntriesOf(vn, d)
  BY <1>1 DEF TableOK
<1>3. es \in EntrySets /\ "." \in DOMAIN es /\ ".." \in DOMAIN es
  BY <1>1, <1>2, DropEntries
<1>4. w = [w0 EXCEPT ![i].deleted = @ \/ gone]
  BY EntriesAre DEF UnlinkEntry
<1>5. \A x \in Nat : Less(x) \in Nat
  BY DEF Less
<1> HIDE DEF es
<1>6. ASSUME NEW j \in Ino
      PROVE  /\ w[j] \in VNode /\ w[j].kind = vn[j].kind /\ w[j].data = vn[j].data /\ w[j].base = vn[j].base
             /\ w[j].deleted = (vn[j].deleted \/ (j = i /\ gone))
             /\ w[j].nlinks = IF j = i THEN Less(vn[j].nlinks) ELSE vn[j].nlinks
             /\ w[j].entries = IF j = d THEN es ELSE vn[j].entries
             /\ j # d /\ j # i => w[j] = vn[j]
  <2>1. w0 \in [Ino -> VNode]
    BY <1>1, <1>3, <1>5 DEF VNode
  <2>2. /\ w0[j].kind = vn[j].kind /\ w0[j].data = vn[j].data /\ w0[j].base = vn[j].base
        /\ w0[j].deleted = vn[j].deleted
        /\ w0[j].nlinks = IF j = i THEN Less(vn[j].nlinks) ELSE vn[j].nlinks
        /\ w0[j].entries = IF j = d THEN es ELSE vn[j].entries
        /\ j # d /\ j # i => w0[j] = vn[j]
    BY <1>1, <1>3, <1>5 DEF VNode
  <2>3. gone \in BOOLEAN
    OBVIOUS
  <2> HIDE DEF w0, gone
  <2>4. /\ w[j] \in VNode /\ w[j].kind = w0[j].kind /\ w[j].data = w0[j].data /\ w[j].base = w0[j].base
        /\ w[j].deleted = (w0[j].deleted \/ (j = i /\ gone))
        /\ w[j].nlinks = w0[j].nlinks /\ w[j].entries = w0[j].entries
        /\ j # i => w[j] = w0[j]
    BY <1>1, <1>4, <2>1, <2>3 DEF VNode
  <2> QED BY <2>2, <2>4
<1>7. CountsIn(w) = Changed(CountsIn(vn), i, Less(CountsIn(vn)[i]))
  <2>1. \A j \in Ino : w[j].nlinks = IF j = i THEN Less(vn[j].nlinks) ELSE vn[j].nlinks
    BY <1>6
  <2> QED BY <1>1, <2>1 DEF CountsIn
<1>8. gone => CountsIn(w)[i] = 0
  <2>1. gone => Less(vn[i].nlinks) = 0
    BY <1>1 DEF VNode
  <2> QED BY <1>1, <1>6, <2>1 DEF CountsIn
<1>9. DOMAIN w = Ino
  BY <1>1, <1>4
<1> HIDE DEF w0, gone
<1>10. Edited(w, vn, n)
  <2>1. w \in [Ino -> VNode]
    BY <1>4, <1>6, <1>9
  <2>2. ASSUME NEW j \in Ino, j >= n PROVE w[j] = vn[j]
    BY <1>1, <1>6, <2>2, TableTypes
  <2> QED BY <1>6, <2>1, <2>2 DEF Edited
<1>11. ASSUME NEW j \in Ino PROVE EntriesOf(w, j) = IF j = d THEN es ELSE EntriesOf(vn, j)
  <2>1. None # es
    BY <1>3, OverlayAssumption
  <2> QED BY <1>6, <2>1 DEF EntriesOf
<1>12. TableOK(w, n) /\ SameFiles(w, vn)
  <2>1. \A j \in DirsIn(vn) : /\ EntriesOf(w, j) \in EntrySets
                              /\ "." \in DOMAIN EntriesOf(w, j) /\ ".." \in DOMAIN EntriesOf(w, j)
    BY <1>3, <1>11 DEF TableOK, DirsIn
  <2> QED BY <1>10, <2>1, EditedTable
<1>13. GoneIn(w) = GoneIn(vn) \/ (GoneIn(w) = GoneIn(vn) \cup {i} /\ CountsIn(w)[i] = 0)
  <2>1. \A j \in Ino : w[j].deleted <=> vn[j].deleted \/ (j = i /\ gone)
    BY <1>6
  <2>2. CASE gone
    BY <1>1, <1>8, <2>1, <2>2 DEF GoneIn
  <2>3. CASE ~gone
    BY <2>1, <2>3 DEF GoneIn
  <2> QED BY <2>2, <2>3
<1>14. TreeOf(w) = Shrunk(TreeOf(vn), d, name)
  <2>1. \A j \in Ino : TreeOf(w)[j] = IF j = d THEN es ELSE TreeOf(vn)[j]
    BY <1>1, <1>6, <1>11 DEF TreeOf
  <2>2. es = Drop(TreeOf(vn)[d], name)
    BY <1>1 DEF es, TreeOf
  <2> QED BY <2>1, <2>2 DEF TreeOf
<1> QED BY <1>7, <1>12, <1>13, <1>14 DEF Unlinked

(* A table in which neither entries nor what is gone changed.               *)
LEMMA PlainEdit ==
    ASSUME NEW vn, NEW n, TableOK(vn, n), NEW w, w \in [Ino -> VNode],
           \A j \in Ino : /\ w[j].kind = vn[j].kind /\ w[j].base = vn[j].base
                          /\ w[j].deleted = vn[j].deleted /\ w[j].entries = vn[j].entries
                          /\ j >= n => w[j].nlinks = vn[j].nlinks
                          /\ w[j].kind = "file" => ContentOf(w, j) \in Contents
    PROVE  TableOK(w, n) /\ DirsIn(w) = DirsIn(vn) /\ GoneIn(w) = GoneIn(vn) /\ TreeOf(w) = TreeOf(vn)
<1>1. \A j \in Ino : EntriesOf(w, j) = EntriesOf(vn, j)
  BY DEF EntriesOf
<1>2. TableOK(w, n)
  <2>1. ASSUME NEW i \in Ino
        PROVE  /\ w[i].kind = None <=> i >= n
               /\ i >= n => Blank(w[i])
               /\ w[i].base => i \in Base
               /\ w[i].kind = "dir" =>
                     /\ EntriesOf(w, i) \in EntrySets
                     /\ "." \in DOMAIN EntriesOf(w, i) /\ ".." \in DOMAIN EntriesOf(w, i)
               /\ w[i].kind = "file" => ContentOf(w, i) \in Contents
    BY <1>1 DEF TableOK, Blank
  <2> QED BY <2>1 DEF TableOK
<1>3. DirsIn(w) = DirsIn(vn) /\ GoneIn(w) = GoneIn(vn)
  BY DEF DirsIn, GoneIn
<1>4. TreeOf(w) = TreeOf(vn)
  BY <1>1 DEF TreeOf
<1> QED BY <1>2, <1>3, <1>4

(* One count is set.                                                        *)
LEMMA CountEffect ==
    ASSUME NEW vn, NEW n, TableOK(vn, n), NEW d \in 1 .. n - 1, NEW c \in Nat,
           NEW w, w = WithCount(vn, d, c)
    PROVE  /\ TableOK(w, n) /\ SameFiles(w, vn) /\ GoneIn(w) = GoneIn(vn) /\ TreeOf(w) = TreeOf(vn)
           /\ CountsIn(w) = Changed(CountsIn(vn), d, c)
<1> USE DEF WithCount, Changed
<1>1. n \in Nat /\ d \in Ino /\ d < n /\ vn \in [Ino -> VNode]
  BY TableTypes
<1>2. ASSUME NEW j \in Ino
      PROVE  /\ w[j] \in VNode /\ w[j].kind = vn[j].kind /\ w[j].data = vn[j].data /\ w[j].base = vn[j].base
             /\ w[j].deleted = vn[j].deleted /\ w[j].entries = vn[j].entries
             /\ w[j].nlinks = IF j = d THEN c ELSE vn[j].nlinks
             /\ j # d => w[j] = vn[j]
  BY <1>1 DEF VNode
<1>3. w \in [Ino -> VNode]
  BY <1>1, <1>2
<1>4. \A j \in Ino : ContentOf(w, j) = ContentOf(vn, j) /\ (w[j].kind = "file" => ContentOf(w, j) \in Contents)
  BY <1>2 DEF ContentOf, TableOK
<1>5. \A j \in Ino : j >= n => w[j] = vn[j]
  BY <1>1, <1>2, TableTypes
<1>6. TableOK(w, n) /\ DirsIn(w) = DirsIn(vn) /\ GoneIn(w) = GoneIn(vn) /\ TreeOf(w) = TreeOf(vn)
  BY <1>2, <1>3, <1>4, <1>5, PlainEdit
<1>7. DataIn(w) = DataIn(vn)
  BY <1>2, <1>4 DEF DataIn
<1>8. CountsIn(w) = Changed(CountsIn(vn), d, c)
  <2>1. \A j \in Ino : w[j].nlinks = IF j = d THEN c ELSE vn[j].nlinks
    BY <1>2
  <2> QED BY <1>1, <2>1 DEF CountsIn
<1> QED BY <1>6, <1>7, <1>8 DEF SameFiles

(* A directory is gone.                                                     *)
LEMMA GoneEffect ==
    ASSUME NEW vn, NEW n, TableOK(vn, n), NEW i \in 1 .. n - 1,
           NEW w, w = Dead(vn, i)
    PROVE  /\ TableOK(w, n) /\ SameFiles(w, vn) /\ GoneIn(w) = GoneIn(vn) \cup {i}
           /\ TreeOf(w) = TreeOf(vn) /\ CountsIn(w) = Changed(CountsIn(vn), i, 0)
<1> USE DEF Dead, Changed
<1>1. n \in Nat /\ i \in Ino /\ i < n /\ vn \in [Ino -> VNode]
  BY TableTypes
<1>2. ASSUME NEW j \in Ino
      PROVE  /\ w[j] \in VNode /\ w[j].kind = vn[j].kind /\ w[j].data = vn[j].data /\ w[j].base = vn[j].base
             /\ w[j].deleted = (j = i \/ vn[j].deleted) /\ w[j].entries = vn[j].entries
             /\ w[j].nlinks = IF j = i THEN 0 ELSE vn[j].nlinks
             /\ j # i => w[j] = vn[j]
  BY <1>1 DEF VNode
<1>3. Edited(w, vn, n)
  <2>1. w \in [Ino -> VNode]
    BY <1>1, <1>2
  <2>2. \A j \in Ino : j >= n => w[j] = vn[j]
    BY <1>1, <1>2, TableTypes
  <2> QED BY <1>2, <2>1, <2>2 DEF Edited
<1>4. \A j \in Ino : EntriesOf(w, j) = EntriesOf(vn, j)
  BY <1>2 DEF EntriesOf
<1>5. TableOK(w, n) /\ SameFiles(w, vn)
  <2>1. \A j \in DirsIn(vn) : /\ EntriesOf(w, j) \in EntrySets
                              /\ "." \in DOMAIN EntriesOf(w, j) /\ ".." \in DOMAIN EntriesOf(w, j)
    BY <1>4 DEF TableOK, DirsIn
  <2> QED BY <1>3, <2>1, EditedTable
<1>6. TreeOf(w) = TreeOf(vn)
  BY <1>2, <1>4 DEF TreeOf
<1>7. GoneIn(w) = GoneIn(vn) \cup {i}
  <2>1. \A j \in Ino : w[j].deleted <=> (j = i \/ vn[j].deleted)
    BY <1>2
  <2> QED BY <1>1, <2>1 DEF GoneIn
<1>8. CountsIn(w) = Changed(CountsIn(vn), i, 0)
  <2>1. \A j \in Ino : w[j].nlinks = IF j = i THEN 0 ELSE vn[j].nlinks
    BY <1>2
  <2> QED BY <1>1, <2>1 DEF CountsIn
<1> QED BY <1>5, <1>6, <1>7, <1>8

(* A directory is copied into the table.                                    *)
LEMMA CopyEffect ==
    ASSUME disk = DiskRead, NEW vn, NEW n, TableOK(vn, n), NEW i \in DirsIn(vn),
           NEW w, w = Copied(vn, i)
    PROVE  /\ TableOK(w, n) /\ SameFiles(w, vn) /\ GoneIn(w) = GoneIn(vn) /\ TreeOf(w) = TreeOf(vn)
           /\ CountsIn(w) = CountsIn(vn) /\ \A j \in Ino : EntriesOf(w, j) = EntriesOf(vn, j)
<1> USE DEF Copied
<1>1. n \in Nat /\ i \in Ino /\ i < n /\ vn \in [Ino -> VNode] /\ EntriesIn(vn, i) = EntriesOf(vn, i)
  BY TableTypes, EntriesAre
<1>2. EntriesOf(vn, i) \in EntrySets /\ None # EntriesOf(vn, i)
  BY <1>1, OverlayAssumption DEF TableOK, DirsIn
<1>3. ASSUME NEW j \in Ino
      PROVE  /\ w[j] \in VNode /\ w[j].kind = vn[j].kind /\ w[j].data = vn[j].data /\ w[j].base = vn[j].base
             /\ w[j].deleted = vn[j].deleted /\ w[j].nlinks = vn[j].nlinks
             /\ w[j].entries = IF j = i THEN EntriesOf(vn, i) ELSE vn[j].entries
             /\ j # i => w[j] = vn[j]
  BY <1>1, <1>2 DEF VNode
<1>4. Edited(w, vn, n)
  <2>1. w \in [Ino -> VNode]
    BY <1>1, <1>3
  <2>2. \A j \in Ino : j >= n => w[j] = vn[j]
    BY <1>1, <1>3, TableTypes
  <2> QED BY <1>3, <2>1, <2>2 DEF Edited
<1>5. \A j \in Ino : EntriesOf(w, j) = EntriesOf(vn, j)
  BY <1>2, <1>3 DEF EntriesOf
<1>6. TableOK(w, n) /\ SameFiles(w, vn)
  <2>1. \A j \in DirsIn(vn) : /\ EntriesOf(w, j) \in EntrySets
                              /\ "." \in DOMAIN EntriesOf(w, j) /\ ".." \in DOMAIN EntriesOf(w, j)
    BY <1>5 DEF TableOK, DirsIn
  <2> QED BY <1>4, <2>1, EditedTable
<1>7. TreeOf(w) = TreeOf(vn) /\ GoneIn(w) = GoneIn(vn) /\ CountsIn(w) = CountsIn(vn)
  BY <1>3, <1>5 DEF TreeOf, GoneIn, CountsIn
<1> QED BY <1>5, <1>6, <1>7

(* _new_inode: a number that was not in use.                                *)
LEMMA NewEffect ==
    ASSUME NEW vn, NEW n, TableOK(vn, n), n <= MaxIno,
           NEW new \in VNode, new.kind # None, ~new.base, ~new.deleted,
           new.kind = "file" => new.data = <<>>,
           new.kind = "dir" => /\ new.entries \in EntrySets
                               /\ "." \in DOMAIN new.entries /\ ".." \in DOMAIN new.entries,
           NEW es, es = IF new.kind = "dir" THEN new.entries ELSE <<>>,
           NEW w, w = Changed(vn, n, new)
    PROVE  /\ TableOK(w, n + 1) /\ DataIn(w) = DataIn(vn) /\ GoneIn(w) = GoneIn(vn)
           /\ DirsIn(w) = IF new.kind = "dir" THEN DirsIn(vn) \cup {n} ELSE DirsIn(vn)
           /\ TreeOf(w) = Changed(TreeOf(vn), n, es)
           /\ CountsIn(w) = Changed(CountsIn(vn), n, new.nlinks)
           /\ n \in Ino /\ TreeOf(vn)[n] = <<>> /\ CountsIn(vn)[n] = 0 /\ n \notin GoneIn(vn)
<1> USE DEF Changed
<1>1. /\ MaxIno \in Nat /\ NInodes \in Nat /\ n \in NInodes + 1 .. MaxIno + 1 /\ n \in Nat
      /\ vn \in [Ino -> VNode]
  BY OverlayAssumption DEF MaxIno, TableOK
<1>2. n \in Ino /\ n + 1 \in NInodes + 1 .. MaxIno + 1
  BY <1>1 DEF Ino
<1>3. Blank(vn[n]) /\ vn[n].kind = None /\ n >= n
  BY <1>1, <1>2 DEF TableOK
<1>4. /\ vn[n].nlinks = 0 /\ ~vn[n].deleted
      /\ None # "dir" /\ None # "file"
  BY <1>3, OverlayAssumption DEF Blank
<1>5. w \in [Ino -> VNode] /\ w[n] = new /\ \A j \in Ino \ {n} : w[j] = vn[j]
  BY <1>1, <1>2
<1>6. <<>> \in Contents /\ None # <<>> /\ None \notin EntrySets
  <2>1. <<>> \in Contents
    BY DEF Contents
  <2> QED BY <2>1, OverlayAssumption
<1>7. /\ new.kind = "dir" => EntriesOf(w, n) = new.entries
      /\ new.kind = "file" => ContentOf(w, n) = <<>>
      /\ \A j \in Ino \ {n} : EntriesOf(w, j) = EntriesOf(vn, j) /\ ContentOf(w, j) = ContentOf(vn, j)
  BY <1>5, <1>6 DEF EntriesOf, ContentOf
<1>8. ASSUME NEW i \in Ino
      PROVE  /\ w[i].kind = None <=> i >= n + 1
             /\ i >= n + 1 => Blank(w[i])
             /\ w[i].base => i \in Base
             /\ w[i].kind = "dir" =>
                   /\ EntriesOf(w, i) \in EntrySets
                   /\ "." \in DOMAIN EntriesOf(w, i) /\ ".." \in DOMAIN EntriesOf(w, i)
             /\ w[i].kind = "file" => ContentOf(w, i) \in Contents
  <2>1. i \in Nat
    BY SlotsFinite
  <2>2. CASE i = n
    BY <1>1, <1>5, <1>6, <1>7, <2>2
  <2>3. CASE i # n
    <3>1. (i >= n + 1 <=> i >= n) /\ w[i] = vn[i]
      BY <1>1, <1>5, <2>1, <2>3
    <3> QED BY <1>7, <2>3, <3>1 DEF TableOK
  <2> QED BY <2>2, <2>3
<1>9. TableOK(w, n + 1)
  BY <1>2, <1>5, <1>8 DEF TableOK
<1>10. DataIn(w) = DataIn(vn)
  <2>1. \A j \in Ino : DataIn(w)[j] = DataIn(vn)[j]
    BY <1>3, <1>4, <1>5, <1>7 DEF DataIn
  <2> QED BY <2>1 DEF DataIn
<1>11. GoneIn(w) = GoneIn(vn) /\ n \notin GoneIn(vn)
  BY <1>2, <1>4, <1>5 DEF GoneIn
<1>12. DirsIn(w) = IF new.kind = "dir" THEN DirsIn(vn) \cup {n} ELSE DirsIn(vn)
  <2>1. n \notin DirsIn(vn)
    BY <1>3, <1>4 DEF DirsIn
  <2> QED BY <1>2, <1>5, <2>1 DEF DirsIn
<1>13. TreeOf(w) = Changed(TreeOf(vn), n, es) /\ TreeOf(vn)[n] = <<>>
  <2>1. TreeOf(vn)[n] = <<>>
    BY <1>2, <1>3, <1>4 DEF TreeOf
  <2>2. \A j \in Ino : TreeOf(w)[j] = IF j = n THEN es ELSE TreeOf(vn)[j]
    BY <1>5, <1>7 DEF TreeOf
  <2> QED BY <2>1, <2>2 DEF TreeOf
<1>14. CountsIn(w) = Changed(CountsIn(vn), n, new.nlinks) /\ CountsIn(vn)[n] = 0
  BY <1>2, <1>4, <1>5 DEF CountsIn
<1> QED BY <1>2, <1>9, <1>10, <1>11, <1>12, <1>13, <1>14

-----------------------------------------------------------------------------
(* The calls, on any table.                                                 *)

Table(vn, n)    == TableOK(vn, n) /\ TableWired(vn, n)
MapIn(vn)       == MapOf(TreeOf(vn), GoneIn(vn))
Lives(vn, n, i) == i \in 1 .. n - 1 /\ i \notin GoneIn(vn)

(* What an entry names is there.                                            *)
LEMMA EntryAt ==
    ASSUME NEW vn, NEW n, Table(vn, n), NEW d \in DirsIn(vn), NEW name \in Names
    PROVE  /\ TreeOf(vn)[d] = EntriesOf(vn, d) /\ EntriesOf(vn, d) \in EntrySets
           /\ MapIn(vn)[<<d, name>>] = At(EntriesOf(vn, d), name)
           /\ name \notin DOMAIN EntriesOf(vn, d) => MapIn(vn)[<<d, name>>] = 0
           /\ name \in DOMAIN EntriesOf(vn, d) =>
                 /\ Lives(vn, n, EntriesOf(vn, d)[name])
                 /\ MapIn(vn)[<<d, name>>] = EntriesOf(vn, d)[name]
<1> DEFINE es == EntriesOf(vn, d)
<1>1. d \in Ino /\ TreeOf(vn)[d] = es /\ es \in EntrySets
  BY DEF DirsIn, TreeOf, Table, TableOK
<1>2. <<d, name>> \in Slots /\ MapIn(vn)[<<d, name>>] = At(es, name)
  BY <1>1, SlotFacts DEF MapIn, MapOf
<1>3. ASSUME name \in DOMAIN es PROVE Lives(vn, n, es[name]) /\ MapIn(vn)[<<d, name>>] = es[name]
  <2>1. es[name] \in Ino /\ At(es, name) = es[name] /\ 0 \notin Ino
    BY <1>1, <1>3, EntryValues, WiredTypes DEF Table, TableWired
  <2>2. MapIn(vn) \in [Slots -> 0 .. n - 1] /\ n - 1 \in Nat
    BY WiredTypes DEF Table, TableWired, MapIn
  <2>3. es[name] \in 1 .. n - 1
    BY <1>2, <2>1, <2>2
  <2>4. es[name] \notin GoneIn(vn)
    <3>1. ASSUME NEW j \in GoneIn(vn) PROVE Named(MapIn(vn), j) = {}
      BY DEF Table, TableWired, Wired, MapIn
    <3>2. <<d, name>> \in Named(MapIn(vn), es[name])
      BY <1>2, <2>1, SlotFacts DEF Named
    <3> QED BY <3>1, <3>2
  <2> QED BY <1>2, <2>1, <2>3, <2>4 DEF Lives
<1>4. name \notin DOMAIN es => At(es, name) = 0
  BY DEF At
<1> QED BY <1>1, <1>2, <1>3, <1>4

(* A file gets a name.                                                      *)
LEMMA AddName ==
    ASSUME disk = DiskRead, NEW vn, NEW n, Table(vn, n),
           NEW d \in DirsIn(vn), NEW name \in Names, name \notin DOMAIN EntriesOf(vn, d),
           NEW i, Lives(vn, n, i), i \notin DirsIn(vn),
           NEW w, w = LinkEntry(vn, d, name, i)
    PROVE  Table(w, n) /\ SameFiles(w, vn) /\ TreeOf(w) = Grown(TreeOf(vn), d, name, i)
<1> USE DEF Grown, Changed
<1> DEFINE G == GoneIn(vn)
           s == <<d, name>>
<1>1. /\ TableOK(vn, n) /\ i \in 1 .. n - 1 /\ name \in AllNames /\ d \in Ino /\ i \in Ino
      /\ TreeOf(vn) \in [Ino -> EntrySets] /\ CountsIn(vn) \in [Ino -> Nat]
  BY TableTypes, SlotFacts DEF Table, Lives
<1>2. TableOK(w, n) /\ Linked(w, vn, d, name, i)
  BY <1>1, LinkEffect
<1>3. /\ TreeOf(w)[d] = Put(TreeOf(vn)[d], name, i)
      /\ \A j \in Ino \ {d} : TreeOf(w)[j] = TreeOf(vn)[j]
      /\ CountsIn(w)[i] = CountsIn(vn)[i] + 1
      /\ \A j \in Ino \ {i} : CountsIn(w)[j] = CountsIn(vn)[j]
  BY <1>1, <1>2 DEF Linked
<1>4. /\ At(TreeOf(w)[d], name) = i
      /\ \A x : x # name => At(TreeOf(w)[d], x) = At(TreeOf(vn)[d], x)
  BY <1>1, <1>3, PutEntries
<1>5. MapIn(w) = MapOf(TreeOf(w), G)
  BY <1>2 DEF MapIn, Linked
<1>6. MapIn(w)[s] = i /\ OnlyAt(MapIn(w), MapIn(vn), s, s, s)
  <2>1. /\ d \in Ino /\ name \in Names
        /\ \A j \in Ino \ {d} : TreeOf(w)[j] = TreeOf(vn)[j]
        /\ \A x : x # name => At(TreeOf(w)[d], x) = At(TreeOf(vn)[d], x)
    BY <1>1, <1>3, <1>4
  <2>2. /\ MapOf(TreeOf(w), G)[<<d, name>>] = At(TreeOf(w)[d], name)
        /\ MapOf(TreeOf(vn), G)[<<d, name>>] = At(TreeOf(vn)[d], name)
        /\ OnlyAt(MapOf(TreeOf(w), G), MapOf(TreeOf(vn), G), <<d, name>>, <<d, name>>, <<d, name>>)
    BY ONLY <2>1, MapChange
  <2> QED BY <1>4, <1>5, <2>2 DEF MapIn
<1>7. s \in Slots /\ s[1] \in DirsIn(vn) /\ s[2] \in Names /\ MapIn(vn)[s] = 0
  BY <1>1, EntryAt, SlotFacts
<1>8. MapIn(w) \in [Slots -> Nat] /\ CountsIn(w) \in [Ino -> Nat]
  BY <1>2, TableTypes DEF MapIn
<1>9. Wired(DirsIn(vn), G, CountsIn(vn), n, MapIn(vn)) /\ i \in (1 .. n - 1) \ G
  BY DEF Table, TableWired, MapIn, Lives
<1> HIDE DEF s
<1>10. Wired(DirsIn(vn), G, CountsIn(w), n, MapIn(w))
  BY <1>3, <1>6, <1>7, <1>8, <1>9, WiredAdd
<1>11. TableWired(w, n)
  BY <1>2, <1>10 DEF TableWired, MapIn, Linked, SameFiles
<1> QED BY <1>2, <1>11 DEF Table, Linked

(* A new file, or device, with its name.                                    *)
LEMMA AddFile ==
    ASSUME disk = DiskRead, NEW vn, NEW n, Table(vn, n), n <= MaxIno,
           NEW d \in DirsIn(vn), NEW name \in Names, name \notin DOMAIN EntriesOf(vn, d),
           NEW new \in VNode, new.kind \in {"file", "chr"}, ~new.base, ~new.deleted, new.data = <<>>,
           new.nlinks = 0,
           NEW w, w = LinkEntry(Changed(vn, n, new), d, name, n)
    PROVE  /\ Table(w, n + 1) /\ SameFiles(w, vn) /\ TreeOf(w) = Grown(TreeOf(vn), d, name, n)
           /\ n \in Ino /\ TreeOf(vn)[n] = <<>>
<1> DEFINE v == Changed(vn, n, new)
           D == DirsIn(vn)
           G == GoneIn(vn)
<1>1. new.kind # None /\ new.kind # "dir"
  BY OverlayAssumption
<1>2. /\ TableOK(v, n + 1) /\ DataIn(v) = DataIn(vn) /\ GoneIn(v) = G /\ DirsIn(v) = D
      /\ TreeOf(v) = Changed(TreeOf(vn), n, <<>>)
      /\ CountsIn(v) = Changed(CountsIn(vn), n, 0)
      /\ n \in Ino /\ TreeOf(vn)[n] = <<>> /\ CountsIn(vn)[n] = 0 /\ n \notin G
  BY <1>1, NewEffect DEF Table
<1>3. TreeOf(v) = TreeOf(vn) /\ CountsIn(v) = CountsIn(vn)
  BY <1>2 DEF TreeOf, CountsIn, Changed
<1>4. Wired(D, G, CountsIn(vn), n + 1, MapIn(vn))
  BY <1>2, WiredNew DEF Table, TableWired, MapIn
<1>5. Table(v, n + 1)
  BY <1>2, <1>3, <1>4 DEF Table, TableWired, MapIn
<1>6. d \in DirsIn(v) /\ EntriesOf(v, d) = EntriesOf(vn, d)
  <2>1. d \in Ino /\ d # n
    BY TableTypes DEF Table
  <2> QED BY <1>2, <2>1, <1>3 DEF TreeOf, DirsIn
<1>7. Lives(v, n + 1, n) /\ n \notin DirsIn(v)
  <2>1. n \in Nat /\ n # 0 /\ D \subseteq 1 .. n - 1
    BY <1>2, TableTypes DEF Table, Ino
  <2>2. n \in 1 .. (n + 1) - 1 /\ n \notin 1 .. n - 1
    BY <2>1
  <2> QED BY <1>2, <2>1, <2>2 DEF Lives
<1> HIDE DEF v
<1>8. w = LinkEntry(v, d, name, n) /\ name \notin DOMAIN EntriesOf(v, d)
  BY <1>6 DEF v
<1>9. Table(w, n + 1) /\ SameFiles(w, v) /\ TreeOf(w) = Grown(TreeOf(v), d, name, n)
  BY <1>5, <1>6, <1>7, <1>8, AddName
<1> QED BY <1>2, <1>3, <1>9 DEF SameFiles

(* A file loses a name.                                                     *)
LEMMA CutName ==
    ASSUME disk = DiskRead, NEW vn, NEW n, Table(vn, n),
           NEW d \in DirsIn(vn), NEW name \in Names, name \in DOMAIN EntriesOf(vn, d),
           EntriesOf(vn, d)[name] \notin DirsIn(vn),
           NEW w, w = UnlinkEntry(vn, d, name)
    PROVE  Table(w, n) /\ SameFiles(w, vn) /\ TreeOf(w) = Shrunk(TreeOf(vn), d, name)
<1> USE DEF Shrunk, Changed
<1> DEFINE i == EntriesOf(vn, d)[name]
           G == GoneIn(vn)
           s == <<d, name>>
<1>1. /\ TableOK(vn, n) /\ name \in AllNames /\ d \in Ino /\ 1 .. n - 1 \subseteq Ino
      /\ TreeOf(vn) \in [Ino -> EntrySets] /\ CountsIn(vn) \in [Ino -> Nat]
  BY TableTypes, SlotFacts DEF Table
<1>2. i \in 1 .. n - 1 /\ i \notin G /\ i \in Ino /\ MapIn(vn)[s] = i /\ i # 0
  BY <1>1, EntryAt, TableTypes DEF Lives
<1>3. TableOK(w, n) /\ Unlinked(w, vn, d, name, i)
  BY <1>1, <1>2, UnlinkEffect
<1>4. /\ TreeOf(w)[d] = Drop(TreeOf(vn)[d], name)
      /\ \A j \in Ino \ {d} : TreeOf(w)[j] = TreeOf(vn)[j]
      /\ CountsIn(w)[i] = Less(CountsIn(vn)[i])
      /\ \A j \in Ino \ {i} : CountsIn(w)[j] = CountsIn(vn)[j]
  BY <1>1, <1>2, <1>3 DEF Unlinked
<1>5. /\ At(TreeOf(w)[d], name) = 0
      /\ \A x : x # name => At(TreeOf(w)[d], x) = At(TreeOf(vn)[d], x)
  BY <1>1, <1>4, DropEntries
<1>6. s \in Slots /\ s[2] \in Names
  BY <1>1, SlotFacts
<1>7. Wired(DirsIn(vn), G, CountsIn(vn), n, MapIn(vn))
  BY DEF Table, TableWired, MapIn
<1>7a. MapOf(TreeOf(w), G)[s] = 0 /\ OnlyAt(MapOf(TreeOf(w), G), MapIn(vn), s, s, s)
  <2> DEFINE m == MapOf(TreeOf(vn), G)
             k == MapOf(TreeOf(w), G)
  <2>1. /\ d \in Ino /\ name \in Names /\ \A j \in Ino \ {d} : TreeOf(w)[j] = TreeOf(vn)[j]
        /\ \A x : x # name => At(TreeOf(w)[d], x) = At(TreeOf(vn)[d], x)
    BY <1>1, <1>4, <1>5
  <2>2. /\ MapOf(TreeOf(w), G)[<<d, name>>] = At(TreeOf(w)[d], name)
        /\ MapOf(TreeOf(vn), G)[<<d, name>>] = At(TreeOf(vn)[d], name)
        /\ OnlyAt(MapOf(TreeOf(w), G), MapOf(TreeOf(vn), G), <<d, name>>, <<d, name>>, <<d, name>>)
    BY ONLY <2>1, MapChange
  <2> QED BY <1>5, <2>2 DEF MapIn
<1>8. ASSUME NEW H, H = G \/ H = G \cup {i}
      PROVE  /\ MapOf(TreeOf(w), H)[s] = 0 /\ MapOf(TreeOf(w), H) \in [Slots -> Nat]
             /\ OnlyAt(MapOf(TreeOf(w), H), MapIn(vn), s, s, s)
  <2>1. MapOf(TreeOf(w), G)[s] = 0 /\ OnlyAt(MapOf(TreeOf(w), G), MapIn(vn), s, s, s)
    BY <1>7a
  <2>2. MapOf(TreeOf(w), H) = MapOf(TreeOf(w), G)
    <3>1. \A x : At(TreeOf(w)[i], x) = 0
      <4>1. TreeOf(w)[i] = <<>>
        BY <1>2, <1>3 DEF TreeOf, DirsIn, Unlinked, SameFiles
      <4> QED BY <4>1, NoEntries
    <3>2. ASSUME NEW r \in Slots PROVE MapOf(TreeOf(w), H)[r] = MapOf(TreeOf(w), G)[r]
      <4>1. CASE r[1] = i
        BY <3>1, <4>1 DEF MapOf
      <4>2. CASE r[1] # i
        <5>1. r[1] \in H <=> r[1] \in G
          BY <1>8, <4>2
        <5> QED BY <5>1 DEF MapOf
      <4> QED BY <4>1, <4>2
    <3> QED BY <3>2 DEF MapOf
  <2>3. MapOf(TreeOf(w), H) \in [Slots -> Nat]
    BY <1>3, TableTypes
  <2> QED BY <2>1, <2>2, <2>3
<1>9. CountsIn(w)[i] = CountsIn(vn)[i] - 1
  <2>1. Count(MapIn(vn), i) > 0
    <3>1. OnlyAt(MapIn(vn), MapIn(vn), s, s, s)
      BY DEF OnlyAt
    <3> QED BY <1>2, <1>6, <3>1, Reassign
  <2>2. CountsIn(vn)[i] = Count(MapIn(vn), i)
    BY <1>2, <1>7 DEF Wired
  <2> QED BY <1>4, <2>1, <2>2 DEF Less
<1>10. CountsIn(w) \in [Ino -> Nat] /\ i \notin DirsIn(vn)
  BY <1>3, TableTypes
<1>11. GoneIn(w) = G \/ (GoneIn(w) = G \cup {i} /\ CountsIn(w)[i] = 0)
  BY <1>3 DEF Unlinked
<1> HIDE DEF s, i
<1>12. Wired(DirsIn(vn), GoneIn(w), CountsIn(w), n, MapIn(w))
  <2>1. /\ MapIn(w)[s] = 0 /\ MapIn(w) \in [Slots -> Nat]
        /\ OnlyAt(MapIn(w), MapIn(vn), s, s, s)
    BY <1>8, <1>11 DEF MapIn
  <2> QED BY <1>2, <1>4, <1>6, <1>7, <1>9, <1>10, <1>11, <2>1, WiredCut
<1>13. TableWired(w, n)
  BY <1>3, <1>12 DEF TableWired, MapIn, Unlinked, SameFiles
<1> QED BY <1>3, <1>13 DEF Table, Unlinked

(* One slot of the map, and a change of at most three.                      *)
Pt(tree, j, x)     == At(tree[j], x)
Val(tree, G, j, x) == MapOf(tree, G)[<<j, x>>]

(* The map at a slot is the entry there, and 0 at the dots of a directory   *)
(* that is gone.                                                            *)
LEMMA MapAt ==
    ASSUME NEW tree, NEW G, NEW j \in Ino, NEW x \in AllNames
    PROVE  /\ x \in Names \/ j \notin G => Val(tree, G, j, x) = Pt(tree, j, x)
           /\ x \notin Names /\ j \in G => Val(tree, G, j, x) = 0
<1>1. <<j, x>> \in Slots
  BY SlotFacts
<1> QED BY <1>1 DEF MapOf, Val, Pt

(* Trees that differ in three entries have maps that differ in three slots. *)
LEMMA MapChange3 ==
    ASSUME NEW tree, NEW new, NEW G, NEW H,
           NEW d, NEW x, NEW e, NEW y, NEW i, NEW z,
           \A j \in Ino : \A r \in AllNames :
              \/ (j = d /\ r = x) \/ (j = e /\ r = y) \/ (j = i /\ r = z)
              \/ Pt(new, j, r) = Pt(tree, j, r) /\ (r \in Names \/ (j \in G <=> j \in H))
    PROVE  OnlyAt(MapOf(new, H), MapOf(tree, G), <<d, x>>, <<e, y>>, <<i, z>>)
<1> DEFINE E == {<<d, x>>, <<e, y>>, <<i, z>>}
<1>1. ASSUME NEW s \in Slots, s \notin E PROVE MapOf(new, H)[s] = MapOf(tree, G)[s]
  <2>1. PICK j \in Ino : \E r \in AllNames : s = <<j, r>>
    BY DEF Slots
  <2>2. PICK r \in AllNames : s = <<j, r>>
    BY <2>1
  <2>3. ~(j = d /\ r = x) /\ ~(j = e /\ r = y) /\ ~(j = i /\ r = z)
    BY <1>1, <2>2
  <2>4. Pt(new, j, r) = Pt(tree, j, r) /\ (r \in Names \/ (j \in G <=> j \in H))
    BY <2>3
  <2>5. Val(new, H, j, r) = Val(tree, G, j, r)
    BY <2>4, MapAt
  <2> QED BY <2>2, <2>5 DEF Val
<1> QED BY <1>1 DEF OnlyAt

(* One entry more or less, point by point.                                  *)
Trees == [Ino -> EntrySets]

(* A name put into a tree changes one entry.                                *)
LEMMA PutTree ==
    ASSUME NEW T, T \in Trees, NEW d \in Ino, NEW name \in AllNames, NEW i \in Ino,
           NEW j \in Ino, NEW x
    PROVE  /\ Grown(T, d, name, i) \in Trees
           /\ j = d /\ x = name => Pt(Grown(T, d, name, i), j, x) = i
           /\ j # d \/ x # name => Pt(Grown(T, d, name, i), j, x) = Pt(T, j, x)
<1>1. Put(T[d], name, i) \in EntrySets /\ \A y : At(Put(T[d], name, i), y) = IF y = name THEN i ELSE At(T[d], y)
  BY PutEntries DEF Trees
<1> QED BY <1>1 DEF Grown, Trees, Pt

(* A name dropped from a tree changes one entry.                            *)
LEMMA DropTree ==
    ASSUME NEW T, T \in Trees, NEW d \in Ino, NEW name \in AllNames, NEW j \in Ino, NEW x
    PROVE  /\ Shrunk(T, d, name) \in Trees
           /\ j = d /\ x = name => Pt(Shrunk(T, d, name), j, x) = 0
           /\ j # d \/ x # name => Pt(Shrunk(T, d, name), j, x) = Pt(T, j, x)
<1>1. Drop(T[d], name) \in EntrySets /\ \A y : At(Drop(T[d], name), y) = IF y = name THEN 0 ELSE At(T[d], y)
  BY DropEntries DEF Trees
<1> QED BY <1>1 DEF Shrunk, Trees, Pt

(* What a name points at, or its "..", is counted.                          *)
LEMMA Counted ==
    ASSUME NEW vn, NEW n, Table(vn, n), NEW s \in Slots, NEW i, MapIn(vn)[s] = i, Lives(vn, n, i)
    PROVE  CountsIn(vn)[i] \in Nat /\ CountsIn(vn)[i] > 0
<1>1. OnlyAt(MapIn(vn), MapIn(vn), s, s, s)
  BY DEF OnlyAt
<1>2. Count(MapIn(vn), i) \in Nat /\ Count(MapIn(vn), i) > 0
  BY <1>1, Reassign
<1>3. CountsIn(vn)[i] = Count(MapIn(vn), i)
  BY DEF Table, TableWired, Wired, Lives, MapIn
<1> QED BY <1>2, <1>3

(* A file gets another name: a new one first, then it loses the old one.    *)
LEMMA MoveFile ==
    ASSUME disk = DiskRead, NEW vn, NEW n, Table(vn, n),
           NEW d \in DirsIn(vn), NEW name \in Names, name \in DOMAIN EntriesOf(vn, d),
           NEW e \in DirsIn(vn), NEW new \in Names, new \notin DOMAIN EntriesOf(vn, e),
           NEW i, i = EntriesOf(vn, d)[name], i \notin DirsIn(vn),
           NEW w, w = UnlinkEntry(LinkEntry(vn, e, new, i), d, name)
    PROVE  /\ Table(w, n) /\ SameFiles(w, vn)
           /\ TreeOf(w) = Shrunk(Grown(TreeOf(vn), e, new, i), d, name)
<1> DEFINE v == LinkEntry(vn, e, new, i)
<1>1. Lives(vn, n, i) /\ TreeOf(vn)[d] = EntriesOf(vn, d) /\ EntriesOf(vn, d) \in EntrySets
  BY EntryAt
<1>2. Table(v, n) /\ SameFiles(v, vn) /\ TreeOf(v) = Grown(TreeOf(vn), e, new, i)
  BY <1>1, AddName
<1>3. d \in DirsIn(v) /\ e \in Ino /\ d \in Ino /\ TreeOf(vn) \in [Ino -> EntrySets]
  BY <1>2, TableTypes DEF SameFiles, Table
<1>4. name \in DOMAIN EntriesOf(v, d) /\ EntriesOf(v, d)[name] = i
  <2>1. EntriesOf(v, d) = TreeOf(v)[d]
    BY <1>3 DEF TreeOf, DirsIn
  <2>2. CASE d = e
    <3>1. EntriesOf(v, d) = Put(EntriesOf(vn, d), new, i) /\ name # new
      BY <1>1, <1>2, <1>3, <2>1, <2>2 DEF Grown
    <3> QED BY <3>1 DEF Put
  <2>3. CASE d # e
    <3>1. EntriesOf(v, d) = EntriesOf(vn, d)
      BY <1>1, <1>2, <1>3, <2>1, <2>3 DEF Grown
    <3> QED BY <3>1
  <2> QED BY <2>2, <2>3
<1>5. w = UnlinkEntry(v, d, name) /\ EntriesOf(v, d)[name] \notin DirsIn(v)
  BY <1>2, <1>4 DEF SameFiles
<1> HIDE DEF v
<1>6. Table(w, n) /\ SameFiles(w, v) /\ TreeOf(w) = Shrunk(TreeOf(v), d, name)
  <2>1. /\ disk = DiskRead /\ Table(v, n) /\ d \in DirsIn(v) /\ name \in Names
        /\ name \in DOMAIN EntriesOf(v, d) /\ EntriesOf(v, d)[name] \notin DirsIn(v)
        /\ w = UnlinkEntry(v, d, name)
    BY <1>2, <1>3, <1>4, <1>5
  <2> QED BY ONLY <2>1, CutName
<1> QED BY <1>2, <1>6 DEF SameFiles

(* A new directory.                                                         *)
DotsOf(i, d) == [m \in {".", ".."} |-> IF m = "." THEN i ELSE d]
NewDir(i, d) == [NewInode("dir") EXCEPT !.data = None, !.nlinks = 1, !.entries = DotsOf(i, d)]

(* What mkdir makes is a directory with its two dots.                       *)
LEMMA NewDirType ==
    ASSUME NEW i \in Ino, NEW d \in Ino
    PROVE  /\ NewDir(i, d) \in VNode /\ NewDir(i, d).kind = "dir" /\ NewDir(i, d).kind # None
           /\ ~NewDir(i, d).base /\ ~NewDir(i, d).deleted /\ NewDir(i, d).nlinks = 1
           /\ NewDir(i, d).entries = DotsOf(i, d) /\ DotsOf(i, d) \in EntrySets
           /\ "." \in DOMAIN DotsOf(i, d) /\ ".." \in DOMAIN DotsOf(i, d)
           /\ \A x : At(DotsOf(i, d), x) = IF x = "." THEN i ELSE IF x = ".." THEN d ELSE 0
<1>1. DotsOf(i, d) \in [{".", ".."} -> Ino] /\ {".", ".."} \in SUBSET AllNames
  BY DEF DotsOf, AllNames
<1>2. DotsOf(i, d) \in EntrySets
  BY <1>1 DEF EntrySets
<1>3. None # "dir"
  BY OverlayAssumption
<1>4. NewDir(i, d) \in VNode
  BY <1>2 DEF NewDir, NewInode, NoInode, VNode
<1> QED BY <1>2, <1>3, <1>4 DEF NewDir, NewInode, NoInode, DotsOf, At

(* mkdir gives a table, whose tree has the directory under its name.        *)
LEMMA MakeDir ==
    ASSUME disk = DiskRead, NEW vn, NEW n, Table(vn, n), n <= MaxIno,
           NEW d \in DirsIn(vn), NEW name \in Names, name \notin DOMAIN EntriesOf(vn, d),
           NEW v, v = Changed(vn, n, NewDir(n, d)), NEW w, w = LinkEntry(WithCount(v, d, v[d].nlinks + 1), d, name, n)
    PROVE  /\ Table(w, n + 1) /\ DataIn(w) = DataIn(vn)
           /\ TreeOf(w) = Grown(Changed(TreeOf(vn), n, DotsOf(n, d)), d, name, n)
           /\ n \in Ino /\ n # d /\ TreeOf(vn)[n] = <<>>
<1> DEFINE u == WithCount(v, d, v[d].nlinks + 1)
           D == DirsIn(vn)
           G == GoneIn(vn)
<1>1. /\ TableOK(vn, n) /\ n \in Nat /\ n \in NInodes + 1 .. MaxIno + 1 /\ d \in 1 .. n - 1 /\ d \in Ino
      /\ Ino \subseteq Nat /\ name \in AllNames /\ D \subseteq 1 .. n - 1
      /\ TreeOf(vn) \in [Ino -> EntrySets] /\ CountsIn(vn) \in [Ino -> Nat]
  BY TableTypes, SlotFacts DEF Table, TableOK
<1>2. n \in Ino /\ n # d /\ d \in 1 .. (n + 1) - 1 /\ n \in 1 .. (n + 1) - 1 /\ n \notin D /\ n # 0
  BY <1>1, OverlayAssumption DEF Ino, MaxIno
<1>3. /\ TableOK(v, n + 1) /\ DataIn(v) = DataIn(vn) /\ GoneIn(v) = G /\ DirsIn(v) = D \cup {n}
      /\ TreeOf(v) = Changed(TreeOf(vn), n, DotsOf(n, d))
      /\ CountsIn(v) = Changed(CountsIn(vn), n, 1)
      /\ TreeOf(vn)[n] = <<>> /\ CountsIn(vn)[n] = 0 /\ n \notin G
  <2> DEFINE new == NewDir(n, d)
             es  == DotsOf(n, d)
  <2>1. /\ new \in VNode /\ new.kind = "dir" /\ new.kind # None /\ new.kind # "file"
        /\ ~new.base /\ ~new.deleted /\ new.nlinks = 1 /\ new.entries = es
        /\ es \in EntrySets /\ "." \in DOMAIN es /\ ".." \in DOMAIN es
    BY <1>1, <1>2, NewDirType
  <2>2. v = Changed(vn, n, new) /\ TableOK(vn, n) /\ n <= MaxIno
    BY <1>1
  <2> HIDE DEF new, es
  <2>3. es = IF new.kind = "dir" THEN new.entries ELSE <<>>
    BY <2>1
  <2>4. /\ TableOK(v, n + 1) /\ DataIn(v) = DataIn(vn) /\ GoneIn(v) = G
        /\ DirsIn(v) = IF new.kind = "dir" THEN D \cup {n} ELSE D
        /\ TreeOf(v) = Changed(TreeOf(vn), n, es)
        /\ CountsIn(v) = Changed(CountsIn(vn), n, new.nlinks)
        /\ TreeOf(vn)[n] = <<>> /\ CountsIn(vn)[n] = 0 /\ n \notin G
    BY ONLY <2>1, <2>2, <2>3, NewEffect
  <2> QED BY <2>1, <2>4 DEF es
<1>4. v[d].nlinks \in Nat /\ v[d].nlinks = CountsIn(vn)[d] /\ v[d].nlinks + 1 \in Nat
  <2>1. v[d].nlinks = CountsIn(v)[d]
    BY <1>1 DEF CountsIn
  <2>2. CountsIn(v)[d] = CountsIn(vn)[d] /\ CountsIn(vn)[d] \in Nat
    BY <1>1, <1>2, <1>3 DEF Changed
  <2> QED BY <2>1, <2>2
<1>5. /\ TableOK(u, n + 1) /\ SameFiles(u, v) /\ GoneIn(u) = GoneIn(v) /\ TreeOf(u) = TreeOf(v)
      /\ CountsIn(u) = Changed(CountsIn(v), d, v[d].nlinks + 1)
  <2> DEFINE c == v[d].nlinks + 1
  <2>1. TableOK(v, n + 1) /\ d \in 1 .. (n + 1) - 1 /\ c \in Nat /\ u = WithCount(v, d, c)
    BY <1>2, <1>3, <1>4
  <2> HIDE DEF c, u
  <2>2. /\ TableOK(u, n + 1) /\ SameFiles(u, v) /\ GoneIn(u) = GoneIn(v) /\ TreeOf(u) = TreeOf(v)
        /\ CountsIn(u) = Changed(CountsIn(v), d, c)
    BY ONLY <2>1, CountEffect
  <2> QED BY <2>2 DEF c
<1>6. w = LinkEntry(u, d, name, n)
  OBVIOUS
<1> HIDE DEF u
<1>7. d \in DirsIn(u) /\ DirsIn(u) = D \cup {n} /\ GoneIn(u) = G /\ DataIn(u) = DataIn(vn)
  BY <1>3, <1>5 DEF SameFiles
<1>8. TableOK(w, n + 1) /\ Linked(w, u, d, name, n)
  BY <1>1, <1>2, <1>5, <1>6, <1>7, LinkEffect
<1>9. /\ DirsIn(w) = D \cup {n} /\ GoneIn(w) = G /\ DataIn(w) = DataIn(vn)
      /\ TreeOf(w) = Grown(TreeOf(v), d, name, n)
      /\ CountsIn(w) = Changed(CountsIn(u), n, CountsIn(u)[n] + 1)
  BY <1>5, <1>7, <1>8 DEF Linked, SameFiles
<1>10. TreeOf(w) = Grown(Changed(TreeOf(vn), n, DotsOf(n, d)), d, name, n)
  BY <1>1, <1>2, <1>3, <1>9
<1>11. /\ CountsIn(w)[n] = 2 /\ CountsIn(w)[d] = CountsIn(vn)[d] + 1
       /\ \A j \in Ino : j # n /\ j # d => CountsIn(w)[j] = CountsIn(vn)[j]
  <2>1. CountsIn(v)[n] = 1 /\ \A j \in Ino \ {n} : CountsIn(v)[j] = CountsIn(vn)[j]
    BY <1>1, <1>2, <1>3 DEF Changed
  <2>2. DOMAIN CountsIn(v) = Ino /\ DOMAIN CountsIn(u) = Ino
    BY DEF CountsIn
  <2>3. CountsIn(u)[d] = CountsIn(vn)[d] + 1 /\ \A j \in Ino \ {d} : CountsIn(u)[j] = CountsIn(v)[j]
    BY <1>1, <1>4, <1>5, <2>2 DEF Changed
  <2>4. CountsIn(w)[n] = CountsIn(u)[n] + 1 /\ \A j \in Ino \ {n} : CountsIn(w)[j] = CountsIn(u)[j]
    BY <1>2, <1>9, <2>2 DEF Changed
  <2> QED BY <1>1, <1>2, <2>1, <2>3, <2>4
<1>12. Counts(CountsIn(w), CountsIn(vn), G \cup {n}, d, 0)
  <2>1. ASSUME NEW j \in Ino, j # n
        PROVE  CountsIn(w)[j] = CountsIn(vn)[j] + One(d, j) - One(0, j)
    <3>1. CountsIn(vn)[j] \in Nat /\ j # 0
      BY <1>1 DEF Ino
    <3>2. CountsIn(w)[j] = IF j = d THEN CountsIn(vn)[j] + 1 ELSE CountsIn(vn)[j]
      BY <1>11, <2>1
    <3>3. One(0, j) = 0 /\ One(d, j) = IF j = d THEN 1 ELSE 0
      BY <3>1 DEF One
    <3> QED BY <3>1, <3>2, <3>3
  <2> QED BY <2>1 DEF Counts
<1>13. TreeOf(v) \in [Ino -> EntrySets] /\ \A j \in Ino : \A x : Pt(TreeOf(v), j, x) =
          IF j = n THEN (IF x = "." THEN n ELSE IF x = ".." THEN d ELSE 0) ELSE Pt(TreeOf(vn), j, x)
  <2>1. DotsOf(n, d) \in EntrySets
        /\ \A x : At(DotsOf(n, d), x) = IF x = "." THEN n ELSE IF x = ".." THEN d ELSE 0
    BY <1>1, <1>2, NewDirType
  <2>2. TreeOf(v)[n] = DotsOf(n, d) /\ \A j \in Ino \ {n} : TreeOf(v)[j] = TreeOf(vn)[j]
    BY <1>1, <1>2, <1>3 DEF Changed
  <2>3. TreeOf(v) \in [Ino -> EntrySets]
    BY <1>1, <1>3, <2>1 DEF Changed
  <2> QED BY <2>1, <2>2, <2>3 DEF Pt
<1>14. \A j \in Ino : \A x : Pt(TreeOf(w), j, x) =
          IF j = d /\ x = name THEN n
          ELSE IF j = n THEN (IF x = "." THEN n ELSE IF x = ".." THEN d ELSE 0) ELSE Pt(TreeOf(vn), j, x)
  <2>1. TreeOf(v) \in Trees /\ d \in Ino /\ name \in AllNames /\ n \in Ino
    BY <1>1, <1>2, <1>13 DEF Trees
  <2>2. TreeOf(w) = Grown(TreeOf(v), d, name, n)
    BY <1>9
  <2>3. \A j \in Ino : \A x : Pt(TreeOf(w), j, x) = IF j = d /\ x = name THEN n ELSE Pt(TreeOf(v), j, x)
    BY <2>1, <2>2, PutTree
  <2> QED BY <1>13, <2>3
<1>15. /\ MapIn(w)[<<d, name>>] = n /\ MapIn(w)[<<n, ".">>] = n /\ MapIn(w)[<<n, "..">>] = d
  <2>1. n \notin GoneIn(w) /\ "." \in AllNames /\ ".." \in AllNames /\ "." # ".." /\ n # d
    BY <1>2, <1>3, <1>9, SlotFacts
  <2>2. /\ Pt(TreeOf(w), d, name) = n /\ Pt(TreeOf(w), n, ".") = n /\ Pt(TreeOf(w), n, "..") = d
    BY <1>1, <1>2, <1>14, <2>1
  <2>3. Val(TreeOf(w), GoneIn(w), d, name) = n
    BY <1>1, <2>2, MapAt
  <2>4. Val(TreeOf(w), GoneIn(w), n, ".") = n
    BY <1>2, <2>1, <2>2, MapAt
  <2>5. Val(TreeOf(w), GoneIn(w), n, "..") = d
    BY <1>2, <2>1, <2>2, MapAt
  <2> QED BY <2>3, <2>4, <2>5 DEF Val, MapIn
<1>16. OnlyAt(MapIn(w), MapIn(vn), <<d, name>>, <<n, ".">>, <<n, "..">>)
  <2>1. \A x : Pt(TreeOf(vn), n, x) = 0
    BY <1>3, NoEntries DEF Pt
  <2>2. \A j \in Ino : \A r \in AllNames :
              \/ (j = d /\ r = name) \/ (j = n /\ r = ".") \/ (j = n /\ r = "..")
              \/ Pt(TreeOf(w), j, r) = Pt(TreeOf(vn), j, r) /\ (r \in Names \/ (j \in G <=> j \in G))
    BY <1>14, <2>1
  <2>3. OnlyAt(MapOf(TreeOf(w), G), MapOf(TreeOf(vn), G), <<d, name>>, <<n, ".">>, <<n, "..">>)
    BY ONLY <2>2, MapChange3
  <2> QED BY <1>9, <2>3 DEF MapIn
<1>17. Wired(D, G, CountsIn(vn), n, MapIn(vn)) /\ MapIn(vn)[<<d, name>>] = 0
  BY EntryAt DEF Table, TableWired, MapIn
<1>18. MapIn(w) \in [Slots -> Nat] /\ CountsIn(w) \in [Ino -> Nat]
  BY <1>8, TableTypes DEF MapIn
<1>19. Wired(D \cup {n}, G, CountsIn(w), n + 1, MapIn(w))
  BY <1>11, <1>12, <1>15, <1>16, <1>17, <1>18, WiredMkdir
<1>20. TableWired(w, n + 1)
  BY <1>9, <1>19 DEF TableWired, MapIn
<1> QED BY <1>2, <1>3, <1>8, <1>9, <1>10, <1>20 DEF Table

(* An empty directory goes.                                                 *)
LEMMA DropDir ==
    ASSUME disk = DiskRead, NEW vn, NEW n, Table(vn, n),
           NEW d \in DirsIn(vn), NEW name \in Names, name \in DOMAIN EntriesOf(vn, d),
           NEW i, i = EntriesOf(vn, d)[name], i \in DirsIn(vn), DOMAIN EntriesOf(vn, i) \subseteq {".", ".."},
           NEW w, w = RemoveDir(vn, d, name)
    PROVE  /\ Table(w, n) /\ SameFiles(w, vn) /\ TreeOf(w) = Shrunk(TreeOf(vn), d, name) /\ d # i
<1> DEFINE a == Copied(vn, i)
           b == UnlinkEntry(a, d, name)
           c == WithCount(b, d, Less(b[d].nlinks))
           D == DirsIn(vn)
           G == GoneIn(vn)
           H == G \cup {i}
           m == MapIn(vn)
<1>1. /\ TableOK(vn, n) /\ n \in Nat /\ D \subseteq 1 .. n - 1 /\ D \subseteq Ino /\ Ino \subseteq Nat
      /\ d \in 1 .. n - 1 /\ d \in Ino /\ i \in 1 .. n - 1 /\ i \in Ino /\ name \in AllNames
      /\ TreeOf(vn) \in Trees /\ CountsIn(vn) \in [Ino -> Nat] /\ Wired(D, G, CountsIn(vn), n, m)
  BY TableTypes, SlotFacts DEF Table, TableWired, MapIn, Trees
<1>2. m[<<d, name>>] = i /\ HasDir(D, G, m, d, name, i)
  BY <1>1, EntryAt, WiredParent
<1>3. i \notin G /\ i # ROOT /\ m[<<i, ".">>] = i /\ m[<<i, "..">>] = d
  BY <1>2 DEF HasDir
<1>4. ASSUME NEW nm \in Names PROVE m[<<i, nm>>] = 0
  <2>1. nm \notin DOMAIN EntriesOf(vn, i)
    BY SlotFacts
  <2> QED BY <2>1, EntryAt
<1>5. d # i
  <2>1. m[<<d, name>>] # 0
    BY <1>1, <1>2 DEF HasDir
  <2> QED BY <1>4, <2>1
<1>6. /\ TableOK(a, n) /\ SameFiles(a, vn) /\ GoneIn(a) = G /\ TreeOf(a) = TreeOf(vn)
      /\ CountsIn(a) = CountsIn(vn) /\ EntriesOf(a, d) = EntriesOf(vn, d) /\ DirsIn(a) = D
  BY <1>1, CopyEffect DEF SameFiles
<1>7. EntriesIn(vn, d)[name] = i
  BY EntriesAre
<1>8. w = Dead(c, i)
  BY <1>7, <1>5 DEF RemoveDir, Dead, WithCount, Copied
<1> HIDE DEF a
<1>9. TableOK(b, n) /\ Unlinked(b, a, d, name, i)
  <2>1. /\ disk = DiskRead /\ TableOK(a, n) /\ d \in DirsIn(a) /\ name \in Names /\ i \in 1 .. n - 1
        /\ EntriesOf(a, d)[name] = i
    BY <1>1, <1>6
  <2> QED BY ONLY <2>1, UnlinkEffect
<1> HIDE DEF b
<1>10. /\ SameFiles(b, vn) /\ TreeOf(b) = Shrunk(TreeOf(vn), d, name) /\ GoneIn(b) \cup {i} = H
       /\ CountsIn(b) = Changed(CountsIn(vn), i, Less(CountsIn(vn)[i]))
  BY <1>6, <1>9 DEF Unlinked, SameFiles
<1>11. b[d].nlinks = CountsIn(b)[d] /\ CountsIn(b) \in [Ino -> Nat]
  BY <1>1, <1>9, TableTypes DEF CountsIn
<1>12. Less(b[d].nlinks) \in Nat
  BY <1>1, <1>11 DEF Less
<1>13. /\ TableOK(c, n) /\ SameFiles(c, b) /\ GoneIn(c) = GoneIn(b) /\ TreeOf(c) = TreeOf(b)
       /\ CountsIn(c) = Changed(CountsIn(b), d, Less(b[d].nlinks))
  BY <1>1, <1>9, <1>12, CountEffect
<1> HIDE DEF c
<1>14. /\ TableOK(w, n) /\ SameFiles(w, c) /\ GoneIn(w) = GoneIn(c) \cup {i}
       /\ TreeOf(w) = TreeOf(c) /\ CountsIn(w) = Changed(CountsIn(c), i, 0)
  BY <1>1, <1>8, <1>13, GoneEffect
<1>15. /\ SameFiles(w, vn) /\ GoneIn(w) = H /\ TreeOf(w) = Shrunk(TreeOf(vn), d, name) /\ DirsIn(w) = D
  BY <1>10, <1>13, <1>14 DEF SameFiles
<1>16. ASSUME NEW j \in Ino, j # i
       PROVE  CountsIn(w)[j] = IF j = d THEN Less(CountsIn(vn)[j]) ELSE CountsIn(vn)[j]
  <2>1. CountsIn(b)[j] = CountsIn(vn)[j]
    BY <1>1, <1>10, <1>16 DEF Changed
  <2>2. DOMAIN CountsIn(b) = Ino /\ DOMAIN CountsIn(c) = Ino
    BY DEF CountsIn
  <2>3. CountsIn(c)[j] = IF j = d THEN Less(b[d].nlinks) ELSE CountsIn(b)[j]
    BY <1>13, <2>2 DEF Changed
  <2>4. CountsIn(w)[j] = CountsIn(c)[j]
    BY <1>14, <1>16, <2>2 DEF Changed
  <2> QED BY <1>11, <2>1, <2>3, <2>4
<1>17. Counts(CountsIn(w), CountsIn(vn), H, 0, d)
  <2>1. ASSUME NEW j \in Ino, j \notin H
        PROVE  CountsIn(w)[j] = CountsIn(vn)[j] + One(0, j) - One(d, j)
    <3>1. CountsIn(vn)[j] \in Nat /\ j # 0 /\ j # i /\ j \notin G
      BY <1>1, <2>1 DEF Ino
    <3>2. One(0, j) = 0 /\ One(d, j) = IF j = d THEN 1 ELSE 0
      BY <3>1 DEF One
    <3>3. j = d => CountsIn(vn)[j] > 0
      <4>1. <<i, "..">> \in Slots /\ (j = d => Lives(vn, n, j))
        BY <1>1, <3>1, SlotFacts DEF Lives
      <4> QED BY <1>3, <4>1, Counted
    <3> QED BY <1>16, <3>1, <3>2, <3>3 DEF Less
  <2> QED BY <2>1 DEF Counts
<1>18. ASSUME NEW j \in Ino, NEW x
       PROVE  Pt(TreeOf(w), j, x) = IF j = d /\ x = name THEN 0 ELSE Pt(TreeOf(vn), j, x)
  BY <1>1, <1>15, DropTree
<1>19. /\ MapIn(w)[<<d, name>>] = 0 /\ MapIn(w)[<<i, ".">>] = 0 /\ MapIn(w)[<<i, "..">>] = 0
  <2>1. i \in GoneIn(w) /\ "." \in AllNames /\ ".." \in AllNames /\ "." \notin Names /\ ".." \notin Names
    BY <1>15, SlotFacts
  <2>2. Pt(TreeOf(w), d, name) = 0
    BY <1>1, <1>18
  <2>3. Val(TreeOf(w), GoneIn(w), d, name) = 0
    <3>1. d \in Ino /\ name \in AllNames /\ name \in Names
      BY <1>1
    <3> QED BY ONLY <3>1, <2>2, MapAt
  <2>4. Val(TreeOf(w), GoneIn(w), i, ".") = 0
    BY <1>1, <2>1, MapAt
  <2>5. Val(TreeOf(w), GoneIn(w), i, "..") = 0
    BY <1>1, <2>1, MapAt
  <2> QED BY <2>3, <2>4, <2>5 DEF Val, MapIn
<1>20. OnlyAt(MapIn(w), m, <<d, name>>, <<i, ".">>, <<i, "..">>)
  <2>1. \A j \in Ino : \A r \in AllNames :
              \/ (j = d /\ r = name) \/ (j = i /\ r = ".") \/ (j = i /\ r = "..")
              \/ Pt(TreeOf(w), j, r) = Pt(TreeOf(vn), j, r) /\ (r \in Names \/ (j \in G <=> j \in H))
    BY <1>18, SlotFacts
  <2>2. OnlyAt(MapOf(TreeOf(w), H), MapOf(TreeOf(vn), G), <<d, name>>, <<i, ".">>, <<i, "..">>)
    BY ONLY <2>1, MapChange3
  <2> QED BY <1>15, <2>2 DEF MapIn
<1>21. MapIn(w) \in [Slots -> Nat] /\ CountsIn(w) \in [Ino -> Nat]
  BY <1>14, TableTypes DEF MapIn
<1> HIDE DEF m
<1>22. Wired(D, H, CountsIn(w), n, MapIn(w))
  BY <1>1, <1>2, <1>4, <1>17, <1>19, <1>20, <1>21, WiredCutDir
<1>23. TableWired(w, n)
  BY <1>15, <1>22 DEF TableWired, MapIn
<1> QED BY <1>5, <1>14, <1>15, <1>23 DEF Table

(* A directory gets another name, and when it changes its parent another    *)
(* "..".                                                                    *)
LEMMA MoveDir ==
    ASSUME disk = DiskRead, NEW vn, NEW n, Table(vn, n),
           NEW d \in DirsIn(vn), NEW name \in Names, name \in DOMAIN EntriesOf(vn, d),
           NEW e \in DirsIn(vn), NEW new \in Names, new \notin DOMAIN EntriesOf(vn, e),
           NEW i, i = EntriesOf(vn, d)[name], i \in DirsIn(vn),
           NEW u, u = UnlinkEntry(LinkEntry(vn, e, new, i), d, name),
           NEW x, x = LinkEntry(u, i, "..", e),
           NEW w, w = IF d # e THEN WithCount(x, d, Less(x[d].nlinks)) ELSE u
    PROVE  /\ Table(w, n) /\ SameFiles(w, vn)
           /\ TreeOf(w) = Grown(Shrunk(Grown(TreeOf(vn), e, new, i), d, name), i, "..", e)
<1> DEFINE v == LinkEntry(vn, e, new, i)
           D == DirsIn(vn)
           G == GoneIn(vn)
           m == MapIn(vn)
           T1 == Grown(TreeOf(vn), e, new, i)
           T2 == Shrunk(T1, d, name)
           T3 == Grown(T2, i, "..", e)
<1>1. /\ TableOK(vn, n) /\ n \in Nat /\ D \subseteq 1 .. n - 1 /\ D \subseteq Ino /\ Ino \subseteq Nat
      /\ d \in 1 .. n - 1 /\ d \in Ino /\ i \in 1 .. n - 1 /\ i \in Ino /\ e \in 1 .. n - 1 /\ e \in Ino
      /\ name \in AllNames /\ new \in AllNames /\ ".." \in AllNames /\ "." \in AllNames
      /\ ".." \notin Names /\ "." \notin Names
      /\ TreeOf(vn) \in Trees /\ CountsIn(vn) \in [Ino -> Nat] /\ Wired(D, G, CountsIn(vn), n, m)
  BY TableTypes, SlotFacts DEF Table, TableWired, MapIn, Trees
<1>2. m[<<d, name>>] = i /\ HasDir(D, G, m, d, name, i) /\ m[<<e, new>>] = 0
  BY <1>1, EntryAt, WiredParent
<1>3. i \notin G /\ i # ROOT /\ m[<<i, "..">>] = d /\ Lives(vn, n, i)
  BY <1>1, <1>2 DEF HasDir, Lives
<1>4. TableOK(v, n) /\ Linked(v, vn, e, new, i)
  BY <1>1, LinkEffect
<1>5. /\ TreeOf(vn)[d] = EntriesOf(vn, d) /\ TreeOf(vn)[e] = EntriesOf(vn, e)
      /\ EntriesOf(vn, d) \in EntrySets /\ EntriesOf(vn, e) \in EntrySets
  BY EntryAt
<1>6. d \in DirsIn(v) /\ name \in DOMAIN EntriesOf(v, d) /\ EntriesOf(v, d)[name] = i
  <2>1. d \in DirsIn(v) /\ EntriesOf(v, d) = TreeOf(v)[d]
    BY <1>1, <1>4 DEF TreeOf, DirsIn, Linked, SameFiles
  <2>2. CASE d = e
    <3>1. EntriesOf(v, d) = Put(EntriesOf(vn, d), new, i) /\ name # new
      BY <1>1, <1>4, <1>5, <2>1, <2>2 DEF Grown, Linked, Trees
    <3> QED BY <2>1, <3>1 DEF Put
  <2>3. CASE d # e
    <3>1. EntriesOf(v, d) = EntriesOf(vn, d)
      BY <1>1, <1>4, <1>5, <2>1, <2>3 DEF Grown, Linked, Trees
    <3> QED BY <2>1, <3>1
  <2> QED BY <2>2, <2>3
<1> HIDE DEF v
<1>7. TableOK(u, n) /\ Unlinked(u, v, d, name, i)
  <2>1. /\ disk = DiskRead /\ TableOK(v, n) /\ d \in DirsIn(v) /\ name \in Names /\ i \in 1 .. n - 1
        /\ EntriesOf(v, d)[name] = i /\ u = UnlinkEntry(v, d, name)
    BY <1>1, <1>4, <1>6 DEF v
  <2> QED BY ONLY <2>1, UnlinkEffect
<1>8. CountsIn(u) = CountsIn(vn) /\ CountsIn(u)[i] # 0
  <2>1. <<d, name>> \in Slots
    BY <1>1, SlotFacts
  <2>2. CountsIn(vn)[i] \in Nat /\ CountsIn(vn)[i] > 0
    BY <1>2, <1>3, <2>1, Counted
  <2>3. CountsIn(v)[i] = CountsIn(vn)[i] + 1 /\ \A j \in Ino \ {i} : CountsIn(v)[j] = CountsIn(vn)[j]
    BY <1>1, <1>4 DEF Linked, Changed
  <2>4. DOMAIN CountsIn(v) = Ino /\ DOMAIN CountsIn(vn) = Ino /\ DOMAIN CountsIn(u) = Ino
    BY DEF CountsIn
  <2>5. CountsIn(u)[i] = Less(CountsIn(v)[i]) /\ \A j \in Ino \ {i} : CountsIn(u)[j] = CountsIn(v)[j]
    BY <1>1, <1>7, <2>4 DEF Unlinked, Changed
  <2>6. CountsIn(u)[i] = CountsIn(vn)[i]
    BY <2>2, <2>3, <2>5 DEF Less
  <2>7. \A j \in Ino : CountsIn(u)[j] = CountsIn(vn)[j]
    BY <2>3, <2>5, <2>6
  <2> QED BY <2>2, <2>6, <2>7 DEF CountsIn
<1>9. SameFiles(u, vn) /\ GoneIn(u) = G /\ TreeOf(u) = T2 /\ DirsIn(u) = D
  BY <1>4, <1>7, <1>8 DEF Unlinked, Linked, SameFiles
<1>10. T1 \in Trees /\ T2 \in Trees /\ T3 \in Trees
  <2>1. T1 \in Trees
    BY <1>1, PutTree
  <2>2. T2 \in Trees
    BY <1>1, <2>1, DropTree
  <2>3. T3 \in Trees
    BY <1>1, <2>2, PutTree
  <2> QED BY <2>1, <2>2, <2>3
<1>11. ASSUME NEW j \in Ino, NEW y
       PROVE  Pt(T3, j, y) = IF j = i /\ y = ".." THEN e
                             ELSE IF j = d /\ y = name THEN 0
                             ELSE IF j = e /\ y = new THEN i ELSE Pt(TreeOf(vn), j, y)
  <2>1. Pt(T1, j, y) = IF j = e /\ y = new THEN i ELSE Pt(TreeOf(vn), j, y)
    <3>1. TreeOf(vn) \in Trees /\ e \in Ino /\ new \in AllNames /\ i \in Ino /\ j \in Ino
      BY <1>1, <1>11
    <3> QED BY ONLY <3>1, PutTree
  <2> HIDE DEF T1
  <2>2. Pt(T2, j, y) = IF j = d /\ y = name THEN 0 ELSE Pt(T1, j, y)
    BY <1>1, <1>10, DropTree
  <2> HIDE DEF T2
  <2>3. Pt(T3, j, y) = IF j = i /\ y = ".." THEN e ELSE Pt(T2, j, y)
    <3>1. T2 \in Trees /\ e \in Ino /\ ".." \in AllNames /\ i \in Ino /\ j \in Ino
      BY <1>1, <1>10, <1>11
    <3> QED BY ONLY <3>1, PutTree
  <2> HIDE DEF T3
  <2> QED BY <2>1, <2>2, <2>3
<1>12. ~(e = d /\ new = name)
  BY <1>1, <1>2 DEF HasDir
<1>13. ASSUME TableOK(w, n), SameFiles(w, vn), GoneIn(w) = G, TreeOf(w) = T3,
              Counts(CountsIn(w), CountsIn(vn), G, e, d)
       PROVE  Table(w, n)
  <2>1. /\ MapIn(w)[<<d, name>>] = 0 /\ MapIn(w)[<<e, new>>] = i /\ MapIn(w)[<<i, "..">>] = e
    <3>1. Pt(TreeOf(w), d, name) = 0 /\ Pt(TreeOf(w), e, new) = i /\ Pt(TreeOf(w), i, "..") = e
      BY <1>1, <1>11, <1>12, <1>13
    <3>2. /\ d \in Ino /\ e \in Ino /\ i \in Ino /\ name \in AllNames /\ name \in Names
          /\ new \in AllNames /\ new \in Names /\ ".." \in AllNames /\ i \notin GoneIn(w)
      BY <1>1, <1>3, <1>13
    <3>3. Val(TreeOf(w), GoneIn(w), d, name) = 0
      BY ONLY <3>1, <3>2, MapAt
    <3>4. Val(TreeOf(w), GoneIn(w), e, new) = i
      BY ONLY <3>1, <3>2, MapAt
    <3>5. Val(TreeOf(w), GoneIn(w), i, "..") = e
      BY ONLY <3>1, <3>2, MapAt
    <3> QED BY <3>3, <3>4, <3>5 DEF Val, MapIn
  <2>2. OnlyAt(MapIn(w), m, <<d, name>>, <<e, new>>, <<i, "..">>)
    <3>1. \A j \in Ino : \A r \in AllNames :
              \/ (j = d /\ r = name) \/ (j = e /\ r = new) \/ (j = i /\ r = "..")
              \/ Pt(TreeOf(w), j, r) = Pt(TreeOf(vn), j, r) /\ (r \in Names \/ (j \in G <=> j \in G))
      BY <1>11, <1>13
    <3>2. OnlyAt(MapOf(TreeOf(w), G), MapOf(TreeOf(vn), G), <<d, name>>, <<e, new>>, <<i, "..">>)
      BY ONLY <3>1, MapChange3
    <3> QED BY <1>13, <3>2 DEF MapIn
  <2>3. MapIn(w) \in [Slots -> Nat] /\ CountsIn(w) \in [Ino -> Nat]
    BY <1>13, TableTypes DEF MapIn
  <2> HIDE DEF m
  <2>4. Wired(D, G, CountsIn(w), n, MapIn(w))
    BY <1>1, <1>2, <1>13, <2>1, <2>2, <2>3, WiredMoveDir
  <2>5. TableWired(w, n)
    BY <1>13, <2>4 DEF TableWired, MapIn, SameFiles
  <2> QED BY <1>13, <2>5 DEF Table
<1>14. CASE d = e
  <2>1. w = u
    BY <1>14
  <2>2. T3 = T2
    <3>1. Pt(T2, i, "..") = e
      <4>1. Pt(TreeOf(vn), i, "..") = e
        <5>1. Val(TreeOf(vn), G, i, "..") = Pt(TreeOf(vn), i, "..")
          BY <1>1, <1>3, MapAt
        <5> QED BY <1>3, <1>14, <5>1 DEF Val, MapIn
      <4>2. Pt(T1, i, "..") = Pt(TreeOf(vn), i, "..")
        BY <1>1, PutTree
      <4> HIDE DEF T1
      <4>3. Pt(T2, i, "..") = Pt(T1, i, "..")
        BY <1>1, <1>10, DropTree
      <4> QED BY <4>1, <4>2, <4>3
    <3>2. T2[i] \in EntrySets
      BY <1>1, <1>10 DEF Trees
    <3> HIDE DEF T2
    <3>3. Put(T2[i], "..", e) = T2[i]
      BY <1>1, <3>1, <3>2, PutSame DEF Pt
    <3> QED BY <1>1, <1>10, <3>3 DEF Grown, Trees
  <2>3. Counts(CountsIn(u), CountsIn(vn), G, e, d)
    <3>1. ASSUME NEW j \in Ino PROVE CountsIn(u)[j] = CountsIn(vn)[j] + One(e, j) - One(d, j)
      <4>1. CountsIn(vn)[j] \in Nat /\ One(e, j) = One(d, j) /\ One(d, j) \in Int
        BY <1>1, <1>14, OneIsInt
      <4> QED BY <1>8, <4>1
    <3> QED BY <3>1 DEF Counts
  <2> QED BY <1>7, <1>9, <1>13, <2>1, <2>2, <2>3
<1>15. CASE d # e
  <2>1. w = WithCount(x, d, Less(x[d].nlinks))
    BY <1>15
  <2>2. TableOK(x, n) /\ Linked(x, u, i, "..", e)
    BY <1>1, <1>7, <1>9, LinkEffect
  <2>3. x[d].nlinks = CountsIn(x)[d] /\ CountsIn(x) \in [Ino -> Nat]
    BY <1>1, <2>2, TableTypes DEF CountsIn
  <2>4. Less(x[d].nlinks) \in Nat
    BY <1>1, <2>3 DEF Less
  <2>5. /\ TableOK(w, n) /\ SameFiles(w, x) /\ GoneIn(w) = GoneIn(x) /\ TreeOf(w) = TreeOf(x)
        /\ CountsIn(w) = Changed(CountsIn(x), d, Less(x[d].nlinks))
    <3>1. TableOK(x, n) /\ d \in 1 .. n - 1 /\ Less(x[d].nlinks) \in Nat /\ w = WithCount(x, d, Less(x[d].nlinks))
      BY <1>1, <2>1, <2>2, <2>4
    <3> QED BY ONLY <3>1, CountEffect
  <2>6. SameFiles(w, vn) /\ GoneIn(w) = G /\ TreeOf(w) = T3
    BY <1>9, <2>2, <2>5 DEF Linked, SameFiles
  <2>7. Counts(CountsIn(w), CountsIn(vn), G, e, d)
    <3>1. ASSUME NEW j \in Ino, j \notin G
          PROVE  CountsIn(w)[j] = CountsIn(vn)[j] + One(e, j) - One(d, j)
      <4>1. DOMAIN CountsIn(x) = Ino /\ DOMAIN CountsIn(u) = Ino
        BY DEF CountsIn
      <4>2. CountsIn(x)[j] = IF j = e THEN CountsIn(vn)[j] + 1 ELSE CountsIn(vn)[j]
        BY <1>1, <1>8, <2>2, <4>1 DEF Linked, Changed
      <4>3. CountsIn(w)[j] = IF j = d THEN Less(CountsIn(x)[j]) ELSE CountsIn(x)[j]
        BY <1>1, <2>3, <2>5, <4>1 DEF Changed
      <4>4. j = d => CountsIn(vn)[j] > 0
        <5>1. <<i, "..">> \in Slots /\ (j = d => Lives(vn, n, j))
          BY <1>1, <3>1, SlotFacts DEF Lives
        <5> QED BY <1>3, <5>1, Counted
      <4>5. CountsIn(vn)[j] \in Nat
        BY <1>1
      <4>6. One(e, j) = (IF j = e THEN 1 ELSE 0) /\ One(d, j) = (IF j = d THEN 1 ELSE 0)
        BY DEF One
      <4> QED BY <1>15, <4>2, <4>3, <4>4, <4>5, <4>6 DEF Less
    <3> QED BY <3>1 DEF Counts
  <2> QED BY <1>13, <2>5, <2>6, <2>7
<1> QED BY <1>14, <1>15

(* Mode, content or descriptors of one inode change.                        *)
ContentIn(r, i) == IF r.data = None THEN DiskRead[i].data ELSE r.data

(* A change of mode or contents leaves tree and other contents alone.       *)
LEMMA PlainStep ==
    ASSUME NEW vn, NEW n, Table(vn, n), NEW i \in Ino,
           NEW r \in VNode, r.kind = vn[i].kind, r.base = vn[i].base, r.deleted = vn[i].deleted,
           r.entries = vn[i].entries, r.nlinks = vn[i].nlinks,
           r.kind = "file" => ContentIn(r, i) \in Contents,
           NEW w, w = Changed(vn, i, r)
    PROVE  /\ Table(w, n) /\ TreeOf(w) = TreeOf(vn)
           /\ r.kind = "file" => DataIn(w) = Changed(DataIn(vn), i, ContentIn(r, i))
           /\ r.kind # "file" \/ r.data = vn[i].data => DataIn(w) = DataIn(vn)
<1>1. vn \in [Ino -> VNode] /\ TableOK(vn, n)
  BY DEF Table, TableOK
<1>2. w[i] = r /\ w \in [Ino -> VNode] /\ \A j \in Ino \ {i} : w[j] = vn[j]
  BY <1>1 DEF Changed
<1>3. ContentOf(w, i) = ContentIn(r, i) /\ \A j \in Ino \ {i} : ContentOf(w, j) = ContentOf(vn, j)
  BY <1>2 DEF ContentOf, ContentIn
<1>4. ASSUME NEW j \in Ino
      PROVE  /\ w[j].kind = vn[j].kind /\ w[j].base = vn[j].base
             /\ w[j].deleted = vn[j].deleted /\ w[j].entries = vn[j].entries
             /\ w[j].nlinks = vn[j].nlinks
             /\ w[j].kind = "file" => ContentOf(w, j) \in Contents
  BY <1>1, <1>2, <1>3 DEF TableOK
<1>5. TableOK(w, n) /\ DirsIn(w) = DirsIn(vn) /\ GoneIn(w) = GoneIn(vn) /\ TreeOf(w) = TreeOf(vn)
  BY <1>1, <1>2, <1>4, PlainEdit
<1>6. CountsIn(w) = CountsIn(vn)
  BY <1>4 DEF CountsIn
<1>7. Table(w, n)
  BY <1>5, <1>6 DEF Table, TableWired
<1>8. ASSUME r.kind = "file" PROVE DataIn(w) = Changed(DataIn(vn), i, ContentIn(r, i))
  <2>1. DataIn(w)[i] = ContentIn(r, i) /\ \A j \in Ino \ {i} : DataIn(w)[j] = DataIn(vn)[j]
    BY <1>2, <1>3, <1>8 DEF DataIn
  <2> QED BY <2>1 DEF DataIn, Changed
<1>9. ASSUME r.kind # "file" \/ r.data = vn[i].data PROVE DataIn(w) = DataIn(vn)
  <2>1. \A j \in Ino : DataIn(w)[j] = DataIn(vn)[j]
    BY <1>2, <1>3, <1>9 DEF DataIn, ContentOf, ContentIn
  <2> QED BY <2>1 DEF DataIn
<1> QED BY <1>5, <1>7, <1>8, <1>9

(* Changing what is not in the table is no change.                          *)
LEMMA NoStep ==
    ASSUME NEW vn, NEW n, Table(vn, n), NEW i, i \notin Ino, NEW r
    PROVE  Changed(vn, i, r) = vn
BY DEF Table, TableOK, Changed

-----------------------------------------------------------------------------
(* The calls of programs, as the system makes them and as FileTree has      *)
(* them.                                                                    *)

ShownData == [i \in Ino |-> IF vnode[i].kind = "file" THEN DataOf(i) ELSE <<>>]
ShownTree == [i \in Ino |-> IF i \in Dirs THEN Entries(i) ELSE <<>>]

(* What can be seen of the overlay, in terms of the table.                  *)
LEMMA ShownIs ==
    ASSUME disk = DiskRead
    PROVE  ShownData = DataIn(vnode) /\ ShownTree = TreeOf(vnode) /\ Dirs = DirsIn(vnode)
<1>1. Dirs = DirsIn(vnode)
  BY DEF Dirs, DirsIn
<1>2. ShownData = DataIn(vnode)
  BY DEF ShownData, DataIn, DataOf, ContentOf
<1>3. ASSUME NEW i \in Ino PROVE ShownTree[i] = TreeOf(vnode)[i]
  BY EntriesAre DEF ShownTree, TreeOf, Dirs, Entries
<1> QED BY <1>1, <1>2, <1>3 DEF ShownTree, TreeOf

(* A step keeps the table and is seen as a step of the abstract tree.       *)
Keeps == Table(vnode', next_ino') /\ (Visible!Next \/ UNCHANGED <<ShownData, ShownTree>>)

(* The same before and after a step.                                        *)
LEMMA ShownNext ==
    ASSUME disk = DiskRead, disk' = disk
    PROVE  /\ ShownData = DataIn(vnode) /\ ShownTree = TreeOf(vnode)
           /\ ShownData' = DataIn(vnode') /\ ShownTree' = TreeOf(vnode')
<1>1. disk' = DiskRead
  OBVIOUS
<1>2. ShownData' = DataIn(vnode')
  BY <1>1 DEF ShownData, DataIn, DataOf, ContentOf
<1>3. ASSUME NEW i \in Ino PROVE ShownTree'[i] = TreeOf(vnode')[i]
  BY <1>1 DEF ShownTree, TreeOf, Dirs, Entries, EntriesIn, EntriesOf
<1>4. ShownTree' = TreeOf(vnode')
  BY <1>3 DEF ShownTree, TreeOf
<1> QED BY <1>2, <1>4, ShownIs

(* A step that changes nothing visible is a stutter of the tree.            *)
LEMMA SameShown ==
    ASSUME disk = DiskRead, disk' = disk, Table(vnode', next_ino'),
           TreeOf(vnode') = TreeOf(vnode), DataIn(vnode') = DataIn(vnode)
    PROVE  Keeps
BY ShownNext DEF Keeps

(* Open, close, chmod.                                                      *)
LEMMA CloseKeeps ==
    ASSUME disk = DiskRead, disk' = disk, Table(vnode, next_ino), NEW i \in Ino, vnode[i].open_refs > 0,
           Close(i)
    PROVE  Keeps
<1> DEFINE r == [vnode[i] EXCEPT !.open_refs = @ - 1]
<1>1. vnode[i] \in VNode /\ (vnode[i].kind = "file" => ContentOf(vnode, i) \in Contents)
  BY DEF Table, TableOK
<1>2. /\ r \in VNode /\ r.kind = vnode[i].kind /\ r.base = vnode[i].base /\ r.deleted = vnode[i].deleted
      /\ r.entries = vnode[i].entries /\ r.nlinks = vnode[i].nlinks /\ r.data = vnode[i].data
  BY <1>1 DEF VNode
<1>3. vnode' = Changed(vnode, i, r) /\ next_ino' = next_ino
  BY DEF Close, Changed
<1> HIDE DEF r
<1>4. r.kind = "file" => ContentIn(r, i) \in Contents
  BY <1>1, <1>2 DEF ContentIn, ContentOf
<1>5. Table(vnode', next_ino) /\ TreeOf(vnode') = TreeOf(vnode) /\ DataIn(vnode') = DataIn(vnode)
  BY <1>2, <1>3, <1>4, PlainStep
<1> QED BY <1>3, <1>5, SameShown

(* chmod, chown and utime cannot be seen in the tree.                       *)
LEMMA ChmodKeeps ==
    ASSUME disk = DiskRead, disk' = disk, Table(vnode, next_ino), NEW i, NEW mode \in {0, 1}, Chmod(i, mode)
    PROVE  Keeps
<1> DEFINE r == [vnode[i] EXCEPT !.mode = mode]
<1>1. vnode' = Changed(vnode, i, r) /\ next_ino' = next_ino
  BY DEF Chmod, Changed
<1>2. CASE i \in Ino
  <2>1. vnode[i] \in VNode /\ (vnode[i].kind = "file" => ContentOf(vnode, i) \in Contents)
    BY <1>2 DEF Table, TableOK
  <2>2. /\ r \in VNode /\ r.kind = vnode[i].kind /\ r.base = vnode[i].base /\ r.deleted = vnode[i].deleted
        /\ r.entries = vnode[i].entries /\ r.nlinks = vnode[i].nlinks /\ r.data = vnode[i].data
    BY <2>1 DEF VNode
  <2> HIDE DEF r
  <2>3. r.kind = "file" => ContentIn(r, i) \in Contents
    BY <2>1, <2>2 DEF ContentIn, ContentOf
  <2>4. Table(vnode', next_ino) /\ TreeOf(vnode') = TreeOf(vnode) /\ DataIn(vnode') = DataIn(vnode)
    BY <1>1, <1>2, <2>2, <2>3, PlainStep
  <2> QED BY <1>1, <2>4, SameShown
<1>3. CASE i \notin Ino
  BY <1>1, <1>3, NoStep, SameShown
<1> QED BY <1>2, <1>3

(* A content that changes, as FileTree has it.                              *)
LEMMA TruncateShown ==
    ASSUME disk = DiskRead, disk' = disk, Table(vnode', next_ino'), NEW i \in Ino,
           TreeOf(vnode') = TreeOf(vnode), DataIn(vnode') = Changed(DataIn(vnode), i, <<>>)
    PROVE  Keeps
<1>1. Visible!Truncate(i)
  BY ShownNext DEF Visible!Truncate, Changed, ShownData, ShownTree
<1> QED BY <1>1 DEF Keeps, Visible!Next

(* open with O_TRUNC is a truncation in place.                              *)
LEMMA OpenKeeps ==
    ASSUME disk = DiskRead, disk' = disk, Table(vnode, next_ino), NEW i,
           NEW truncate \in BOOLEAN, NEW full \in BOOLEAN, Open(i, truncate, full)
    PROVE  Keeps
<1> DEFINE dt == IF truncate THEN <<>> ELSE vnode[i].data
           rf == IF full THEN vnode[i].open_refs ELSE vnode[i].open_refs + 1
           r  == [vnode[i] EXCEPT !.data = dt, !.open_refs = rf]
<1>1. vnode' = Changed(vnode, i, r) /\ next_ino' = next_ino
  BY DEF Open, Changed, Table, TableOK
<1>2. CASE i \in Ino
  <2>1. /\ vnode[i] \in VNode /\ (vnode[i].kind = "file" => ContentOf(vnode, i) \in Contents)
        /\ <<>> \in Contents /\ <<>> # None
    <3>1. <<>> \in Contents
      BY DEF Contents
    <3> QED BY <1>2, <3>1, OverlayAssumption DEF Table, TableOK
  <2>2. /\ r \in VNode /\ r.kind = vnode[i].kind /\ r.base = vnode[i].base /\ r.deleted = vnode[i].deleted
        /\ r.entries = vnode[i].entries /\ r.nlinks = vnode[i].nlinks
        /\ r.data = IF truncate THEN <<>> ELSE vnode[i].data
    <3>1. dt \in Contents \cup {None} /\ rf \in Nat
      BY <2>1 DEF VNode
    <3>2. dt = IF truncate THEN <<>> ELSE vnode[i].data
      OBVIOUS
    <3> HIDE DEF dt, rf
    <3> QED BY <2>1, <3>1, <3>2 DEF VNode
  <2>3. truncate => r.kind = "file"
    BY <2>2 DEF Open
  <2> HIDE DEF r
  <2>4. r.kind = "file" => ContentIn(r, i) \in Contents
    BY <2>1, <2>2 DEF ContentIn, ContentOf
  <2>5. CASE truncate
    <3>1. ContentIn(r, i) = <<>>
      BY <2>1, <2>2, <2>5 DEF ContentIn
    <3>2. /\ Table(vnode', next_ino) /\ TreeOf(vnode') = TreeOf(vnode)
          /\ DataIn(vnode') = Changed(DataIn(vnode), i, ContentIn(r, i))
      BY <1>1, <1>2, <2>2, <2>3, <2>4, <2>5, PlainStep
    <3> QED BY <1>1, <1>2, <3>1, <3>2, TruncateShown
  <2>6. CASE ~truncate
    <3>1. r.data = vnode[i].data
      BY <2>2, <2>6
    <3>2. Table(vnode', next_ino) /\ TreeOf(vnode') = TreeOf(vnode) /\ DataIn(vnode') = DataIn(vnode)
      BY <1>1, <1>2, <2>2, <2>4, <3>1, PlainStep
    <3> QED BY <1>1, <3>2, SameShown
  <2> QED BY <2>5, <2>6
<1>3. CASE i \notin Ino
  BY <1>1, <1>3, NoStep, SameShown
<1> QED BY <1>2, <1>3

(* write.                                                                   *)
LEMMA OverwriteIs ==
    ASSUME NEW data \in Contents, NEW offset \in Nat
    PROVE  /\ Overwrite(data, offset, Datum) \in Contents
           /\ Overwrite(data, offset, Datum) =
                 [k \in 1 .. (IF offset + 1 > Len(data) THEN offset + 1 ELSE Len(data)) |->
                     IF k = offset + 1 THEN Datum ELSE IF k <= Len(data) THEN data[k] ELSE Zero]
<1> DEFINE length == IF offset + 1 > Len(data) THEN offset + 1 ELSE Len(data)
           S == {Zero, Datum} \cup Units
           new == [k \in 1 .. length |-> IF k = offset + 1 THEN Datum ELSE IF k <= Len(data) THEN data[k] ELSE Zero]
<1>1. Len(data) \in Nat /\ \A k \in 1 .. Len(data) : data[k] \in S
  BY DEF Contents
<1>2. length \in Nat /\ length = IF offset < Len(data) THEN Len(data) ELSE offset + 1
  BY <1>1
<1>3. Overwrite(data, offset, Datum) = new
  BY <1>2 DEF Overwrite
<1>4. \A k \in 1 .. length : new[k] \in S
  BY <1>1
<1>5. new \in Contents
  BY <1>2, <1>4 DEF Contents
<1> QED BY <1>3, <1>5

(* A table with one content overwritten is a write in place.                *)
LEMMA WriteShown ==
    ASSUME disk = DiskRead, disk' = disk, Table(vnode', next_ino'), NEW i \in Ino, NEW offset \in Nat,
           DataIn(vnode)[i] \in Contents, offset <= Len(DataIn(vnode)[i]) + 1,
           TreeOf(vnode') = TreeOf(vnode),
           DataIn(vnode') = Changed(DataIn(vnode), i, Overwrite(DataIn(vnode)[i], offset, Datum))
    PROVE  Keeps
<1> DEFINE data == DataIn(vnode)[i]
           at == offset + 1
<1>1. at \in 1 .. Len(data) + 2
  BY DEF Contents
<1>2. Overwrite(data, offset, Datum) =
         [k \in 1 .. (IF at > Len(data) THEN at ELSE Len(data)) |->
             IF k = at THEN Datum ELSE IF k <= Len(data) THEN data[k] ELSE Zero]
  BY OverwriteIs
<1>3. /\ ShownData[i] = data /\ UNCHANGED ShownTree
      /\ ShownData' = [ShownData EXCEPT ![i] = [k \in 1 .. (IF at > Len(data) THEN at ELSE Len(data)) |->
             IF k = at THEN Datum ELSE IF k <= Len(data) THEN data[k] ELSE Zero]]
  BY <1>2, ShownNext DEF Changed
<1> HIDE DEF data, at
<1>3a. Visible!Write(i)
  <2>1. at \in 1 .. Len(ShownData[i]) + 2 /\ Datum \in {Datum}
    BY <1>1, <1>3
  <2>2. ShownData' = [ShownData EXCEPT ![i] = [k \in 1 .. (IF at > Len(ShownData[i]) THEN at ELSE Len(ShownData[i])) |->
             IF k = at THEN Datum ELSE IF k <= Len(ShownData[i]) THEN ShownData[i][k] ELSE Zero]]
    BY <1>3
  <2>3. \E unit \in {Datum}, l \in 1 .. Len(ShownData[i]) + 2 :
           ShownData' = [ShownData EXCEPT ![i] = [k \in 1 .. (IF l > Len(ShownData[i]) THEN l ELSE Len(ShownData[i])) |->
             IF k = l THEN unit ELSE IF k <= Len(ShownData[i]) THEN ShownData[i][k] ELSE Zero]]
    BY <2>1, <2>2, Zenon
  <2> QED BY <1>3, <2>3, Zenon DEF Visible!Write, ShownData, ShownTree
<1> QED BY <1>3a DEF Keeps, Visible!Next

(* So a write to the overlay is.                                            *)
LEMMA WriteKeeps ==
    ASSUME disk = DiskRead, disk' = disk, Table(vnode, next_ino), NEW i \in Ino, vnode[i].kind = "file",
           NEW offset \in 0 .. Len(DataOf(i)) + 1, Write(i, offset)
    PROVE  Keeps
<1> DEFINE data == Overwrite(DataOf(i), offset, Datum)
           r == [vnode[i] EXCEPT !.data = data]
<1>1. DataOf(i) = ContentOf(vnode, i) /\ DataIn(vnode)[i] = DataOf(i)
  BY DEF DataOf, ContentOf, DataIn
<1>2. DataOf(i) \in Contents /\ vnode[i] \in VNode
  BY <1>1 DEF Table, TableOK
<1>3. Len(DataOf(i)) \in Nat /\ offset \in Nat /\ offset <= Len(DataOf(i)) + 1
  BY <1>2 DEF Contents
<1>4. data \in Contents /\ data # None
  BY <1>2, <1>3, OverwriteIs, OverlayAssumption
<1>5. vnode' = Changed(vnode, i, r) /\ next_ino' = next_ino
  BY DEF Write, Changed
<1> HIDE DEF data
<1>6. /\ r \in VNode /\ r.kind = "file" /\ r.kind = vnode[i].kind /\ r.base = vnode[i].base
      /\ r.deleted = vnode[i].deleted /\ r.entries = vnode[i].entries /\ r.nlinks = vnode[i].nlinks
      /\ r.data = data
  BY <1>2, <1>4 DEF VNode
<1> HIDE DEF r
<1>7. ContentIn(r, i) = data
  BY <1>4, <1>6 DEF ContentIn
<1>8. /\ Table(vnode', next_ino) /\ TreeOf(vnode') = TreeOf(vnode)
      /\ DataIn(vnode') = Changed(DataIn(vnode), i, ContentIn(r, i))
  BY <1>4, <1>5, <1>6, <1>7, PlainStep
<1> QED BY <1>1, <1>2, <1>3, <1>5, <1>7, <1>8, WriteShown DEF data

(* The calls that change the tree, as FileTree has them.                    *)
LEMMA DirSeen ==
    ASSUME NEW vn, NEW n, Table(vn, n), NEW d \in DirsIn(vn)
    PROVE  d \in Ino /\ TreeOf(vn)[d] = EntriesOf(vn, d) /\ TreeOf(vn)[d] # <<>>
<1>1. d \in Ino /\ TreeOf(vn)[d] = EntriesOf(vn, d) /\ "." \in DOMAIN EntriesOf(vn, d)
  BY DEF DirsIn, TreeOf, Table, TableOK
<1>2. DOMAIN <<>> = {}
  OBVIOUS
<1> QED BY <1>1, <1>2

(* A table with one more name is an entering in place.                      *)
LEMMA EnterShown ==
    ASSUME disk = DiskRead, disk' = disk, Table(vnode, next_ino), Table(vnode', next_ino'),
           NEW d \in DirsIn(vnode), NEW name \in Names, name \notin DOMAIN EntriesOf(vnode, d),
           NEW i \in Ino, TreeOf(vnode)[i] = <<>>,
           TreeOf(vnode') = Grown(TreeOf(vnode), d, name, i), DataIn(vnode') = DataIn(vnode)
    PROVE  Keeps
<1>1. d \in Ino /\ TreeOf(vnode)[d] # <<>> /\ name \notin DOMAIN TreeOf(vnode)[d]
  BY DirSeen
<1>2. ShownTree = TreeOf(vnode) /\ ShownTree' = TreeOf(vnode') /\ UNCHANGED ShownData
  BY ShownNext
<1>3. Visible!Enter(d, name, i)
  BY <1>2 DEF Visible!Enter, Visible!IsDirectory, Visible!With, Grown, Put, ShownData, ShownTree
<1>4. Visible!IsDirectory(d) /\ ~Visible!Has(d, name)
  BY <1>1, <1>2 DEF Visible!IsDirectory, Visible!Has, ShownTree
<1> QED BY <1>1, <1>3, <1>4 DEF Keeps, Visible!Next

(* A table with one name less is a leaving in place.                        *)
LEMMA LeaveShown ==
    ASSUME disk = DiskRead, disk' = disk, Table(vnode, next_ino), Table(vnode', next_ino'),
           NEW d \in DirsIn(vnode), NEW name \in Names, name \in DOMAIN EntriesOf(vnode, d),
           DOMAIN TreeOf(vnode)[EntriesOf(vnode, d)[name]] \subseteq {".", ".."},
           TreeOf(vnode') = Shrunk(TreeOf(vnode), d, name), DataIn(vnode') = DataIn(vnode)
    PROVE  Keeps
<1>1. /\ d \in Ino /\ TreeOf(vnode)[d] # <<>> /\ name \in DOMAIN TreeOf(vnode)[d]
      /\ DOMAIN TreeOf(vnode)[TreeOf(vnode)[d][name]] \subseteq {".", ".."}
  BY DirSeen
<1>2. ShownTree = TreeOf(vnode) /\ ShownTree' = TreeOf(vnode') /\ UNCHANGED ShownData
  BY ShownNext
<1>3. Visible!Leave(d, name)
  BY <1>1, <1>2 DEF Visible!Leave, Visible!IsEmpty, Visible!Without, Shrunk, Drop, ShownData, ShownTree
<1>4. Visible!IsDirectory(d) /\ Visible!Has(d, name)
  BY <1>1, <1>2 DEF Visible!IsDirectory, Visible!Has, ShownTree
<1> QED BY <1>1, <1>3, <1>4 DEF Keeps, Visible!Next

(* A table with a new directory is a making in place.                       *)
LEMMA MakeShown ==
    ASSUME disk = DiskRead, disk' = disk, Table(vnode, next_ino), Table(vnode', next_ino'),
           NEW d \in DirsIn(vnode), NEW name \in Names, name \notin DOMAIN EntriesOf(vnode, d),
           NEW i \in Ino, TreeOf(vnode)[i] = <<>>, i # d,
           TreeOf(vnode') = Grown(Changed(TreeOf(vnode), i, DotsOf(i, d)), d, name, i),
           DataIn(vnode') = DataIn(vnode)
    PROVE  Keeps
<1>1. d \in Ino /\ TreeOf(vnode)[d] # <<>> /\ name \notin DOMAIN TreeOf(vnode)[d]
  BY DirSeen
<1>2. ShownTree = TreeOf(vnode) /\ ShownTree' = TreeOf(vnode') /\ UNCHANGED ShownData
  BY ShownNext
<1>3. ShownTree' = [ShownTree EXCEPT ![d] = Put(@, name, i), ![i] = DotsOf(i, d)]
  <2>1. DOMAIN ShownTree = Ino
    BY DEF ShownTree
  <2> QED BY <1>1, <1>2, <2>1 DEF Grown, Changed
<1>4. Visible!MakeDirectory(d, name, i)
  BY <1>2, <1>3 DEF Visible!MakeDirectory, Visible!IsDirectory, Visible!With, Put, DotsOf, ShownData, ShownTree
<1>5. Visible!IsDirectory(d) /\ ~Visible!Has(d, name)
  BY <1>1, <1>2 DEF Visible!IsDirectory, Visible!Has, ShownTree
<1> QED BY <1>1, <1>4, <1>5 DEF Keeps, Visible!Next

(* rename: i, which was name in d, is new in e from then on.                *)
Moved(T, d, name, e, new, i) == Shrunk(Grown(T, e, new, i), d, name)

(* A table with a name moved is a move in place.                            *)
LEMMA MoveShown ==
    ASSUME disk = DiskRead, disk' = disk, Table(vnode, next_ino), Table(vnode', next_ino'),
           NEW d \in DirsIn(vnode), NEW name \in Names, name \in DOMAIN EntriesOf(vnode, d),
           NEW e \in DirsIn(vnode), NEW new \in Names,
           new \in DOMAIN EntriesOf(vnode, e) =>
               DOMAIN TreeOf(vnode)[EntriesOf(vnode, e)[new]] \subseteq {".", ".."},
           NEW i, i = EntriesOf(vnode, d)[name],
           TreeOf(vnode') = IF i \in DirsIn(vnode)
                            THEN Grown(Moved(TreeOf(vnode), d, name, e, new, i), i, "..", e)
                            ELSE Moved(TreeOf(vnode), d, name, e, new, i),
           DataIn(vnode') = DataIn(vnode)
    PROVE  Keeps
<1> DEFINE T == TreeOf(vnode)
           moved == Moved(T, d, name, e, new, i)
<1>1. /\ d \in Ino /\ T[d] # <<>> /\ name \in DOMAIN T[d] /\ i = T[d][name]
      /\ e \in Ino /\ T[e] # <<>> /\ (new \in DOMAIN T[e] => DOMAIN T[T[e][new]] \subseteq {".", ".."})
  BY DirSeen
<1>2. ShownTree = T /\ ShownTree' = TreeOf(vnode') /\ UNCHANGED ShownData
  BY ShownNext
<1>3. i \in Ino /\ (T[i] # <<>> <=> i \in DirsIn(vnode))
  <2>1. i \in Ino
    BY EntryAt, TableTypes DEF Lives, Table
  <2>2. i \notin DirsIn(vnode) => T[i] = <<>>
    BY <2>1 DEF TreeOf, DirsIn
  <2> QED BY <2>1, <2>2, DirSeen
<1>4. TreeOf(vnode') = IF T[i] # <<>> THEN Grown(moved, i, "..", e) ELSE moved
  BY <1>3
<1>5. Visible!Move(d, name, e, new)
  <2>1. ShownTree' = IF ShownTree[i] # <<>> THEN Grown(moved, i, "..", e) ELSE moved
    BY <1>2, <1>4
  <2>2. moved = [[ShownTree EXCEPT ![e] = Put(@, new, i)] EXCEPT ![d] = Drop(@, name)]
    BY <1>2 DEF Moved, Grown, Shrunk
  <2>3. Visible!Has(e, new) => Visible!IsEmpty(ShownTree[e][new])
    BY <1>1, <1>2 DEF Visible!Has, Visible!IsEmpty, ShownTree
  <2>4. i = ShownTree[d][name]
    BY <1>1, <1>2
  <2>5. /\ \A es, x, j : Put(es, x, j) = Visible!With(es, x, j)
        /\ \A es, x : Drop(es, x) = Visible!Without(es, x)
    BY DEF Put, Drop, Visible!With, Visible!Without
  <2>6. moved = [[ShownTree EXCEPT ![e] = Visible!With(@, new, i)] EXCEPT ![d] = Visible!Without(@, name)]
    BY <2>2, <2>5
  <2>7. Grown(moved, i, "..", e) = [moved EXCEPT ![i] = Visible!With(@, "..", e)]
    BY <2>5 DEF Grown
  <2> HIDE DEF moved, T
  <2>8. /\ Visible!Has(e, new) => Visible!IsEmpty(ShownTree[e][new])
        /\ ShownTree' = IF ShownTree[i] # <<>>
                        THEN [[[ShownTree EXCEPT ![e] = Visible!With(@, new, i)] EXCEPT ![d] = Visible!Without(@, name)]
                                 EXCEPT ![i] = Visible!With(@, "..", e)]
                        ELSE [[ShownTree EXCEPT ![e] = Visible!With(@, new, i)] EXCEPT ![d] = Visible!Without(@, name)]
        /\ UNCHANGED ShownData
    BY <1>2, <2>1, <2>3, <2>6, <2>7
  <2> QED BY <2>4, <2>8 DEF Visible!Move, Visible!IsDirectory, ShownData, ShownTree
<1>6. Visible!IsDirectory(d) /\ Visible!IsDirectory(e) /\ Visible!Has(d, name)
  BY <1>1, <1>2 DEF Visible!IsDirectory, Visible!Has, ShownTree
<1> QED BY <1>1, <1>5, <1>6 DEF Keeps, Visible!Next

(* open with O_CREAT, mknod, link, mkdir.                                   *)
LEMMA CreateKeeps ==
    ASSUME disk = DiskRead, disk' = disk, Table(vnode, next_ino),
           NEW d \in Dirs, NEW name \in Names, NEW full \in BOOLEAN, Create(d, name, full)
    PROVE  Keeps
<1> DEFINE new == [NewInode("file") EXCEPT !.open_refs = IF full THEN 0 ELSE 1]
           n == next_ino
<1>1. d \in DirsIn(vnode) /\ name \notin DOMAIN EntriesOf(vnode, d)
  BY ShownIs, EntriesAre DEF Create, Has, Entries
<1>2. /\ new \in VNode /\ new.kind \in {"file", "chr"} /\ ~new.base /\ ~new.deleted /\ new.data = <<>>
      /\ new.nlinks = 0
  <2>1. <<>> \in Contents
    BY DEF Contents
  <2> QED BY <2>1 DEF NewInode, NoInode, VNode
<1>3. n <= MaxIno /\ next_ino' = n + 1 /\ vnode' = LinkEntry([vnode EXCEPT ![n] = new], d, name, n)
  BY DEF Create, FreeIno, UsesIno, WithNew
<1> HIDE DEF new
<1>4. vnode' = LinkEntry(Changed(vnode, n, new), d, name, n)
  BY <1>3 DEF Changed
<1>5. /\ Table(vnode', n + 1) /\ SameFiles(vnode', vnode) /\ TreeOf(vnode') = Grown(TreeOf(vnode), d, name, n)
      /\ n \in Ino /\ TreeOf(vnode)[n] = <<>>
  BY <1>1, <1>2, <1>3, <1>4, AddFile
<1> QED BY <1>1, <1>3, <1>5, EnterShown DEF SameFiles

(* Creating a file is an entering.                                          *)
LEMMA MknodKeeps ==
    ASSUME disk = DiskRead, disk' = disk, Table(vnode, next_ino),
           NEW d \in Dirs, NEW name \in Names, NEW kind \in {"chr", "file"}, Mknod(d, name, kind)
    PROVE  Keeps
<1> DEFINE new == NewInode(kind)
           n == next_ino
<1>1. d \in DirsIn(vnode) /\ name \notin DOMAIN EntriesOf(vnode, d)
  BY ShownIs, EntriesAre DEF Mknod, Has, Entries
<1>2. /\ new \in VNode /\ new.kind \in {"file", "chr"} /\ ~new.base /\ ~new.deleted /\ new.data = <<>>
      /\ new.nlinks = 0
  <2>1. <<>> \in Contents
    BY DEF Contents
  <2> QED BY <2>1 DEF NewInode, NoInode, VNode
<1>3. n <= MaxIno /\ next_ino' = n + 1 /\ vnode' = LinkEntry(Changed(vnode, n, new), d, name, n)
  BY DEF Mknod, FreeIno, UsesIno, WithNew, Changed
<1> HIDE DEF new
<1>4. /\ Table(vnode', n + 1) /\ SameFiles(vnode', vnode) /\ TreeOf(vnode') = Grown(TreeOf(vnode), d, name, n)
      /\ n \in Ino /\ TreeOf(vnode)[n] = <<>>
  BY <1>1, <1>2, <1>3, AddFile
<1> QED BY <1>1, <1>3, <1>4, EnterShown DEF SameFiles

(* With S_IFDIR mknod makes a bare directory.                               *)
LEMMA MknodBare ==
    ASSUME disk = DiskRead, Table(vnode, next_ino),
           NEW d \in Dirs, NEW name \in Names, Mknod(d, name, "dir")
    PROVE  ~NoBareDirectories'
<1> DEFINE new == NewInode("dir")
           n == next_ino
           w == [vnode EXCEPT ![n] = new]
<1>1. n <= MaxIno /\ vnode' = LinkEntry(w, d, name, n)
  BY DEF Mknod, FreeIno, WithNew
<1>2. vnode \in [Ino -> VNode] /\ n \in Ino /\ vnode[n].kind = None
  <2>1. n \in NInodes + 1 .. MaxIno + 1 /\ NInodes \in Nat /\ MaxIno \in Nat
    BY OverlayAssumption DEF Table, TableOK, MaxIno
  <2>2. n \in Ino /\ n >= n
    BY <1>1, <2>1 DEF Ino
  <2> QED BY <2>2 DEF Table, TableOK
<1>3. d # n /\ d \in Ino
  BY <1>2, OverlayAssumption DEF Dirs
<1>4. w \in [Ino -> VNode \cup {new}] /\ w[n] = new
  BY <1>2
<1>5. new.kind = "dir" /\ new.entries = None /\ ~new.base
  BY DEF NewInode, NoInode
<1> HIDE DEF new, w
<1>6. vnode'[n] = [new EXCEPT !.nlinks = @ + 1]
  BY <1>1, <1>2, <1>3, <1>4 DEF LinkEntry
<1>7. vnode'[n].kind = "dir" /\ vnode'[n].entries = None /\ ~vnode'[n].base
  BY <1>5, <1>6 DEF new, NewInode, NoInode
<1> QED BY <1>2, <1>7 DEF NoBareDirectories, Bare

(* Calls are made in directories.                                           *)
LEMMA ParentsAreDirs == Parents \subseteq Dirs
BY DEF Parents, Places

(* What a name stands for is there.                                         *)
LEMMA TargetLives ==
    ASSUME disk = DiskRead, Table(vnode, next_ino), NEW i \in Targets
    PROVE  Lives(vnode, next_ino, i) /\ i \in Ino
<1>1. PICK d \in Parents : i \in {Entries(d)[name] : name \in Names \cap DOMAIN Entries(d)}
  BY DEF Targets
<1>2. PICK name \in Names \cap DOMAIN Entries(d) : i = Entries(d)[name]
  BY <1>1
<1>3. d \in DirsIn(vnode) /\ name \in Names /\ name \in DOMAIN EntriesOf(vnode, d) /\ i = EntriesOf(vnode, d)[name]
  BY <1>2, ParentsAreDirs, ShownIs, EntriesAre DEF Entries
<1> QED BY <1>3, EntryAt, TableTypes DEF Lives, Table

(* link is an entering.                                                     *)
LEMMA LinkKeeps ==
    ASSUME disk = DiskRead, disk' = disk, Table(vnode, next_ino),
           NEW d \in Dirs, NEW name \in Names, NEW i \in Targets, Link(i, d, name)
    PROVE  Keeps
<1>1. /\ d \in DirsIn(vnode) /\ name \notin DOMAIN EntriesOf(vnode, d) /\ i \notin DirsIn(vnode)
      /\ vnode' = LinkEntry(vnode, d, name, i) /\ next_ino' = next_ino
  BY ShownIs, EntriesAre DEF Link, Has, Entries
<1>2. Lives(vnode, next_ino, i) /\ i \in Ino
  BY TargetLives
<1>3. TreeOf(vnode)[i] = <<>>
  BY <1>1, <1>2 DEF TreeOf, DirsIn
<1>4. /\ Table(vnode', next_ino) /\ SameFiles(vnode', vnode)
      /\ TreeOf(vnode') = Grown(TreeOf(vnode), d, name, i)
  BY <1>1, <1>2, AddName
<1> QED BY <1>1, <1>2, <1>3, <1>4, EnterShown DEF SameFiles

(* mkdir is a making.                                                       *)
LEMMA MkdirKeeps ==
    ASSUME disk = DiskRead, disk' = disk, Table(vnode, next_ino),
           NEW d \in Dirs, NEW name \in Names, Mkdir(d, name)
    PROVE  Keeps
<1> DEFINE n == next_ino
           v == Changed(vnode, n, NewDir(n, d))
<1>1. d \in DirsIn(vnode) /\ name \notin DOMAIN EntriesOf(vnode, d)
  BY ShownIs, EntriesAre DEF Mkdir, Has, Entries
<1>2. n <= MaxIno /\ next_ino' = n + 1
  BY DEF Mkdir, FreeIno, UsesIno
<1>3. vnode' = LinkEntry(WithCount(v, d, v[d].nlinks + 1), d, name, n)
  BY DEF Mkdir, WithNew, NewDir, DotsOf, Changed, WithCount
<1> HIDE DEF v
<1>4. /\ Table(vnode', n + 1) /\ DataIn(vnode') = DataIn(vnode)
      /\ TreeOf(vnode') = Grown(Changed(TreeOf(vnode), n, DotsOf(n, d)), d, name, n)
      /\ n \in Ino /\ n # d /\ TreeOf(vnode)[n] = <<>>
  BY <1>1, <1>2, <1>3, MakeDir DEF v
<1> QED BY <1>1, <1>2, <1>4, MakeShown

(* unlink, rmdir, rename.                                                   *)
LEMMA FileIsEmpty ==
    ASSUME NEW vn, NEW n, Table(vn, n), NEW d \in DirsIn(vn), NEW name \in Names,
           name \in DOMAIN EntriesOf(vn, d), NEW i, i = EntriesOf(vn, d)[name],
           i \notin DirsIn(vn) \/ DOMAIN EntriesOf(vn, i) \subseteq {".", ".."}
    PROVE  DOMAIN TreeOf(vn)[i] \subseteq {".", ".."}
<1>1. i \in Ino
  BY EntryAt, TableTypes DEF Lives, Table
<1>2. CASE i \in DirsIn(vn)
  BY <1>2, DirSeen
<1>3. CASE i \notin DirsIn(vn)
  <2>1. TreeOf(vn)[i] = <<>> /\ DOMAIN <<>> = {}
    BY <1>1, <1>3 DEF TreeOf, DirsIn
  <2> QED BY <2>1
<1> QED BY <1>2, <1>3

(* Copying a directory for the first write cannot be seen.                  *)
LEMMA CopyStep ==
    ASSUME disk = DiskRead, NEW vn, NEW n, Table(vn, n), NEW i \in DirsIn(vn), NEW w, w = Copied(vn, i)
    PROVE  Table(w, n) /\ TreeOf(w) = TreeOf(vn) /\ DataIn(w) = DataIn(vn)
<1>1. /\ TableOK(w, n) /\ SameFiles(w, vn) /\ GoneIn(w) = GoneIn(vn) /\ TreeOf(w) = TreeOf(vn)
      /\ CountsIn(w) = CountsIn(vn)
  BY CopyEffect DEF Table
<1> QED BY <1>1 DEF Table, TableWired, SameFiles

(* unlink is a leaving, or changes nothing.                                 *)
LEMMA UnlinkKeeps ==
    ASSUME disk = DiskRead, disk' = disk, Table(vnode, next_ino),
           NEW d \in Dirs, NEW name \in Names, Unlink(d, name)
    PROVE  Keeps
<1> DEFINE i == EntriesOf(vnode, d)[name]
<1>1. /\ d \in DirsIn(vnode) /\ name \in DOMAIN EntriesOf(vnode, d) /\ i \notin DirsIn(vnode)
      /\ vnode' = UnlinkEntry(vnode, d, name) /\ next_ino' = next_ino
  BY ShownIs, EntriesAre DEF Unlink, Has, Entries
<1>2. /\ Table(vnode', next_ino) /\ SameFiles(vnode', vnode)
      /\ TreeOf(vnode') = Shrunk(TreeOf(vnode), d, name)
  BY <1>1, CutName
<1>3. DOMAIN TreeOf(vnode)[i] \subseteq {".", ".."}
  BY <1>1, FileIsEmpty
<1> QED BY <1>1, <1>2, <1>3, LeaveShown DEF SameFiles

(* rmdir is a leaving, or a copy that changes nothing when it refuses.      *)
LEMMA RmdirKeeps ==
    ASSUME disk = DiskRead, disk' = disk, Table(vnode, next_ino),
           NEW d \in Dirs, NEW name \in Names, Rmdir(d, name)
    PROVE  Keeps
<1> DEFINE i == EntriesOf(vnode, d)[name]
<1>1. /\ d \in DirsIn(vnode) /\ name \in DOMAIN EntriesOf(vnode, d) /\ i \in DirsIn(vnode)
      /\ next_ino' = next_ino
  BY ShownIs, EntriesAre DEF Rmdir, Has, Entries
<1>2. vnode' = IF DOMAIN EntriesOf(vnode, i) \subseteq {".", ".."} THEN RemoveDir(vnode, d, name)
               ELSE Copied(vnode, i)
  BY EntriesAre DEF Rmdir, Entries, Empty, Copied
<1>3. CASE DOMAIN EntriesOf(vnode, i) \subseteq {".", ".."}
  <2>1. /\ Table(vnode', next_ino) /\ SameFiles(vnode', vnode)
        /\ TreeOf(vnode') = Shrunk(TreeOf(vnode), d, name)
    BY <1>1, <1>2, <1>3, DropDir
  <2>2. DOMAIN TreeOf(vnode)[i] \subseteq {".", ".."}
    BY <1>1, <1>3, FileIsEmpty
  <2> QED BY <1>1, <2>1, <2>2, LeaveShown DEF SameFiles
<1>4. CASE ~(DOMAIN EntriesOf(vnode, i) \subseteq {".", ".."})
  BY <1>1, <1>2, <1>4, CopyStep, SameShown
<1> QED BY <1>3, <1>4

(* What rename does once the new name is free, on any table.                *)
LEMMA MoveStep ==
    ASSUME disk = DiskRead, NEW vn, NEW n, Table(vn, n), Dirs = DirsIn(vn),
           NEW d \in DirsIn(vn), NEW name \in Names, name \in DOMAIN EntriesOf(vn, d),
           NEW e \in DirsIn(vn), NEW new \in Names, new \notin DOMAIN EntriesOf(vn, e),
           NEW i, i = EntriesOf(vn, d)[name],
           NEW w, w = Move(vn, d, name, e, new)
    PROVE  /\ Table(w, n) /\ SameFiles(w, vn)
           /\ TreeOf(w) = IF i \in DirsIn(vn) THEN Grown(Moved(TreeOf(vn), d, name, e, new, i), i, "..", e)
                          ELSE Moved(TreeOf(vn), d, name, e, new, i)
<1> DEFINE u == UnlinkEntry(LinkEntry(vn, e, new, i), d, name)
           x == LinkEntry(u, i, "..", e)
<1>1. EntriesIn(vn, d)[name] = i
  BY EntriesAre
<1>2. CASE i \in DirsIn(vn)
  <2>1. w = IF d # e THEN WithCount(x, d, Less(x[d].nlinks)) ELSE u
    BY <1>1, <1>2 DEF Move, LinkEntry, WithCount
  <2> HIDE DEF u, x
  <2>2. /\ u = UnlinkEntry(LinkEntry(vn, e, new, i), d, name) /\ x = LinkEntry(u, i, "..", e)
    BY DEF u, x
  <2>3. /\ Table(w, n) /\ SameFiles(w, vn)
        /\ TreeOf(w) = Grown(Shrunk(Grown(TreeOf(vn), e, new, i), d, name), i, "..", e)
    BY <1>2, <2>1, <2>2, MoveDir
  <2> QED BY <1>2, <2>3 DEF Moved
<1>3. CASE i \notin DirsIn(vn)
  <2>1. w = u
    BY <1>1, <1>3 DEF Move
  <2>2. /\ Table(w, n) /\ SameFiles(w, vn) /\ TreeOf(w) = Shrunk(Grown(TreeOf(vn), e, new, i), d, name)
    BY <1>3, <2>1, MoveFile
  <2> QED BY <1>3, <2>2 DEF Moved
<1> QED BY <1>2, <1>3

(* What stood under the new name does not matter for the entry there.       *)
LEMMA PutDrop ==
    ASSUME NEW T, T \in Trees, NEW e \in Ino, NEW new, NEW i
    PROVE  Grown(Shrunk(T, e, new), e, new, i) = Grown(T, e, new, i)
<1>1. Put(Drop(T[e], new), new, i) = Put(T[e], new, i)
  BY DEF Put, Drop
<1> QED BY <1>1 DEF Grown, Shrunk, Trees

(* rename over an entry that is gone first.                                 *)
LEMMA MoveOver ==
    ASSUME disk = DiskRead, disk' = disk, Table(vnode, next_ino), next_ino' = next_ino,
           NEW d \in DirsIn(vnode), NEW name \in Names, name \in DOMAIN EntriesOf(vnode, d),
           NEW e \in DirsIn(vnode), NEW new \in Names, new \in DOMAIN EntriesOf(vnode, e),
           NEW i, i = EntriesOf(vnode, d)[name], EntriesOf(vnode, e)[new] # i,
           DOMAIN TreeOf(vnode)[EntriesOf(vnode, e)[new]] \subseteq {".", ".."},
           NEW v, Table(v, next_ino), SameFiles(v, vnode), TreeOf(v) = Shrunk(TreeOf(vnode), e, new),
           vnode' = Move(v, d, name, e, new)
    PROVE  Keeps
<1> DEFINE T == TreeOf(vnode)
<1>1. /\ d \in Ino /\ e \in Ino /\ T \in Trees /\ d \in DirsIn(v) /\ e \in DirsIn(v) /\ Dirs = DirsIn(v)
      /\ T[d] = EntriesOf(vnode, d) /\ T[e] = EntriesOf(vnode, e)
      /\ TreeOf(v)[d] = EntriesOf(v, d) /\ TreeOf(v)[e] = EntriesOf(v, e)
  BY ShownIs, TableTypes, DirSeen DEF Table, Trees, SameFiles
<1>2. EntriesOf(v, e) = Drop(EntriesOf(vnode, e), new)
  BY <1>1 DEF Shrunk, Trees
<1>3. new \notin DOMAIN EntriesOf(v, e)
  BY <1>2 DEF Drop
<1>4. name \in DOMAIN EntriesOf(v, d) /\ EntriesOf(v, d)[name] = i
  <2>1. CASE d = e
    <3>1. name # new
      BY <2>1
    <3> QED BY <1>2, <2>1, <3>1 DEF Drop
  <2>2. CASE d # e
    <3>1. EntriesOf(v, d) = EntriesOf(vnode, d)
      BY <1>1, <2>2 DEF Shrunk, Trees
    <3> QED BY <3>1
  <2> QED BY <2>1, <2>2
<1>5. /\ Table(vnode', next_ino) /\ SameFiles(vnode', v)
      /\ TreeOf(vnode') = IF i \in DirsIn(v) THEN Grown(Moved(TreeOf(v), d, name, e, new, i), i, "..", e)
                          ELSE Moved(TreeOf(v), d, name, e, new, i)
  <2>1. /\ disk = DiskRead /\ Table(v, next_ino) /\ Dirs = DirsIn(v) /\ d \in DirsIn(v) /\ name \in Names
        /\ name \in DOMAIN EntriesOf(v, d) /\ e \in DirsIn(v) /\ new \in Names
        /\ new \notin DOMAIN EntriesOf(v, e) /\ i = EntriesOf(v, d)[name]
        /\ vnode' = Move(v, d, name, e, new)
    BY <1>1, <1>3, <1>4
  <2> QED BY ONLY <2>1, MoveStep
<1>6. Moved(TreeOf(v), d, name, e, new, i) = Moved(T, d, name, e, new, i)
  BY <1>1, PutDrop DEF Moved
<1>7. /\ DataIn(vnode') = DataIn(vnode)
      /\ TreeOf(vnode') = IF i \in DirsIn(vnode) THEN Grown(Moved(T, d, name, e, new, i), i, "..", e)
                          ELSE Moved(T, d, name, e, new, i)
  BY <1>5, <1>6 DEF SameFiles
<1> HIDE DEF T
<1>8. Table(vnode', next_ino')
  BY <1>5
<1> QED BY <1>7, <1>8, MoveShown DEF T

(* rename is a move, or changes nothing.                                    *)
LEMMA RenameKeeps ==
    ASSUME disk = DiskRead, disk' = disk, Table(vnode, next_ino),
           NEW d \in Dirs, NEW name \in Names, NEW e \in Dirs, NEW new \in Names, Rename(d, name, e, new)
    PROVE  Keeps
<1> DEFINE i == EntriesOf(vnode, d)[name]
           r == EntriesOf(vnode, e)[new]
<1>1. /\ d \in DirsIn(vnode) /\ name \in DOMAIN EntriesOf(vnode, d) /\ e \in DirsIn(vnode)
      /\ next_ino' = next_ino /\ Dirs = DirsIn(vnode)
      /\ (new \in DOMAIN EntriesOf(vnode, e) => r # i)
  BY ShownIs, EntriesAre DEF Rename, Has, Entries
<1>2. vnode' = IF new \notin DOMAIN EntriesOf(vnode, e) THEN Move(vnode, d, name, e, new)
               ELSE IF r \notin DirsIn(vnode) THEN Move(UnlinkEntry(vnode, e, new), d, name, e, new)
               ELSE IF DOMAIN EntriesOf(vnode, r) \subseteq {".", ".."}
                    THEN Move(RemoveDir(vnode, e, new), d, name, e, new)
               ELSE Copied(vnode, r)
  BY <1>1, EntriesAre DEF Rename, Has, Entries, Empty, Copied
<1>3. CASE new \notin DOMAIN EntriesOf(vnode, e)
  <2>1. /\ Table(vnode', next_ino) /\ SameFiles(vnode', vnode)
        /\ TreeOf(vnode') = IF i \in DirsIn(vnode)
                            THEN Grown(Moved(TreeOf(vnode), d, name, e, new, i), i, "..", e)
                            ELSE Moved(TreeOf(vnode), d, name, e, new, i)
    BY <1>1, <1>2, <1>3, MoveStep
  <2> QED BY <1>1, <1>3, <2>1, MoveShown DEF SameFiles
<1>4. CASE new \in DOMAIN EntriesOf(vnode, e) /\ r \notin DirsIn(vnode)
  <2> DEFINE v == UnlinkEntry(vnode, e, new)
  <2>1. Table(v, next_ino) /\ SameFiles(v, vnode) /\ TreeOf(v) = Shrunk(TreeOf(vnode), e, new)
    BY <1>1, <1>4, CutName
  <2>2. DOMAIN TreeOf(vnode)[r] \subseteq {".", ".."}
    BY <1>1, <1>4, FileIsEmpty
  <2>3. vnode' = Move(v, d, name, e, new)
    BY <1>2, <1>4
  <2> HIDE DEF v
  <2> QED BY <1>1, <1>4, <2>1, <2>2, <2>3, MoveOver
<1>5. CASE new \in DOMAIN EntriesOf(vnode, e) /\ r \in DirsIn(vnode) /\ DOMAIN EntriesOf(vnode, r) \subseteq {".", ".."}
  <2> DEFINE v == RemoveDir(vnode, e, new)
  <2>1. Table(v, next_ino) /\ SameFiles(v, vnode) /\ TreeOf(v) = Shrunk(TreeOf(vnode), e, new)
    BY <1>1, <1>5, DropDir
  <2>2. DOMAIN TreeOf(vnode)[r] \subseteq {".", ".."}
    BY <1>1, <1>5, FileIsEmpty
  <2>3. vnode' = Move(v, d, name, e, new)
    BY <1>2, <1>5
  <2> HIDE DEF v
  <2> QED BY <1>1, <1>5, <2>1, <2>2, <2>3, MoveOver
<1>6. CASE new \in DOMAIN EntriesOf(vnode, e) /\ r \in DirsIn(vnode) /\ ~(DOMAIN EntriesOf(vnode, r) \subseteq {".", ".."})
  <2>1. vnode' = Copied(vnode, r)
    BY <1>2, <1>6
  <2> QED BY <1>1, <1>6, <2>1, CopyStep, SameShown
<1> QED BY <1>3, <1>4, <1>5, <1>6


(* Every call on paths, but the making of a bare directory, keeps the table *)
(* and is a step of the tree.                                               *)
LEMMA TreeKeeps ==
    ASSUME disk = DiskRead, disk' = disk, Table(vnode, next_ino), TreeNext, NoBareDirectories'
    PROVE  Keeps
<1>1. CASE \E d \in Places : Chdir(d) \/ Chroot(d)
  <2>1. vnode' = vnode /\ next_ino' = next_ino
    BY <1>1 DEF Chdir, Chroot
  <2> QED BY <2>1, SameShown
<1>2. CASE TreeCall
  <2>1. ASSUME NEW d \in Parents, NEW name \in Names, NEW full \in BOOLEAN, Create(d, name, full) PROVE Keeps
    BY <2>1, ParentsAreDirs, CreateKeeps
  <2>2. ASSUME NEW d \in Parents, NEW name \in Names, NEW kind \in {"chr", "file", "dir"}, Mknod(d, name, kind)
        PROVE  Keeps
    <3>1. CASE kind = "dir"
      BY <2>2, <3>1, ParentsAreDirs, MknodBare
    <3>2. CASE kind \in {"chr", "file"}
      BY <2>2, <3>2, ParentsAreDirs, MknodKeeps
    <3> QED BY <2>2, <3>1, <3>2
  <2>3. ASSUME NEW d \in Parents, NEW name \in Names, Mkdir(d, name) PROVE Keeps
    BY <2>3, ParentsAreDirs, MkdirKeeps
  <2>4. ASSUME NEW d \in Parents, NEW name \in Names, Rmdir(d, name) PROVE Keeps
    BY <2>4, ParentsAreDirs, RmdirKeeps
  <2>5. ASSUME NEW d \in Parents, NEW name \in Names, Unlink(d, name) PROVE Keeps
    BY <2>5, ParentsAreDirs, UnlinkKeeps
  <2>6. ASSUME NEW d \in Parents, NEW name \in Names, NEW i \in Targets, Link(i, d, name) PROVE Keeps
    BY <2>6, ParentsAreDirs, LinkKeeps
  <2>7. ASSUME NEW d \in Parents, NEW name \in Names, NEW e \in Parents, NEW new \in Names,
               Rename(d, name, e, new)
        PROVE  Keeps
    BY <2>7, ParentsAreDirs, RenameKeeps
  <2>8. ASSUME NEW i, NEW truncate \in BOOLEAN, NEW full \in BOOLEAN, Open(i, truncate, full) PROVE Keeps
    BY <2>8, OpenKeeps
  <2>9. ASSUME NEW i, NEW mode \in {0, 1}, Chmod(i, mode) PROVE Keeps
    BY <2>9, ChmodKeeps
  <2>10. ASSUME NEW i \in Ino, vnode[i].open_refs > 0, Close(i) PROVE Keeps
    BY <2>10, CloseKeeps
  <2>11. ASSUME NEW i \in Ino, vnode[i].kind = "file", NEW offset \in 0 .. Len(DataOf(i)) + 1, Write(i, offset)
         PROVE  Keeps
    BY <2>11, WriteKeeps
  <2> QED BY <1>2, <2>1, <2>2, <2>3, <2>4, <2>5, <2>6, <2>7, <2>8, <2>9, <2>10, <2>11 DEF TreeCall
<1> QED BY <1>1, <1>2 DEF TreeNext

-----------------------------------------------------------------------------
(* The start: what mkfs made of a tree is a wired table.                    *)

(* The table before the first call.                                         *)
Mounted == [i \in Ino |-> IF i \in Base
                          THEN [kind |-> DiskRead[i].kind, mode |-> 0, nlinks |-> DiskRead[i].nlinks,
                                data |-> None, entries |-> None, base |-> TRUE,
                                open_refs |-> 0, deleted |-> FALSE]
                          ELSE NoInode]

(* Its entries are those of the image.                                      *)
LEMMA MountedTypes ==
    /\ Base \subseteq Ino /\ ROOT \in Base /\ Base = 1 .. NInodes /\ NInodes \in Nat
    /\ \A i \in Base : /\ DiskRead[i] \in DiskInode /\ Mounted[i].kind = DiskRead[i].kind
                       /\ Mounted[i].nlinks = DiskRead[i].nlinks /\ ~Mounted[i].deleted
                       /\ EntriesOf(Mounted, i) = DiskRead[i].entries
                       /\ ContentOf(Mounted, i) = DiskRead[i].data
    /\ \A i \in Ino \ Base : Mounted[i] = NoInode
    /\ GoneIn(Mounted) = {} /\ DirsIn(Mounted) \subseteq Base
    /\ DirsIn(Mounted) = {i \in Base : DiskRead[i].kind = "dir"}
<1>1. Base \subseteq Ino /\ ROOT \in Base /\ Base = 1 .. NInodes /\ NInodes \in Nat
  BY OverlayAssumption DEF Base, Ino, MaxIno, ROOT
<1>2. \A i \in Base : /\ DiskRead[i] \in DiskInode /\ Mounted[i].kind = DiskRead[i].kind
                      /\ Mounted[i].nlinks = DiskRead[i].nlinks /\ ~Mounted[i].deleted
                      /\ EntriesOf(Mounted, i) = DiskRead[i].entries
                      /\ ContentOf(Mounted, i) = DiskRead[i].data
  BY <1>1, MountedAssumption DEF SoundTree, Mounted, EntriesOf, ContentOf
<1>3. \A i \in Ino \ Base : Mounted[i] = NoInode
  BY DEF Mounted
<1>4. \A i \in Ino : ~Mounted[i].deleted
  BY <1>2, <1>3 DEF NoInode
<1>5. \A i \in Ino \ Base : Mounted[i].kind # "dir"
  BY <1>3, OverlayAssumption DEF NoInode
<1>6. DirsIn(Mounted) = {i \in Base : DiskRead[i].kind = "dir"}
  BY <1>1, <1>2, <1>5 DEF DirsIn
<1> QED BY <1>1, <1>2, <1>3, <1>4, <1>6 DEF GoneIn

(* A mounted image has the types of a table.                                *)
LEMMA MountedOK == TableOK(Mounted, NInodes + 1)
<1>1. NInodes + 1 \in NInodes + 1 .. MaxIno + 1
  BY OverlayAssumption DEF MaxIno
<1>2. ASSUME NEW i \in Base PROVE Mounted[i] \in VNode
  <2>1. Mounted[i] = [kind |-> DiskRead[i].kind, mode |-> 0, nlinks |-> DiskRead[i].nlinks,
                      data |-> None, entries |-> None, base |-> TRUE, open_refs |-> 0, deleted |-> FALSE]
    BY MountedTypes DEF Mounted
  <2>2. DiskRead[i].kind \in {"dir", "file", "chr"} /\ DiskRead[i].nlinks \in Nat
    BY MountedTypes DEF DiskInode
  <2> QED BY <2>1, <2>2 DEF VNode
<1>3. NoInode \in VNode /\ NoInode.kind = None /\ Blank(NoInode)
  BY DEF NoInode, VNode, Blank
<1>4. Mounted \in [Ino -> VNode]
  <2>1. \A i \in Ino : Mounted[i] \in VNode
    BY <1>2, <1>3, MountedTypes
  <2> QED BY <2>1 DEF Mounted
<1>5. ASSUME NEW i \in Ino, i \in Base
      PROVE  /\ Mounted[i].kind # None /\ ~(i >= NInodes + 1)
             /\ Mounted[i].kind = "dir" =>
                   /\ EntriesOf(Mounted, i) \in EntrySets
                   /\ "." \in DOMAIN EntriesOf(Mounted, i) /\ ".." \in DOMAIN EntriesOf(Mounted, i)
             /\ ContentOf(Mounted, i) \in Contents
  <2>1. DiskRead[i] \in DiskInode /\ ~(i >= NInodes + 1)
    BY <1>5, MountedTypes
  <2>2. /\ DiskRead[i].kind \in {"dir", "file", "chr"} /\ DiskRead[i].entries \in EntrySets
        /\ DiskRead[i].data \in Contents
    BY <2>1 DEF DiskInode
  <2>3. DiskRead[i].kind = "dir" => {".", ".."} \subseteq DOMAIN DiskRead[i].entries
    BY <1>5, MountedAssumption DEF SoundTree
  <2> QED BY <1>5, <2>1, <2>2, <2>3, MountedTypes, OverlayAssumption
<1>6. ASSUME NEW i \in Ino, i \notin Base
      PROVE  /\ Mounted[i].kind = None /\ i >= NInodes + 1 /\ Blank(Mounted[i])
             /\ Mounted[i].kind # "dir" /\ Mounted[i].kind # "file" /\ ~Mounted[i].base
  <2>1. Mounted[i] = NoInode
    BY <1>6, MountedTypes
  <2>2. i >= NInodes + 1
    BY <1>6, SlotsFinite, MountedTypes DEF Ino
  <2> QED BY <1>3, <2>1, <2>2, OverlayAssumption DEF Blank
<1>7. ASSUME NEW i \in Ino
      PROVE  /\ Mounted[i].kind = None <=> i >= NInodes + 1
             /\ i >= NInodes + 1 => Blank(Mounted[i])
             /\ Mounted[i].base => i \in Base
             /\ Mounted[i].kind = "dir" =>
                   /\ EntriesOf(Mounted, i) \in EntrySets
                   /\ "." \in DOMAIN EntriesOf(Mounted, i) /\ ".." \in DOMAIN EntriesOf(Mounted, i)
             /\ Mounted[i].kind = "file" => ContentOf(Mounted, i) \in Contents
  BY <1>5, <1>6
<1> QED BY <1>1, <1>4, <1>7 DEF TableOK


(* Its slots are the entries of the image.                                  *)
LEMMA MountedSlots ==
    /\ \A i \in DirsIn(Mounted), x \in AllNames :
          /\ MapIn(Mounted)[<<i, x>>] = At(DiskRead[i].entries, x)
          /\ At(DiskRead[i].entries, x) \in Base \cup {0}
    /\ \A s \in Slots : s[1] \notin DirsIn(Mounted) => MapIn(Mounted)[s] = 0
    /\ MapIn(Mounted) \in [Slots -> Base \cup {0}]
<1>1. ASSUME NEW s \in Slots PROVE MapIn(Mounted)[s] = At(TreeOf(Mounted)[s[1]], s[2])
  BY MountedTypes DEF MapIn, MapOf
<1>2. ASSUME NEW i \in DirsIn(Mounted), NEW x \in AllNames
      PROVE  /\ MapIn(Mounted)[<<i, x>>] = At(DiskRead[i].entries, x)
             /\ At(DiskRead[i].entries, x) \in Base \cup {0}
  <2>1. i \in Base /\ i \in Ino /\ DiskRead[i].kind = "dir" /\ Mounted[i].kind = "dir"
    BY MountedTypes
  <2>2. TreeOf(Mounted)[i] = DiskRead[i].entries
    BY <2>1, MountedTypes DEF TreeOf
  <2>3. <<i, x>> \in Slots
    BY <2>1 DEF Slots
  <2>4. \A y \in DOMAIN DiskRead[i].entries : DiskRead[i].entries[y] \in Base
    BY <2>1, MountedAssumption DEF SoundTree
  <2> QED BY <1>1, <2>2, <2>3, <2>4 DEF At
<1>3. ASSUME NEW s \in Slots, s[1] \notin DirsIn(Mounted) PROVE MapIn(Mounted)[s] = 0
  <2>1. TreeOf(Mounted)[s[1]] = <<>>
    BY <1>3 DEF Slots, DirsIn, TreeOf
  <2> QED BY <1>1, <2>1, NoEntries
<1>4. ASSUME NEW s \in Slots PROVE MapIn(Mounted)[s] \in Base \cup {0}
  <2>1. s = <<s[1], s[2]>> /\ s[2] \in AllNames
    BY DEF Slots
  <2> QED BY <1>2, <1>3, <2>1
<1> QED BY <1>2, <1>3, <1>4 DEF MapIn, MapOf

(* It counts slots and names as the image does.                             *)
LEMMA MountedRefs ==
    ASSUME NEW i \in Base
    PROVE  /\ Refs(MapIn(Mounted), i) = DiskReferrers(DiskRead, i)
           /\ Named(MapIn(Mounted), i) = DiskNames(DiskRead, i)
<1> DEFINE m == MapIn(Mounted)
<1>0. 0 \notin Base
  BY MountedTypes
<1>1. ASSUME NEW s \in Slots, m[s] = i PROVE s \in DiskReferrers(DiskRead, i)
  <2>1. s = <<s[1], s[2]>> /\ s[2] \in AllNames
    BY DEF Slots
  <2>2. s[1] \in DirsIn(Mounted)
    BY <1>0, <1>1, MountedSlots
  <2>3. At(DiskRead[s[1]].entries, s[2]) = i
    BY <1>1, <2>1, <2>2, MountedSlots
  <2>4. s[2] \in DOMAIN DiskRead[s[1]].entries /\ DiskRead[s[1]].entries[s[2]] = i
    BY <1>0, <2>3 DEF At
  <2>5. s[1] \in Base /\ DiskRead[s[1]].kind = "dir" /\ s \in Base \X AllNames
    BY <2>1, <2>2, MountedTypes
  <2> QED BY <2>4, <2>5 DEF DiskReferrers
<1>2. ASSUME NEW s \in DiskReferrers(DiskRead, i) PROVE s \in Slots /\ m[s] = i
  <2>1. /\ s \in Base \X AllNames /\ DiskRead[s[1]].kind = "dir"
        /\ s[2] \in DOMAIN DiskRead[s[1]].entries /\ DiskRead[s[1]].entries[s[2]] = i
    BY DEF DiskReferrers
  <2>2. s = <<s[1], s[2]>> /\ s[1] \in DirsIn(Mounted) /\ s[2] \in AllNames
    BY <2>1, MountedTypes
  <2>3. At(DiskRead[s[1]].entries, s[2]) = i
    BY <2>1 DEF At
  <2>4. s \in Slots
    BY <2>1, MountedTypes DEF Slots
  <2> QED BY <2>2, <2>3, <2>4, MountedSlots
<1> HIDE DEF m
<1>3. Refs(m, i) = DiskReferrers(DiskRead, i)
  BY <1>1, <1>2 DEF Refs
<1>4. Named(m, i) = DiskNames(DiskRead, i)
  BY <1>1, <1>2 DEF Named, DiskNames
<1> QED BY <1>3, <1>4 DEF m

(* A sound image is wired when it is mounted.                               *)
LEMMA MountedWired == TableWired(Mounted, NInodes + 1)
<1> DEFINE m == MapIn(Mounted)
           D == DirsIn(Mounted)
           nl == CountsIn(Mounted)
           n == NInodes + 1
<1>1. /\ n \in NInodes + 1 .. MaxIno + 1 /\ n - 1 = NInodes /\ 1 .. n - 1 = Base
      /\ Base \cup {0} = 0 .. n - 1
  BY OverlayAssumption, MountedTypes DEF MaxIno
<1>2. /\ D \subseteq Base /\ nl \in [Ino -> Nat] /\ m \in [Slots -> Base \cup {0}]
  BY MountedOK, TableTypes, MountedTypes, MountedSlots
<1>3. \A s \in Slots : m[s] # 0 => s[1] \in D
  BY MountedSlots
<1>4. ASSUME NEW i \in D
      PROVE  /\ m[<<i, ".">>] = i /\ m[<<i, "..">>] \in D
             /\ i # ROOT => HasName(m, i, m[<<i, "..">>])
  <2>1. i \in Base /\ DiskRead[i].kind = "dir" /\ "." \in AllNames /\ ".." \in AllNames
    BY MountedTypes DEF AllNames
  <2>2. /\ "." \in DOMAIN DiskRead[i].entries /\ ".." \in DOMAIN DiskRead[i].entries
        /\ DiskRead[i].entries["."] = i /\ DiskRead[i].entries[".."] \in Base
        /\ DiskRead[DiskRead[i].entries[".."]].kind = "dir"
        /\ i # ROOT => \E name \in Names : DiskNames(DiskRead, i) = {<<DiskRead[i].entries[".."], name>>}
    BY <2>1, MountedAssumption DEF SoundTree
  <2>3. m[<<i, ".">>] = i /\ m[<<i, "..">>] = DiskRead[i].entries[".."]
    BY <2>1, <2>2, MountedSlots DEF At
  <2>4. DiskRead[i].entries[".."] \in D
    BY <2>2, MountedTypes
  <2>5. ASSUME i # ROOT PROVE HasName(m, i, m[<<i, "..">>])
    <3>1. PICK name \in Names : DiskNames(DiskRead, i) = {<<DiskRead[i].entries[".."], name>>}
      BY <2>2, <2>5
    <3>2. Named(m, i) = {<<m[<<i, "..">>], name>>}
      BY <2>1, <2>3, <3>1, MountedRefs
    <3> QED BY <3>2 DEF HasName, IsNamed
  <2> QED BY <2>3, <2>4, <2>5
<1>5. ASSUME NEW i \in Base PROVE nl[i] = Count(m, i)
  <2>1. nl[i] = DiskRead[i].nlinks
    BY MountedTypes DEF CountsIn
  <2>2. DiskRead[i].nlinks = Cardinality(DiskReferrers(DiskRead, i))
    BY MountedAssumption DEF SoundTree
  <2> QED BY <2>1, <2>2, MountedRefs DEF Count
<1>6. ROOT \in D /\ Named(m, ROOT) = {}
  BY MountedTypes, MountedRefs, MountedAssumption DEF SoundTree
<1> HIDE DEF m, D, nl, n
<1>7. Wired(D, {}, nl, n, m)
  BY <1>1, <1>2, <1>3, <1>4, <1>5, <1>6 DEF Wired
<1>8. MapOf(TreeOf(Mounted), GoneIn(Mounted)) = m /\ GoneIn(Mounted) = {}
  BY MountedTypes DEF m, MapIn
<1> QED BY <1>7, <1>8 DEF TableWired, m, D, nl, n

(* FSInv holds before the check.                                            *)
LEMMA FSInitInv == FSInit => FSInv
<1> SUFFICES ASSUME FSInit PROVE FSInv
  OBVIOUS
<1>1. disk = DiskRead /\ next_ino = NInodes + 1
  BY DEF FSInit, TreeInit
<1>2. vnode = Mounted
  BY <1>1 DEF FSInit, TreeInit, Mounted, FromBase
<1> QED BY <1>1, <1>2, MountedOK, MountedWired DEF FSInv

(* Every step of the checker and of the overlay keeps FSInv.                *)
LEMMA FSNextInv == FSInv /\ [Checks \/ Runs]_allVars /\ NoBareDirectories' => FSInv'
<1> SUFFICES ASSUME FSInv, [Checks \/ Runs]_allVars, NoBareDirectories' PROVE FSInv'
  OBVIOUS
<1>1. disk = DiskRead /\ Table(vnode, next_ino)
  BY DEF FSInv, Table
<1>2. CASE Checks \/ UNCHANGED allVars
  <2>1. disk' = disk /\ vnode' = vnode /\ next_ino' = next_ino
    BY <1>2 DEF Checks, allVars, treeVars
  <2> QED BY <1>1, <2>1 DEF FSInv, Table
<1>3. CASE Runs
  <2>1. TreeNext /\ disk' = disk
    BY <1>3 DEF Runs, TreeNext
  <2>2. Table(vnode', next_ino')
    BY <1>1, <2>1, TreeKeeps DEF Keeps
  <2> QED BY <1>1, <2>1, <2>2 DEF FSInv, Table
<1> QED BY <1>2, <1>3


-----------------------------------------------------------------------------
(* The properties.                                                          *)

(* The entries that name an inode are the slots of the map.                 *)
LEMMA ReferrersAre ==
    ASSUME FSInv, NEW i \in Ino
    PROVE  /\ Referrers(i) = Refs(MapIn(vnode), i)
           /\ {s \in Referrers(i) : s[2] \in Names} = Named(MapIn(vnode), i)
<1> DEFINE m == MapIn(vnode)
<1>1. i # 0 /\ disk = DiskRead /\ Dirs = DirsIn(vnode)
  BY SlotsFinite, ShownIs DEF FSInv, Ino
<1>2. ASSUME NEW s \in Slots
      PROVE  /\ s[1] \in Ino /\ s[2] \in AllNames /\ s = <<s[1], s[2]>>
             /\ s[2] \in Names <=> s[2] \notin {".", ".."}
             /\ m[s] = IF s[2] \in Names \/ ~vnode[s[1]].deleted THEN At(TreeOf(vnode)[s[1]], s[2]) ELSE 0
  BY OverlayAssumption DEF Slots, AllNames, MapIn, MapOf, GoneIn
<1>3. ASSUME NEW j \in Ino, j \notin Dirs PROVE \A x : At(TreeOf(vnode)[j], x) = 0
  <2>1. TreeOf(vnode)[j] = <<>>
    BY <1>1, <1>3 DEF TreeOf, DirsIn
  <2> QED BY <2>1, NoEntries
<1>4. ASSUME NEW j \in Dirs PROVE TreeOf(vnode)[j] = Entries(j) /\ j \in Ino
  BY <1>1, EntriesAre DEF TreeOf, DirsIn, Entries
<1> HIDE DEF m
<1>5. ASSUME NEW s \in Refs(m, i) PROVE s \in Referrers(i)
  <2>1. s \in Slots /\ m[s] = i
    BY DEF Refs
  <2>2. At(TreeOf(vnode)[s[1]], s[2]) = i /\ (s[2] \in {".", ".."} => ~vnode[s[1]].deleted)
    BY <1>1, <1>2, <2>1
  <2>3. s[1] \in Dirs
    BY <1>1, <1>2, <1>3, <2>1, <2>2
  <2>4. At(Entries(s[1]), s[2]) = i
    BY <1>4, <2>2, <2>3
  <2>5. Has(s[1], s[2]) /\ Entries(s[1])[s[2]] = i
    BY <1>1, <2>4 DEF At, Has
  <2>6. s \in Dirs \X AllNames
    BY <1>2, <2>1, <2>3
  <2> QED BY <2>2, <2>5, <2>6 DEF Referrers
<1>6. ASSUME NEW s \in Referrers(i) PROVE s \in Refs(m, i)
  <2>1. /\ s \in Dirs \X AllNames /\ Has(s[1], s[2]) /\ Entries(s[1])[s[2]] = i
        /\ s[2] \in {".", ".."} => ~vnode[s[1]].deleted
    BY DEF Referrers
  <2>2. s[1] \in Dirs /\ s \in Slots
    BY <1>4, <2>1 DEF Slots
  <2>3. At(TreeOf(vnode)[s[1]], s[2]) = i
    BY <1>4, <2>1, <2>2 DEF At, Has
  <2> QED BY <1>2, <2>1, <2>2, <2>3 DEF Refs
<1>7. Refs(m, i) = Referrers(i)
  BY <1>5, <1>6
<1> QED BY <1>7 DEF Refs, Named, m

(* FSInv gives exact link counts,                                           *)
LEMMA InvLinks == FSInv => LinksExact
<1> SUFFICES ASSUME FSInv, NEW i \in Used
             PROVE  IF vnode[i].deleted THEN \A s \in Referrers(i) : s[2] \in {".", ".."}
                    ELSE vnode[i].nlinks = Cardinality(Referrers(i))
  BY DEF LinksExact
<1> DEFINE m == MapIn(vnode)
<1>1. i \in Ino /\ i \in 1 .. next_ino - 1
  BY TableTypes DEF FSInv, Used
<1>2. Wired(DirsIn(vnode), GoneIn(vnode), CountsIn(vnode), next_ino, m)
  BY DEF FSInv, TableWired, MapIn
<1>3. CASE vnode[i].deleted
  <2>1. Named(m, i) = {}
    BY <1>1, <1>2, <1>3 DEF Wired, GoneIn
  <2>2. {s \in Referrers(i) : s[2] \in Names} = {}
    BY <1>1, <2>1, ReferrersAre
  <2>3. \A s \in Referrers(i) : s[2] \in AllNames
    BY DEF Referrers
  <2> QED BY <1>3, <2>2, <2>3 DEF AllNames
<1>4. CASE ~vnode[i].deleted
  <2>1. CountsIn(vnode)[i] = Count(m, i)
    BY <1>1, <1>2, <1>4 DEF Wired, GoneIn
  <2> QED BY <1>1, <1>4, <2>1, ReferrersAre DEF CountsIn, Count
<1> QED BY <1>3, <1>4

(* the right parents,                                                       *)
LEMMA InvDotDot == FSInv => DotDotRight
<1> SUFFICES ASSUME FSInv, NEW i \in Dirs \ {ROOT}, ~vnode[i].deleted
             PROVE  \E name \in Names : {s \in Referrers(i) : s[2] \in Names} = {<<Entries(i)[".."], name>>}
  BY DEF DotDotRight
<1> DEFINE m == MapIn(vnode)
<1>1. i \in Ino /\ i \in DirsIn(vnode) /\ i \notin GoneIn(vnode) /\ disk = DiskRead
  BY DEF FSInv, Dirs, DirsIn, GoneIn
<1>2. Wired(DirsIn(vnode), GoneIn(vnode), CountsIn(vnode), next_ino, m)
  BY DEF FSInv, TableWired, MapIn
<1>3. HasName(m, i, m[<<i, "..">>])
  BY <1>1, <1>2 DEF Wired
<1>4. m[<<i, "..">>] = Entries(i)[".."]
  <2>1. TreeOf(vnode)[i] = Entries(i) /\ ".." \in DOMAIN Entries(i)
    BY <1>1, EntriesAre DEF FSInv, TableOK, TreeOf, DirsIn, Entries
  <2>2. <<i, "..">> \in Slots
    BY <1>1 DEF Slots, AllNames
  <2> QED BY <1>1, <2>1, <2>2 DEF MapIn, MapOf, At
<1> HIDE DEF m
<1>5. PICK name \in Names : Named(m, i) = {<<Entries(i)[".."], name>>}
  BY <1>3, <1>4 DEF HasName, IsNamed
<1> QED BY <1>1, <1>5, ReferrersAre DEF m

(* and that saving and loading give the same tree.                          *)
LEMMA InvReload == FSInv => ReloadKeepsTree
<1> SUFFICES ASSUME FSInv, NEW i \in Used
             PROVE  /\ i \in Dirs => EntriesIn(Reloaded, i) = Entries(i)
                    /\ vnode[i].kind = "file" =>
                          DataOf(i) = (IF Reloaded[i].data = None THEN disk[i].data ELSE Reloaded[i].data)
  BY DEF ReloadKeepsTree
<1>1. i \in Ino /\ vnode \in [Ino -> VNode] /\ (vnode[i].base => i \in Base)
  BY TableTypes DEF FSInv, Used, TableOK
<1>2. vnode[i] \in VNode
  BY <1>1
<1>3. CASE Skipped(i)
  <2>1. i \in Base /\ vnode[i].data = None /\ vnode[i].entries = None /\ vnode[i].base
    BY <1>1, <1>3 DEF Skipped
  <2>2. Reloaded[i].data = None /\ Reloaded[i].entries = None /\ Reloaded[i].base
    BY <1>1, <1>3, <2>1 DEF Reloaded, FromBase
  <2> QED BY <2>1, <2>2 DEF EntriesIn, Entries, DataOf
<1>4. CASE ~Skipped(i)
  <2>1. Reloaded[i] = [vnode[i] EXCEPT !.open_refs = 0]
    BY <1>1, <1>4 DEF Reloaded
  <2>2. Reloaded[i].data = vnode[i].data /\ Reloaded[i].entries = vnode[i].entries /\ Reloaded[i].base = vnode[i].base
    BY <1>2, <2>1 DEF VNode
  <2> QED BY <2>2 DEF EntriesIn, Entries, DataOf
<1> QED BY <1>3, <1>4

(* The table stays in order and wired in every run in which mknod makes no  *)
(* directory.                                                               *)
THEOREM FileSystemInvariantHolds == FSSpec /\ []NoBareDirectories => []FSInv
<1>1. FSInit => FSInv
  BY FSInitInv
<1>2. FSInv /\ [Checks \/ Runs]_allVars /\ NoBareDirectories' => FSInv'
  BY FSNextInv
<1> QED BY <1>1, <1>2, PTL DEF FSSpec

(* Through every create, link, rename and removal (_link_entry,             *)
(* _unlink_entry, rename, rmdir), nlinks of an inode is the number of       *)
(* entries that name it, and what unlink declared gone is named by no one,  *)
(* on any sound image, with any number of inodes and names; unless root     *)
(* makes a directory with mknod, which gives it no ".." and its parent no   *)
(* link for one.                                                            *)
THEOREM LinkCountsAreExact == FSSpec /\ []NoBareDirectories => []LinksExact
<1>1. FSInv => LinksExact
  BY InvLinks
<1> QED BY <1>1, FileSystemInvariantHolds, PTL

(* A directory keeps one name, and its ".." is the directory that has it:   *)
(* also after rename moved it elsewhere, over another one or below itself;  *)
(* unless root makes a directory with mknod.                                *)
THEOREM DotDotIsRight == FSSpec /\ []NoBareDirectories => []DotDotRight
<1>1. FSInv => DotDotRight
  BY InvDotDot
<1> QED BY <1>1, FileSystemInvariantHolds, PTL

(* What export_changes saves and import_changes loads again over the same   *)
(* image is the tree, with the contents, that was there (where mknod made   *)
(* no directory).                                                           *)
THEOREM SavedTreeIsLoaded == FSSpec /\ []NoBareDirectories => []ReloadKeepsTree
<1>1. FSInv => ReloadKeepsTree
  BY InvReload
<1> QED BY <1>1, FileSystemInvariantHolds, PTL

(* Copying on the first write (_ensure_writable) cannot be seen: every step *)
(* of the overlay is a step of FileTree, or none.                           *)
LEMMA FSNextShown ==
    FSInv /\ [Checks \/ Runs]_allVars /\ NoBareDirectories' => [Visible!Next]_(<<ShownData, ShownTree>>)
<1> SUFFICES ASSUME FSInv, [Checks \/ Runs]_allVars, NoBareDirectories'
             PROVE  Visible!Next \/ UNCHANGED <<ShownData, ShownTree>>
  OBVIOUS
<1>1. disk = DiskRead /\ Table(vnode, next_ino)
  BY DEF FSInv, Table
<1>2. CASE Checks \/ UNCHANGED allVars
  <2>1. disk' = disk /\ vnode' = vnode /\ next_ino' = next_ino
    BY <1>2 DEF Checks, allVars, treeVars
  <2>2. TreeOf(vnode') = TreeOf(vnode) /\ DataIn(vnode') = DataIn(vnode)
    BY <2>1
  <2>3. UNCHANGED <<ShownData, ShownTree>>
    BY <1>1, <2>1, <2>2, ShownNext
  <2> QED BY <2>3
<1>3. CASE Runs
  <2>1. TreeNext /\ disk' = disk
    BY <1>3 DEF Runs, TreeNext
  <2> QED BY <1>1, <2>1, TreeKeeps DEF Keeps
<1> QED BY <1>2, <1>3

(* Copying on the first write cannot be seen: every step of OverlayFS is a  *)
(* step of a file system written in place, or none (where mknod made no     *)
(* directory).                                                              *)
THEOREM OverlayImplementsFileTree == FSSpec /\ []NoBareDirectories => ImplementsFileTree
<1>1. FSInv /\ [Checks \/ Runs]_allVars /\ NoBareDirectories' => [Visible!Next]_(Visible!vars)
  BY FSNextShown DEF Visible!vars, ShownData, ShownTree
<1> QED BY <1>1, FileSystemInvariantHolds, PTL DEF FSSpec, ImplementsFileTree, Visible!Spec

===============================================================================
