---------------------------- MODULE Descriptors_proofs ----------------------------
(***************************************************************************)
(* Proofs about Descriptors: the counters of the kernel are exact for any  *)
(* number of processes, descriptors, OpenFiles, pipes and inodes.          *)
(*                                                                         *)
(* The argument.  The three exactness invariants are inductive only        *)
(* together: releasing descriptors drops the record of an OpenFile when    *)
(* its count says nobody names it, which is right only if that count is    *)
(* exact, and the pipe counters read those records.  ExactIn states their  *)
(* conjunction for given tables, so that it can also be applied to the     *)
(* tables halfway through dup2, which closes before it renames.  Two       *)
(* lemmas, about releasing a set of descriptors and about acquiring one,   *)
(* carry close, dup, dup2, exec and exit; the rest is case by case.        *)
(*                                                                         *)
(* The counts are exact for the table Counted: fds without the descriptors *)
(* that _spawn released and did not empty.  Nobody else names what those   *)
(* name (HalfMadeApart), so they disturb no count until their process ends.*)
(***************************************************************************)
EXTENDS Descriptors, FiniteSetTheorems, TLAPS

NamesIn(F, f) == {s \in Slots : F[s[1]][s[2]] = f}

ReadsIn(fl, f, pp)  == f # None /\ fl[f].obj = pp /\ fl[f].access \in {"r", "rw"}
WritesIn(fl, f, pp) == f # None /\ fl[f].obj = pp /\ fl[f].access \in {"w", "rw"}

ReadSlotsIn(F, fl, pp)  == {s \in Slots : ReadsIn(fl, F[s[1]][s[2]], pp)}
WriteSlotsIn(F, fl, pp) == {s \in Slots : WritesIn(fl, F[s[1]][s[2]], pp)}

OpenersIn(F, fl, v) == {f \in Files : fl[f].obj = v /\ NamesIn(F, f) # {}}

TypeIn(F, fl, rd, wr, orf) ==
    /\ F \in [Pids -> [FD -> Files \cup {None}]]
    /\ fl \in [Files -> OpenFile]
    /\ rd \in [Pipes -> Nat]
    /\ wr \in [Pipes -> Nat]
    /\ orf \in [VNodes -> Nat]

ExactIn(F, fl, rd, wr, orf) ==
    /\ \A f \in Files : fl[f].refs = Cardinality(NamesIn(F, f))
    /\ \A pp \in Pipes : rd[pp] = Cardinality(ReadSlotsIn(F, fl, pp))
    /\ \A pp \in Pipes : wr[pp] = Cardinality(WriteSlotsIn(F, fl, pp))
    /\ \A v \in VNodes : orf[v] = Cardinality(OpenersIn(F, fl, v))

Counted ==
    [p \in Pids |-> [d \in FD |-> IF p \in half_made /\ d = 0 THEN None ELSE fds[p][d]]]

CountedFds(p) == {d \in FD : Counted[p][d] # None}

(* A half-made child's fd 0 names an OpenFile of its own, on a device.      *)
HalfMadeApart ==
    /\ \A p \in half_made : /\ fds[p][0] \in Files
                            /\ file[fds[p][0]].obj = Device
                            /\ file[fds[p][0]].refs = 0
    /\ \A p, q \in half_made : fds[p][0] = fds[q][0] => p = q

IInv ==
    /\ fds \in [Pids -> [FD -> Files \cup {None}]]
    /\ half_made \subseteq Pids
    /\ TypeIn(Counted, file, readers, writers, open_refs)
    /\ close_on_exec \in [Pids -> SUBSET FD]
    /\ ExactIn(Counted, file, readers, writers, open_refs)
    /\ HalfMadeApart

-----------------------------------------------------------------------------
(* Counting slots.                                                          *)

Lift(p, D) == {<<p, d>> : d \in D}

(* There are finitely many descriptor slots, so every set of them counts.   *)
LEMMA SlotsFinite ==
    /\ IsFiniteSet(FD)
    /\ IsFiniteSet(Slots)
<1>1. IsFiniteSet(FD)
  BY FS_Interval, DescriptorsAssumption DEF FD
<1>2. IsFiniteSet(Slots)
  BY <1>1, FS_Product, DescriptorsAssumption DEF Slots
<1> QED BY <1>1, <1>2

(* Every set of slots that the invariants count is finite.                  *)
LEMMA SlotSetFinite ==
    ASSUME NEW S, S \subseteq Slots
    PROVE  IsFiniteSet(S) /\ Cardinality(S) \in Nat
BY SlotsFinite, FS_Subset, FS_CardinalityType

(* The slots of descriptors D of one process are as many as D.              *)
LEMMA LiftCard ==
    ASSUME NEW p \in Pids, NEW D, D \subseteq FD
    PROVE  /\ IsFiniteSet(D) /\ Cardinality(D) \in Nat
           /\ IsFiniteSet(Lift(p, D))
           /\ Cardinality(Lift(p, D)) = Cardinality(D)
           /\ Lift(p, D) \subseteq Slots
<1>1. IsFiniteSet(D) /\ Cardinality(D) \in Nat
  BY SlotsFinite, FS_Subset, FS_CardinalityType
<1> DEFINE g == [d \in D |-> <<p, d>>]
<1>2. g \in Bijection(D, Lift(p, D))
  BY DEF Bijection, Injection, Surjection, IsInjective, Lift
<1>3. ExistsBijection(D, Lift(p, D))
  BY <1>2 DEF ExistsBijection
<1>4. Lift(p, D) \subseteq Slots
  BY DEF Lift, Slots
<1> QED BY <1>1, <1>3, <1>4, FS_Bijection

(* Removing a subset: what happens to the count.                            *)
LEMMA CardRemove ==
    ASSUME NEW S, IsFiniteSet(S), NEW T, T \subseteq S
    PROVE  /\ Cardinality(S \ T) = Cardinality(S) - Cardinality(T)
           /\ Cardinality(T) <= Cardinality(S)
           /\ Cardinality(S) \in Nat /\ Cardinality(T) \in Nat
<1>1. S \cap T = T
  OBVIOUS
<1>2. Cardinality(S \ T) = Cardinality(S) - Cardinality(S \cap T)
  BY FS_Difference
<1>3. IsFiniteSet(T) /\ Cardinality(T) <= Cardinality(S)
  BY FS_Subset
<1>4. Cardinality(S) \in Nat /\ Cardinality(T) \in Nat
  BY <1>3, FS_CardinalityType
<1> QED BY <1>1, <1>2, <1>3, <1>4

(* Adding one new element.                                                  *)
LEMMA CardAdd ==
    ASSUME NEW S, IsFiniteSet(S), NEW x, x \notin S
    PROVE  Cardinality(S \cup {x}) = Cardinality(S) + 1 /\ Cardinality(S) \in Nat
<1>1. Cardinality(S \cup {x}) = IF x \in S THEN Cardinality(S) ELSE Cardinality(S) + 1
  BY FS_AddElement
<1> QED BY <1>1, FS_CardinalityType

(* Joining disjoint finite sets.                                            *)
LEMMA CardDisjoint ==
    ASSUME NEW S, IsFiniteSet(S), NEW T, IsFiniteSet(T), S \cap T = {}
    PROVE  /\ Cardinality(S \cup T) = Cardinality(S) + Cardinality(T)
           /\ Cardinality(S) \in Nat /\ Cardinality(T) \in Nat
<1>1. Cardinality(S) \in Nat /\ Cardinality(T) \in Nat
  BY FS_CardinalityType
<1>2. Cardinality(S \cap T) = 0
  BY FS_EmptySet
<1>3. Cardinality(S \cup T) = Cardinality(S) + Cardinality(T) - Cardinality(S \cap T)
  BY FS_Union
<1> QED BY <1>1, <1>2, <1>3

-----------------------------------------------------------------------------
(* The table that counts.                                                   *)

(* Counted differs from fds at fd 0 of the half-made children only.         *)
LEMMA CountedIs ==
    ASSUME IInv
    PROVE  /\ 0 \in FD
           /\ Counted \in [Pids -> [FD -> Files \cup {None}]]
           /\ \A p \in Pids : p \notin half_made => Counted[p] = fds[p]
           /\ \A p \in Pids, d \in FD :
                 Counted[p][d] = IF p \in half_made /\ d = 0 THEN None ELSE fds[p][d]
           /\ \A p \in Pids : CountedFds(p) \subseteq OpenFds(p)
<1>1. 0 \in FD
  BY DescriptorsAssumption DEF FD
<1>2. \A p \in Pids, d \in FD :
         Counted[p][d] = IF p \in half_made /\ d = 0 THEN None ELSE fds[p][d]
  BY DEF Counted
<1>3. Counted \in [Pids -> [FD -> Files \cup {None}]]
  BY DEF IInv, TypeIn
<1>4. \A p \in Pids : p \notin half_made => Counted[p] = fds[p]
  BY <1>2, <1>3 DEF IInv
<1>5. \A p \in Pids : CountedFds(p) \subseteq OpenFds(p)
  BY <1>2 DEF CountedFds, OpenFds
<1> QED BY <1>1, <1>2, <1>3, <1>4, <1>5

(* Nobody whose descriptors count names what a half-made child's fd 0 does. *)
LEMMA NobodySharesHalf ==
    ASSUME IInv, NEW q \in half_made
    PROVE  /\ q \in Pids /\ fds[q][0] \in Files /\ fds[q][0] # None
           /\ file[fds[q][0]].obj = Device /\ file[fds[q][0]].refs = 0
           /\ NamesIn(Counted, fds[q][0]) = {}
           /\ \A p \in Pids, d \in FD : Counted[p][d] # fds[q][0]
           /\ \A p \in Pids : p \notin half_made => \A d \in FD : fds[p][d] # fds[q][0]
<1> DEFINE f == fds[q][0]
<1>1. q \in Pids /\ f \in Files /\ f # None /\ file[f].obj = Device /\ file[f].refs = 0
  BY DescriptorsAssumption DEF IInv, HalfMadeApart
<1>2. Cardinality(NamesIn(Counted, f)) = 0
  BY <1>1 DEF IInv, ExactIn
<1>3. NamesIn(Counted, f) = {}
  BY <1>2, FS_EmptySet, SlotSetFinite DEF NamesIn
<1>4. \A p \in Pids, d \in FD : Counted[p][d] # f
  <2> TAKE p \in Pids, d \in FD
  <2>1. <<p, d>> \in Slots /\ <<p, d>> \notin NamesIn(Counted, f)
    BY <1>3 DEF Slots
  <2> QED BY <2>1 DEF NamesIn
<1> HIDE DEF f
<1>5. \A p \in Pids : p \notin half_made => \A d \in FD : fds[p][d] # f
  BY <1>4, CountedIs
<1> QED BY <1>1, <1>3, <1>4, <1>5 DEF f

(* A step of a process that runs changes the counted table in its row only. *)
LEMMA CountedStep ==
    ASSUME IInv, NEW p \in Pids, p \notin half_made, half_made' = half_made,
           NEW row, row \in [FD -> Files \cup {None}], fds' = [fds EXCEPT ![p] = row]
    PROVE  /\ fds' \in [Pids -> [FD -> Files \cup {None}]]
           /\ Counted' = [Counted EXCEPT ![p] = row]
           /\ \A q \in half_made : fds'[q][0] = fds[q][0]
<1>1. fds' \in [Pids -> [FD -> Files \cup {None}]]
  BY DEF IInv
<1>2. \A q \in Pids : fds'[q] = IF q = p THEN row ELSE fds[q]
  BY DEF IInv
<1>3. Counted' = [q \in Pids |-> [d \in FD |-> IF q \in half_made /\ d = 0 THEN None
                                                ELSE fds'[q][d]]]
  BY DEF Counted
<1>4. Counted = [q \in Pids |-> [d \in FD |-> IF q \in half_made /\ d = 0 THEN None
                                               ELSE fds[q][d]]]
  BY DEF Counted
<1>5. \A q \in Pids : Counted'[q] = [Counted EXCEPT ![p] = row][q]
  <2> TAKE q \in Pids
  <2>1. CASE q = p
    <3>1. Counted'[p] = [d \in FD |-> row[d]]
      BY <1>2, <1>3
    <3> QED BY <2>1, <3>1, <1>4
  <2>2. CASE q # p
    BY <2>2, <1>2, <1>3, <1>4
  <2> QED BY <2>1, <2>2
<1>6. Counted' = [Counted EXCEPT ![p] = row]
  BY <1>3, <1>4, <1>5
<1>7. \A q \in half_made : fds'[q][0] = fds[q][0]
  BY <1>2 DEF IInv
<1> QED BY <1>1, <1>6, <1>7

(* What half-made children name stays apart if nobody touches it.           *)
LEMMA ApartStep ==
    ASSUME IInv, half_made' = half_made,
           \A q \in half_made : fds'[q][0] = fds[q][0],
           \A q \in half_made : file'[fds[q][0]].obj = Device /\ file'[fds[q][0]].refs = 0
    PROVE  HalfMadeApart'
BY DEF IInv, HalfMadeApart

-----------------------------------------------------------------------------
(* Releasing the descriptors D of one process.                              *)

Cleared(p, D) ==
    [Counted EXCEPT ![p] = [d \in FD |-> IF d \in D THEN None ELSE Counted[p][d]]]

(* _release_file over D, with the slots of D emptied, keeps every count     *)
(* exact.                                                                   *)
LEMMA ReleaseExact ==
    ASSUME IInv, NEW p \in Pids, NEW D, D \subseteq CountedFds(p)
    PROVE  /\ TypeIn(Cleared(p, D), ReleaseFiles(p, D), ReleaseReaders(p, D),
                     ReleaseWriters(p, D), ReleaseOpenRefs(p, D))
           /\ ExactIn(Cleared(p, D), ReleaseFiles(p, D), ReleaseReaders(p, D),
                      ReleaseWriters(p, D), ReleaseOpenRefs(p, D))
           /\ \A f \in Files : NamesIn(Cleared(p, D), f) # {} =>
                 /\ ReleaseFiles(p, D)[f].obj = file[f].obj
                 /\ ReleaseFiles(p, D)[f].access = file[f].access
           /\ \A q \in half_made : ReleaseFiles(p, D)[fds[q][0]] = file[fds[q][0]]
<1> DEFINE F  == Cleared(p, D)
           fl == ReleaseFiles(p, D)
           k(f) == Cardinality(Naming(p, D, f))
<1>0. D \subseteq FD /\ \A d \in D : Counted[p][d] = fds[p][d] /\ fds[p][d] # None
  BY CountedIs DEF CountedFds
<1>1. F \in [Pids -> [FD -> Files \cup {None}]]
  BY DEF IInv, TypeIn, Cleared
<1>2. \A s \in Slots : F[s[1]][s[2]] = IF s \in Lift(p, D) THEN None ELSE Counted[s[1]][s[2]]
  BY DEF IInv, TypeIn, Cleared, Slots, Lift
<1>3. \A f \in Files : /\ k(f) \in Nat
                      /\ IsFiniteSet(Naming(p, D, f))
                      /\ Cardinality(Lift(p, Naming(p, D, f))) = k(f)
                      /\ Lift(p, Naming(p, D, f)) \subseteq NamesIn(Counted, f)
                      /\ NamesIn(F, f) = NamesIn(Counted, f) \ Lift(p, Naming(p, D, f))
  <2> TAKE f \in Files
  <2>1. Naming(p, D, f) \subseteq FD
    BY <1>0 DEF Naming
  <2>2. Lift(p, Naming(p, D, f)) \subseteq NamesIn(Counted, f)
    BY <1>0 DEF Naming, Lift, NamesIn, Slots
  <2>3. f # None
    BY DescriptorsAssumption
  <2>4. NamesIn(F, f) = NamesIn(Counted, f) \ Lift(p, Naming(p, D, f))
    BY <1>2, <1>0, <2>3 DEF Naming, Lift, NamesIn, Slots
  <2> QED BY <2>1, <2>2, <2>4, LiftCard
<1>4. \A f \in Files : /\ file[f].refs = Cardinality(NamesIn(Counted, f))
                      /\ file[f].refs \in Nat
                      /\ k(f) <= file[f].refs
                      /\ Cardinality(NamesIn(F, f)) = file[f].refs - k(f)
  <2> TAKE f \in Files
  <2>1. IsFiniteSet(NamesIn(Counted, f)) /\ Cardinality(NamesIn(Counted, f)) \in Nat
    BY SlotSetFinite DEF NamesIn
  <2>2. file[f].refs = Cardinality(NamesIn(Counted, f))
    BY DEF IInv, ExactIn
  <2> QED BY <2>1, <2>2, <1>3, CardRemove
<1>5. \A f \in Files : fl[f] = IF k(f) = 0 THEN file[f]
                               ELSE IF file[f].refs <= k(f) THEN FreeFile
                               ELSE [file[f] EXCEPT !.refs = @ - k(f)]
  BY DEF ReleaseFiles
<1>6. \A f \in Files : fl[f] \in OpenFile /\ fl[f].refs = Cardinality(NamesIn(F, f))
  <2> TAKE f \in Files
  <2>0. file[f] \in OpenFile
    BY DEF IInv, TypeIn
  <2>1. CASE k(f) = 0
    <3>1. fl[f] = file[f]
      BY <2>1, <1>5
    <3>2. Cardinality(NamesIn(F, f)) = file[f].refs - 0 /\ file[f].refs \in Nat
      BY <2>1, <1>4
    <3> QED BY <3>1, <3>2, <2>0
  <2>2. CASE k(f) # 0 /\ file[f].refs <= k(f)
    <3>1. fl[f] = FreeFile
      BY <2>2, <1>5
    <3>2. file[f].refs = k(f)
      BY <2>2, <1>3, <1>4
    <3>3. Cardinality(NamesIn(F, f)) = 0
      BY <3>2, <1>3, <1>4
    <3> QED BY <3>1, <3>3 DEF FreeFile, OpenFile, Access
  <2>3. CASE k(f) # 0 /\ ~(file[f].refs <= k(f))
    <3>1. fl[f] = [file[f] EXCEPT !.refs = @ - k(f)]
      BY <2>3, <1>5
    <3>2. file[f].refs - k(f) \in Nat
      BY <2>3, <1>3, <1>4
    <3> QED BY <3>1, <3>2, <2>0, <1>4 DEF OpenFile
  <2> QED BY <2>1, <2>2, <2>3
<1>7. \A f \in Files : NamesIn(F, f) # {} =>
          fl[f].obj = file[f].obj /\ fl[f].access = file[f].access
  <2> SUFFICES ASSUME NEW f \in Files, NamesIn(F, f) # {}
               PROVE  fl[f].obj = file[f].obj /\ fl[f].access = file[f].access
    OBVIOUS
  <2>0. file[f] \in OpenFile
    BY DEF IInv, TypeIn
  <2>1. Cardinality(NamesIn(F, f)) # 0
    BY FS_EmptySet, SlotSetFinite DEF NamesIn
  <2>2. ~(k(f) # 0 /\ file[f].refs <= k(f))
    BY <2>1, <1>3, <1>4
  <2> QED BY <2>0, <2>2, <1>5 DEF OpenFile
<1>8. \A s \in Slots : s \notin Lift(p, D) /\ Counted[s[1]][s[2]] # None =>
          /\ fl[Counted[s[1]][s[2]]].obj = file[Counted[s[1]][s[2]]].obj
          /\ fl[Counted[s[1]][s[2]]].access = file[Counted[s[1]][s[2]]].access
  <2> SUFFICES ASSUME NEW s \in Slots, s \notin Lift(p, D), Counted[s[1]][s[2]] # None
               PROVE  /\ fl[Counted[s[1]][s[2]]].obj = file[Counted[s[1]][s[2]]].obj
                      /\ fl[Counted[s[1]][s[2]]].access = file[Counted[s[1]][s[2]]].access
    OBVIOUS
  <2>1. Counted[s[1]][s[2]] \in Files
    BY DEF IInv, TypeIn, Slots
  <2>2. s \in NamesIn(F, Counted[s[1]][s[2]])
    BY <1>2 DEF NamesIn
  <2> QED BY <2>1, <2>2, <1>7
<1>9. \A pp \in Pipes : /\ ReleaseReaders(p, D)[pp] \in Nat
                       /\ ReleaseReaders(p, D)[pp] = Cardinality(ReadSlotsIn(F, fl, pp))
  <2> TAKE pp \in Pipes
  <2> DEFINE G == {d \in D : Reads(fds[p][d], pp)}
  <2>1. Lift(p, G) \subseteq ReadSlotsIn(Counted, file, pp)
    BY <1>0 DEF Lift, ReadSlotsIn, Reads, ReadsIn, Readable, Slots
  <2>2. ReadSlotsIn(F, fl, pp) = ReadSlotsIn(Counted, file, pp) \ Lift(p, G)
    BY <1>0, <1>2, <1>8 DEF Lift, ReadSlotsIn, Reads, ReadsIn, Readable, Slots
  <2>3. Cardinality(Lift(p, G)) = Cardinality(G) /\ Cardinality(G) \in Nat
    BY LiftCard, <1>0
  <2>4. IsFiniteSet(ReadSlotsIn(Counted, file, pp))
    BY SlotSetFinite DEF ReadSlotsIn
  <2>5. readers[pp] = Cardinality(ReadSlotsIn(Counted, file, pp))
    BY DEF IInv, ExactIn
  <2>6. /\ Cardinality(ReadSlotsIn(F, fl, pp)) = readers[pp] - Cardinality(G)
        /\ Cardinality(G) <= readers[pp] /\ readers[pp] \in Nat
    BY <2>1, <2>2, <2>3, <2>4, <2>5, CardRemove
  <2>7. ReleaseReaders(p, D)[pp] = Monus(readers[pp], Cardinality(G))
    BY DEF ReleaseReaders
  <2> QED BY <2>3, <2>6, <2>7 DEF Monus
<1>10. \A pp \in Pipes : /\ ReleaseWriters(p, D)[pp] \in Nat
                        /\ ReleaseWriters(p, D)[pp] = Cardinality(WriteSlotsIn(F, fl, pp))
  <2> TAKE pp \in Pipes
  <2> DEFINE G == {d \in D : Writes(fds[p][d], pp)}
  <2>1. Lift(p, G) \subseteq WriteSlotsIn(Counted, file, pp)
    BY <1>0 DEF Lift, WriteSlotsIn, Writes, WritesIn, Writable, Slots
  <2>2. WriteSlotsIn(F, fl, pp) = WriteSlotsIn(Counted, file, pp) \ Lift(p, G)
    BY <1>0, <1>2, <1>8 DEF Lift, WriteSlotsIn, Writes, WritesIn, Writable, Slots
  <2>3. Cardinality(Lift(p, G)) = Cardinality(G) /\ Cardinality(G) \in Nat
    BY LiftCard, <1>0
  <2>4. IsFiniteSet(WriteSlotsIn(Counted, file, pp))
    BY SlotSetFinite DEF WriteSlotsIn
  <2>5. writers[pp] = Cardinality(WriteSlotsIn(Counted, file, pp))
    BY DEF IInv, ExactIn
  <2>6. /\ Cardinality(WriteSlotsIn(F, fl, pp)) = writers[pp] - Cardinality(G)
        /\ Cardinality(G) <= writers[pp] /\ writers[pp] \in Nat
    BY <2>1, <2>2, <2>3, <2>4, <2>5, CardRemove
  <2>7. ReleaseWriters(p, D)[pp] = Monus(writers[pp], Cardinality(G))
    BY DEF ReleaseWriters
  <2> QED BY <2>3, <2>6, <2>7 DEF Monus
<1>11. \A v \in VNodes : /\ ReleaseOpenRefs(p, D)[v] \in Nat
                        /\ ReleaseOpenRefs(p, D)[v] = Cardinality(OpenersIn(F, fl, v))
  <2> TAKE v \in VNodes
  <2> DEFINE L == LastClosed(p, D, v)
  <2>0. v # None
    BY DescriptorsAssumption
  <2>1. \A f \in Files : k(f) = 0 <=> Naming(p, D, f) = {}
    BY <1>3, FS_EmptySet
  <2>2. \A f \in Files : NamesIn(F, f) = {} <=> file[f].refs = k(f)
    <3> TAKE f \in Files
    <3>1. NamesIn(F, f) \subseteq Slots
      BY DEF NamesIn
    <3>2. NamesIn(F, f) = {} <=> Cardinality(NamesIn(F, f)) = 0
      BY <3>1, FS_EmptySet, SlotSetFinite
    <3>3. Cardinality(NamesIn(F, f)) = file[f].refs - k(f) /\ file[f].refs \in Nat /\ k(f) \in Nat
      BY <1>3, <1>4
    <3> HIDE DEF F, k
    <3> QED BY <3>2, <3>3
  <2>3. \A f \in Files : Naming(p, D, f) # {} => NamesIn(Counted, f) # {}
    <3> TAKE f \in Files
    <3> HAVE Naming(p, D, f) # {}
    <3>1. PICK d : d \in Naming(p, D, f)
      OBVIOUS
    <3>2. <<p, d>> \in Lift(p, Naming(p, D, f))
      BY <3>1 DEF Lift
    <3>3. Lift(p, Naming(p, D, f)) \subseteq NamesIn(Counted, f)
      BY <1>3
    <3> QED BY <3>2, <3>3
  <2>4. L \subseteq OpenersIn(Counted, file, v)
    BY <2>3 DEF LastClosed, OpenersIn
  <2>5. OpenersIn(F, fl, v) = OpenersIn(Counted, file, v) \ L
    <3>1. ASSUME NEW f \in Files
          PROVE  f \in OpenersIn(F, fl, v) <=> f \in OpenersIn(Counted, file, v) \ L
      <4>1. NamesIn(F, f) # {} <=> NamesIn(Counted, f) # {} /\ file[f].refs # k(f)
        BY <2>2, <1>3
      <4>2. CASE NamesIn(F, f) # {}
        BY <4>1, <4>2, <1>3, <1>4, <1>7 DEF OpenersIn, LastClosed
      <4>3. CASE NamesIn(F, f) = {}
        <5>1. file[f].refs = k(f)
          BY <4>3, <2>2
        <5>2. NamesIn(Counted, f) # {} => Naming(p, D, f) # {}
          BY <5>1, <2>1, <1>4, FS_EmptySet, SlotSetFinite DEF NamesIn
        <5> QED BY <4>3, <5>1, <5>2, <1>4 DEF OpenersIn, LastClosed
      <4> QED BY <4>2, <4>3
    <3> QED BY <3>1 DEF OpenersIn, LastClosed
  <2>6. IsFiniteSet(OpenersIn(Counted, file, v))
    BY FS_Subset, DescriptorsAssumption DEF OpenersIn
  <2>7. open_refs[v] = Cardinality(OpenersIn(Counted, file, v))
    BY DEF IInv, ExactIn
  <2>8. /\ Cardinality(OpenersIn(F, fl, v)) = open_refs[v] - Cardinality(L)
        /\ Cardinality(L) <= open_refs[v]
        /\ open_refs[v] \in Nat /\ Cardinality(L) \in Nat
    BY <2>4, <2>5, <2>6, <2>7, CardRemove
  <2>9. ReleaseOpenRefs(p, D)[v] = Monus(open_refs[v], Cardinality(L))
    BY DEF ReleaseOpenRefs
  <2> QED BY <2>8, <2>9 DEF Monus
<1>12. TypeIn(F, fl, ReleaseReaders(p, D), ReleaseWriters(p, D), ReleaseOpenRefs(p, D))
  BY <1>1, <1>6, <1>9, <1>10, <1>11
     DEF TypeIn, ReleaseFiles, ReleaseReaders, ReleaseWriters, ReleaseOpenRefs
<1>13. ExactIn(F, fl, ReleaseReaders(p, D), ReleaseWriters(p, D), ReleaseOpenRefs(p, D))
  BY <1>6, <1>9, <1>10, <1>11 DEF ExactIn
<1>14. \A q \in half_made : fl[fds[q][0]] = file[fds[q][0]]
  <2> TAKE q \in half_made
  <2> DEFINE f == fds[q][0]
  <2>1. f \in Files /\ \A d \in FD : Counted[p][d] # f
    BY NobodySharesHalf
  <2> HIDE DEF f
  <2>2. Naming(p, D, f) = {}
    BY <1>0, <2>1 DEF Naming
  <2>3. k(f) = 0
    BY <2>2, FS_EmptySet
  <2>4. fl[f] = file[f]
    BY <1>5, <2>1, <2>3
  <2> QED BY <2>4 DEF f
<1> QED BY <1>7, <1>12, <1>13, <1>14

-----------------------------------------------------------------------------
(* One more descriptor for an OpenFile in use.                              *)

AddReads(fl, rd, f)  == [pp \in Pipes |-> IF ReadsIn(fl, f, pp) THEN rd[pp] + 1 ELSE rd[pp]]
AddWrites(fl, wr, f) == [pp \in Pipes |-> IF WritesIn(fl, f, pp) THEN wr[pp] + 1 ELSE wr[pp]]

(* _acquire_fd, with f put into an empty slot, keeps every count exact.  It *)
(* is stated for given tables because dup2 applies it after a release.      *)
LEMMA AcquireExact ==
    ASSUME NEW F, NEW fl, NEW rd, NEW wr, NEW orf,
           TypeIn(F, fl, rd, wr, orf), ExactIn(F, fl, rd, wr, orf),
           NEW p \in Pids, NEW e \in FD, F[p][e] = None,
           NEW f \in Files, NamesIn(F, f) # {},
           NEW G, G = [F EXCEPT ![p][e] = f]
    PROVE  /\ TypeIn(G, AcquireFile(fl, f), AddReads(fl, rd, f), AddWrites(fl, wr, f), orf)
           /\ ExactIn(G, AcquireFile(fl, f), AddReads(fl, rd, f), AddWrites(fl, wr, f), orf)
<1> DEFINE s0  == <<p, e>>
           gl  == AcquireFile(fl, f)
           rd2 == AddReads(fl, rd, f)
           wr2 == AddWrites(fl, wr, f)
<1>1. G \in [Pids -> [FD -> Files \cup {None}]]
  BY DEF TypeIn
<1>2. f # None /\ s0 \in Slots /\ F[s0[1]][s0[2]] = None
  BY DescriptorsAssumption DEF Slots
<1>3. \A s \in Slots : G[s[1]][s[2]] = IF s = s0 THEN f ELSE F[s[1]][s[2]]
  BY DEF TypeIn, Slots
<1>4. \A g \in Files : /\ gl[g] \in OpenFile
                      /\ gl[g].obj = fl[g].obj /\ gl[g].access = fl[g].access
                      /\ gl[g].refs = IF g = f THEN fl[g].refs + 1 ELSE fl[g].refs
  BY DEF AcquireFile, TypeIn, OpenFile
<1>5. \A g \in Files : NamesIn(G, g) = IF g = f THEN NamesIn(F, g) \cup {s0} ELSE NamesIn(F, g)
  <2>1. NamesIn(G, f) = NamesIn(F, f) \cup {s0}
    BY <1>2, <1>3 DEF NamesIn
  <2>2. ASSUME NEW g \in Files, g # f
        PROVE  NamesIn(G, g) = NamesIn(F, g)
    <3>1. g # None
      BY DescriptorsAssumption
    <3> QED BY <1>2, <1>3, <2>2, <3>1 DEF NamesIn
  <2> QED BY <2>1, <2>2
<1>6. \A g \in Files : gl[g].refs = Cardinality(NamesIn(G, g))
  <2>1. ASSUME NEW g \in Files
        PROVE  /\ fl[g].refs = Cardinality(NamesIn(F, g))
               /\ IsFiniteSet(NamesIn(F, g))
    BY SlotSetFinite DEF NamesIn, ExactIn
  <2>2. s0 \notin NamesIn(F, f)
    BY <1>2 DEF NamesIn
  <2>3. Cardinality(NamesIn(F, f) \cup {s0}) = fl[f].refs + 1
    BY <2>1, <2>2, CardAdd
  <2> QED BY <1>4, <1>5, <2>1, <2>3
<1>7. \A pp \in Pipes : rd2[pp] \in Nat /\ rd2[pp] = Cardinality(ReadSlotsIn(G, gl, pp))
  <2> TAKE pp \in Pipes
  <2>0. /\ IsFiniteSet(ReadSlotsIn(F, fl, pp))
        /\ rd[pp] = Cardinality(ReadSlotsIn(F, fl, pp)) /\ rd[pp] \in Nat
    BY SlotSetFinite DEF ReadSlotsIn, ExactIn, TypeIn
  <2>1. s0 \notin ReadSlotsIn(F, fl, pp)
    BY <1>2 DEF ReadSlotsIn, ReadsIn
  <2>a. \A s \in Slots : ReadsIn(gl, G[s[1]][s[2]], pp) <=>
                         IF s = s0 THEN ReadsIn(fl, f, pp) ELSE ReadsIn(fl, F[s[1]][s[2]], pp)
    BY <1>1, <1>2, <1>3, <1>4 DEF ReadsIn, Slots, TypeIn
  <2>2. CASE ReadsIn(fl, f, pp)
    <3>1. ReadSlotsIn(G, gl, pp) = ReadSlotsIn(F, fl, pp) \cup {s0}
      BY <2>a, <1>2, <2>2 DEF ReadSlotsIn
    <3>2. rd2[pp] = rd[pp] + 1
      BY <2>2 DEF AddReads
    <3>3. Cardinality(ReadSlotsIn(F, fl, pp) \cup {s0}) = rd[pp] + 1
      BY <2>0, <2>1, CardAdd
    <3>4. rd[pp] + 1 \in Nat
      BY <2>0
    <3> QED BY <3>1, <3>2, <3>3, <3>4, Zenon
  <2>3. CASE ~ReadsIn(fl, f, pp)
    <3>1. ReadSlotsIn(G, gl, pp) = ReadSlotsIn(F, fl, pp)
      BY <2>a, <1>2, <2>1, <2>3 DEF ReadSlotsIn
    <3>2. rd2[pp] = rd[pp]
      BY <2>3 DEF AddReads
    <3> QED BY <3>1, <3>2, <2>0
  <2> QED BY <2>2, <2>3
<1>8. \A pp \in Pipes : wr2[pp] \in Nat /\ wr2[pp] = Cardinality(WriteSlotsIn(G, gl, pp))
  <2> TAKE pp \in Pipes
  <2>0. /\ IsFiniteSet(WriteSlotsIn(F, fl, pp))
        /\ wr[pp] = Cardinality(WriteSlotsIn(F, fl, pp)) /\ wr[pp] \in Nat
    BY SlotSetFinite DEF WriteSlotsIn, ExactIn, TypeIn
  <2>1. s0 \notin WriteSlotsIn(F, fl, pp)
    BY <1>2 DEF WriteSlotsIn, WritesIn
  <2>a. \A s \in Slots : WritesIn(gl, G[s[1]][s[2]], pp) <=>
                         IF s = s0 THEN WritesIn(fl, f, pp) ELSE WritesIn(fl, F[s[1]][s[2]], pp)
    BY <1>1, <1>2, <1>3, <1>4 DEF WritesIn, Slots, TypeIn
  <2>2. CASE WritesIn(fl, f, pp)
    <3>1. WriteSlotsIn(G, gl, pp) = WriteSlotsIn(F, fl, pp) \cup {s0}
      BY <2>a, <1>2, <2>2 DEF WriteSlotsIn
    <3>2. wr2[pp] = wr[pp] + 1
      BY <2>2 DEF AddWrites
    <3>3. Cardinality(WriteSlotsIn(F, fl, pp) \cup {s0}) = wr[pp] + 1
      BY <2>0, <2>1, CardAdd
    <3>4. wr[pp] + 1 \in Nat
      BY <2>0
    <3> QED BY <3>1, <3>2, <3>3, <3>4, Zenon
  <2>3. CASE ~WritesIn(fl, f, pp)
    <3>1. WriteSlotsIn(G, gl, pp) = WriteSlotsIn(F, fl, pp)
      BY <2>a, <1>2, <2>1, <2>3 DEF WriteSlotsIn
    <3>2. wr2[pp] = wr[pp]
      BY <2>3 DEF AddWrites
    <3> QED BY <3>1, <3>2, <2>0
  <2> QED BY <2>2, <2>3
<1>9. \A v \in VNodes : OpenersIn(G, gl, v) = OpenersIn(F, fl, v)
  <2>1. \A g \in Files : NamesIn(G, g) # {} <=> NamesIn(F, g) # {}
    BY <1>5
  <2> QED BY <1>4, <2>1 DEF OpenersIn
<1>10. TypeIn(G, gl, rd2, wr2, orf)
  BY <1>1, <1>4, <1>7, <1>8 DEF TypeIn, AcquireFile, AddReads, AddWrites
<1>11. ExactIn(G, gl, rd2, wr2, orf)
  BY <1>6, <1>7, <1>8, <1>9 DEF ExactIn
<1> QED BY <1>10, <1>11

-----------------------------------------------------------------------------
(* A fresh OpenFile put into one or more empty slots.                       *)

(* G is F with f in the slots E of p; the counters it calls for.            *)
Installed(F, G, p, E, f) ==
    /\ G \in [Pids -> [FD -> Files \cup {None}]]
    /\ \A s \in Slots : G[s[1]][s[2]] = IF s \in Lift(p, E) THEN f ELSE F[s[1]][s[2]]

ReadersAdded(rd, rd2, o, a, n) ==
    /\ rd2 \in [Pipes -> Nat]
    /\ \A pp \in Pipes : rd2[pp] = IF o = pp /\ a \in {"r", "rw"} THEN rd[pp] + n ELSE rd[pp]

WritersAdded(wr, wr2, o, a, n) ==
    /\ wr2 \in [Pipes -> Nat]
    /\ \A pp \in Pipes : wr2[pp] = IF o = pp /\ a \in {"w", "rw"} THEN wr[pp] + n ELSE wr[pp]

OpenerAdded(orf, orf2, o) ==
    /\ orf2 \in [VNodes -> Nat]
    /\ \A v \in VNodes : orf2[v] = IF o = v THEN orf[v] + 1 ELSE orf[v]

InstallFile(fl, f, o, a, n) == [fl EXCEPT ![f] = Opened(o, a, n)]

(* Opening object o in the empty descriptors E of p: what open, pipe and    *)
(* _setup_std_fds are made of.                                              *)
LEMMA InstallExact ==
    ASSUME NEW F, NEW fl, NEW rd, NEW wr, NEW orf,
           TypeIn(F, fl, rd, wr, orf), ExactIn(F, fl, rd, wr, orf),
           NEW p \in Pids, NEW E, E \subseteq FD, E # {},
           \A d \in E : F[p][d] = None,
           NEW f \in Files, fl[f] = FreeFile,
           NEW o \in Objects, NEW a \in Access, NEW n, n = Cardinality(E),
           NEW G, Installed(F, G, p, E, f),
           NEW rd2, ReadersAdded(rd, rd2, o, a, n),
           NEW wr2, WritersAdded(wr, wr2, o, a, n),
           NEW orf2, OpenerAdded(orf, orf2, o)
    PROVE  /\ TypeIn(G, InstallFile(fl, f, o, a, n), rd2, wr2, orf2)
           /\ ExactIn(G, InstallFile(fl, f, o, a, n), rd2, wr2, orf2)
<1>0. /\ G \in [Pids -> [FD -> Files \cup {None}]]
      /\ \A s \in Slots : G[s[1]][s[2]] = IF s \in Lift(p, E) THEN f ELSE F[s[1]][s[2]]
      /\ rd2 \in [Pipes -> Nat]
      /\ \A pp \in Pipes : rd2[pp] = IF o = pp /\ a \in {"r", "rw"}
                                      THEN rd[pp] + Cardinality(E) ELSE rd[pp]
      /\ wr2 \in [Pipes -> Nat]
      /\ \A pp \in Pipes : wr2[pp] = IF o = pp /\ a \in {"w", "rw"}
                                      THEN wr[pp] + Cardinality(E) ELSE wr[pp]
      /\ orf2 \in [VNodes -> Nat]
      /\ \A v \in VNodes : orf2[v] = IF o = v THEN orf[v] + 1 ELSE orf[v]
  BY DEF Installed, ReadersAdded, WritersAdded, OpenerAdded
<1> USE <1>0
<1> DEFINE gl == [fl EXCEPT ![f] = Opened(o, a, Cardinality(E))]
<1>1. /\ Cardinality(E) \in Nat /\ Cardinality(Lift(p, E)) = Cardinality(E)
      /\ Lift(p, E) # {} /\ IsFiniteSet(Lift(p, E))
  <2>1. Lift(p, E) # {}
    <3>1. PICK d \in E : TRUE
      OBVIOUS
    <3>2. <<p, d>> \in Lift(p, E)
      BY DEF Lift
    <3> QED BY <3>2
  <2> QED BY <2>1, LiftCard
<1>2. /\ f # None /\ Lift(p, E) \subseteq Slots
      /\ \A s \in Lift(p, E) : F[s[1]][s[2]] = None
  BY DescriptorsAssumption DEF Slots, Lift
<1>3. NamesIn(F, f) = {}
  <2>1. Cardinality(NamesIn(F, f)) = 0
    BY DEF ExactIn, FreeFile
  <2> QED BY <2>1, FS_EmptySet, SlotSetFinite DEF NamesIn
<1>4. \A s \in Slots : s \notin Lift(p, E) => F[s[1]][s[2]] # f
  BY <1>3 DEF NamesIn
<1>5. /\ gl \in [Files -> OpenFile]
      /\ gl[f].obj = o /\ gl[f].access = a /\ gl[f].refs = Cardinality(E)
      /\ \A g \in Files : g # f => gl[g] = fl[g]
  BY <1>1 DEF TypeIn, Opened, OpenFile
<1>6. \A g \in Files : NamesIn(G, g) = IF g = f THEN Lift(p, E) ELSE NamesIn(F, g)
  <2>1. NamesIn(G, f) = Lift(p, E)
    BY <1>2, <1>4 DEF NamesIn
  <2>2. ASSUME NEW g \in Files, g # f
        PROVE  NamesIn(G, g) = NamesIn(F, g)
    <3>1. g # None
      BY DescriptorsAssumption
    <3> QED BY <1>2, <2>2, <3>1 DEF NamesIn
  <2> QED BY <2>1, <2>2
<1>7. \A g \in Files : gl[g].refs = Cardinality(NamesIn(G, g))
  <2>1. \A g \in Files : fl[g].refs = Cardinality(NamesIn(F, g))
    BY DEF ExactIn
  <2> HIDE DEF gl
  <2> QED BY <1>1, <1>5, <1>6, <2>1
<1>8. \A pp \in Pipes : rd2[pp] = Cardinality(ReadSlotsIn(G, gl, pp))
  <2> TAKE pp \in Pipes
  <2>0. /\ IsFiniteSet(ReadSlotsIn(F, fl, pp))
        /\ rd[pp] = Cardinality(ReadSlotsIn(F, fl, pp)) /\ rd[pp] \in Nat
    BY SlotSetFinite DEF ReadSlotsIn, ExactIn, TypeIn
  <2>1. Lift(p, E) \cap ReadSlotsIn(F, fl, pp) = {}
    BY <1>2 DEF ReadSlotsIn, ReadsIn
  <2>2. \A s \in Slots : ReadsIn(gl, G[s[1]][s[2]], pp) <=>
                         IF s \in Lift(p, E) THEN o = pp /\ a \in {"r", "rw"}
                         ELSE ReadsIn(fl, F[s[1]][s[2]], pp)
    BY <1>2, <1>3, <1>4, <1>5 DEF ReadsIn, Slots, TypeIn
  <2>3. CASE o = pp /\ a \in {"r", "rw"}
    <3>1. ReadSlotsIn(G, gl, pp) = ReadSlotsIn(F, fl, pp) \cup Lift(p, E)
      BY <2>2, <1>2, <2>3 DEF ReadSlotsIn
    <3>2. Cardinality(ReadSlotsIn(F, fl, pp) \cup Lift(p, E)) = rd[pp] + Cardinality(E)
      BY <2>0, <2>1, <1>1, CardDisjoint
    <3>3. rd2[pp] = rd[pp] + Cardinality(E)
      BY <2>3
    <3> HIDE DEF gl
    <3> QED BY <3>1, <3>2, <3>3
  <2>4. CASE ~(o = pp /\ a \in {"r", "rw"})
    <3>1. ReadSlotsIn(G, gl, pp) = ReadSlotsIn(F, fl, pp)
      BY <2>1, <2>2, <1>2, <2>4 DEF ReadSlotsIn
    <3>2. rd2[pp] = rd[pp]
      BY <2>4
    <3> HIDE DEF gl
    <3> QED BY <3>1, <3>2, <2>0
  <2> QED BY <2>3, <2>4
<1>9. \A pp \in Pipes : wr2[pp] = Cardinality(WriteSlotsIn(G, gl, pp))
  <2> TAKE pp \in Pipes
  <2>0. /\ IsFiniteSet(WriteSlotsIn(F, fl, pp))
        /\ wr[pp] = Cardinality(WriteSlotsIn(F, fl, pp)) /\ wr[pp] \in Nat
    BY SlotSetFinite DEF WriteSlotsIn, ExactIn, TypeIn
  <2>1. Lift(p, E) \cap WriteSlotsIn(F, fl, pp) = {}
    BY <1>2 DEF WriteSlotsIn, WritesIn
  <2>2. \A s \in Slots : WritesIn(gl, G[s[1]][s[2]], pp) <=>
                         IF s \in Lift(p, E) THEN o = pp /\ a \in {"w", "rw"}
                         ELSE WritesIn(fl, F[s[1]][s[2]], pp)
    BY <1>2, <1>3, <1>4, <1>5 DEF WritesIn, Slots, TypeIn
  <2>3. CASE o = pp /\ a \in {"w", "rw"}
    <3>1. WriteSlotsIn(G, gl, pp) = WriteSlotsIn(F, fl, pp) \cup Lift(p, E)
      BY <2>2, <1>2, <2>3 DEF WriteSlotsIn
    <3>2. Cardinality(WriteSlotsIn(F, fl, pp) \cup Lift(p, E)) = wr[pp] + Cardinality(E)
      BY <2>0, <2>1, <1>1, CardDisjoint
    <3>3. wr2[pp] = wr[pp] + Cardinality(E)
      BY <2>3
    <3> HIDE DEF gl
    <3> QED BY <3>1, <3>2, <3>3
  <2>4. CASE ~(o = pp /\ a \in {"w", "rw"})
    <3>1. WriteSlotsIn(G, gl, pp) = WriteSlotsIn(F, fl, pp)
      BY <2>1, <2>2, <1>2, <2>4 DEF WriteSlotsIn
    <3>2. wr2[pp] = wr[pp]
      BY <2>4
    <3> HIDE DEF gl
    <3> QED BY <3>1, <3>2, <2>0
  <2> QED BY <2>3, <2>4
<1>10. \A v \in VNodes : orf2[v] = Cardinality(OpenersIn(G, gl, v))
  <2> TAKE v \in VNodes
  <2>0. /\ IsFiniteSet(OpenersIn(F, fl, v))
        /\ orf[v] = Cardinality(OpenersIn(F, fl, v))
    BY FS_Subset, DescriptorsAssumption DEF OpenersIn, ExactIn
  <2>1. f \notin OpenersIn(F, fl, v)
    BY <1>3 DEF OpenersIn
  <2>2. CASE o = v
    <3>1. OpenersIn(G, gl, v) = OpenersIn(F, fl, v) \cup {f}
      BY <1>1, <1>5, <1>6, <2>2 DEF OpenersIn
    <3>2. Cardinality(OpenersIn(F, fl, v) \cup {f}) = orf[v] + 1
      BY <2>0, <2>1, CardAdd
    <3>3. orf2[v] = orf[v] + 1
      BY <2>2
    <3> HIDE DEF gl
    <3> QED BY <3>1, <3>2, <3>3
  <2>3. CASE o # v
    <3>1. OpenersIn(G, gl, v) = OpenersIn(F, fl, v)
      BY <1>5, <1>6, <2>1, <2>3 DEF OpenersIn
    <3>2. orf2[v] = orf[v]
      BY <2>3
    <3> HIDE DEF gl
    <3> QED BY <3>1, <3>2, <2>0
  <2> QED BY <2>2, <2>3
<1>11. gl = InstallFile(fl, f, o, a, n)
  BY DEF InstallFile
<1> HIDE DEF gl
<1> QED BY <1>5, <1>7, <1>8, <1>9, <1>10, <1>11 DEF TypeIn, ExactIn

-----------------------------------------------------------------------------
(* fork: a whole table is copied into an empty one.                         *)

(* sys_fork acquires every descriptor of the parent once more: all counts   *)
(* stay exact.                                                              *)
LEMMA ForkExact ==
    ASSUME IInv, NEW p \in Pids, p \notin half_made, NEW c \in Pids, ForkFds(p, c)
    PROVE  IInv'
<1>a. c # p /\ c \notin half_made /\ \A d \in FD : fds[c][d] = None
  <2>1. c # p /\ \A d \in FD : fds[c][d] = None
    BY DEF ForkFds, OpenFds
  <2> QED BY <2>1, CountedIs, NobodySharesHalf
<1>b. /\ fds' \in [Pids -> [FD -> Files \cup {None}]]
      /\ Counted' = [Counted EXCEPT ![c] = fds[p]]
      /\ \A q \in half_made : fds'[q][0] = fds[q][0]
      /\ half_made' = half_made
  <2>1. fds[p] \in [FD -> Files \cup {None}] /\ half_made' = half_made
        /\ fds' = [fds EXCEPT ![c] = fds[p]]
    BY DEF ForkFds, IInv
  <2> QED BY <2>1, <1>a, CountedStep
<1>c. Counted[p] = fds[p]
  BY CountedIs
<1>0. c # p /\ \A d \in FD : Counted[c][d] = None
  BY <1>a, CountedIs
<1>1. Counted' \in [Pids -> [FD -> Files \cup {None}]]
  BY <1>b, <1>c, CountedIs
<1>2. \A s \in Slots : Counted'[s[1]][s[2]]
                          = IF s[1] = c THEN Counted[p][s[2]] ELSE Counted[s[1]][s[2]]
  BY <1>b, <1>c, CountedIs DEF Slots
<1>3. \A f \in Files : /\ Cardinality(Naming(p, FD, f)) \in Nat
                      /\ file'[f] \in OpenFile
                      /\ file'[f].obj = file[f].obj /\ file'[f].access = file[f].access
                      /\ file'[f].refs = file[f].refs + Cardinality(Naming(p, FD, f))
  <2> TAKE f \in Files
  <2>1. Cardinality(Naming(p, FD, f)) \in Nat
    BY LiftCard DEF Naming
  <2>2. file'[f] = [file[f] EXCEPT !.refs = @ + Cardinality(Naming(p, FD, f))]
    BY DEF ForkFds
  <2>3. file[f] \in OpenFile
    BY DEF IInv, TypeIn
  <2> QED BY <2>1, <2>2, <2>3 DEF OpenFile
<1>4. \A f \in Files : NamesIn(Counted', f) = NamesIn(Counted, f) \cup Lift(c, Naming(p, FD, f))
  <2> TAKE f \in Files
  <2>0. f # None
    BY DescriptorsAssumption
  <2> QED BY <1>0, <1>2, <1>c, <2>0 DEF NamesIn, Lift, Naming, Slots
<1>4a. \A f \in Files : NamesIn(Counted', f) # {} <=> NamesIn(Counted, f) # {}
  <2> TAKE f \in Files
  <2>1. Naming(p, FD, f) # {} => NamesIn(Counted, f) # {}
    <3>1. ASSUME NEW d \in Naming(p, FD, f)
          PROVE  <<p, d>> \in NamesIn(Counted, f)
      BY <1>c DEF Naming, NamesIn, Slots
    <3> QED BY <3>1
  <2>2. Naming(p, FD, f) = {} => Lift(c, Naming(p, FD, f)) = {}
    BY DEF Lift
  <2> QED BY <1>4, <2>1, <2>2
<1>4b. \A f \in Files : file'[f].refs = Cardinality(NamesIn(Counted', f))
  <2> TAKE f \in Files
  <2>0. f # None
    BY DescriptorsAssumption
  <2>2. NamesIn(Counted, f) \cap Lift(c, Naming(p, FD, f)) = {}
    BY <1>0, <1>c, <2>0 DEF NamesIn, Lift, Naming, Slots
  <2>3. /\ IsFiniteSet(NamesIn(Counted, f)) /\ IsFiniteSet(Lift(c, Naming(p, FD, f)))
        /\ Cardinality(Lift(c, Naming(p, FD, f))) = Cardinality(Naming(p, FD, f))
    BY LiftCard, SlotSetFinite DEF NamesIn, Naming
  <2>4. file[f].refs = Cardinality(NamesIn(Counted, f))
    BY DEF IInv, ExactIn
  <2>5. Cardinality(NamesIn(Counted', f)) = file[f].refs + Cardinality(Naming(p, FD, f))
    BY <1>4, <2>2, <2>3, <2>4, CardDisjoint
  <2> QED BY <1>3, <2>5
<1>5. \A pp \in Pipes : readers'[pp] \in Nat /\ readers'[pp] = Cardinality(ReadSlotsIn(Counted', file', pp))
  <2> TAKE pp \in Pipes
  <2> DEFINE B == {d \in FD : Reads(Counted[p][d], pp)}
  <2>0. /\ IsFiniteSet(ReadSlotsIn(Counted, file, pp))
        /\ readers[pp] = Cardinality(ReadSlotsIn(Counted, file, pp)) /\ readers[pp] \in Nat
    BY SlotSetFinite DEF ReadSlotsIn, ExactIn, TypeIn, IInv
  <2>1. /\ Cardinality(Lift(c, B)) = Cardinality(B) /\ Cardinality(B) \in Nat
        /\ IsFiniteSet(Lift(c, B))
    BY LiftCard
  <2>2. ReadSlotsIn(Counted, file, pp) \cap Lift(c, B) = {}
    BY <1>0 DEF ReadSlotsIn, ReadsIn, Lift
  <2>3. ReadSlotsIn(Counted', file', pp) = ReadSlotsIn(Counted, file, pp) \cup Lift(c, B)
    <3>1. \A s \in Slots : ReadsIn(file', Counted'[s[1]][s[2]], pp) <=>
                           IF s[1] = c THEN ReadsIn(file, Counted[p][s[2]], pp)
                           ELSE ReadsIn(file, Counted[s[1]][s[2]], pp)
      BY <1>0, <1>2, <1>3 DEF ReadsIn, Slots, IInv, TypeIn
    <3>2. \A s \in Slots : s[1] = c => ~ReadsIn(file, Counted[s[1]][s[2]], pp)
      BY <1>0 DEF ReadsIn, Slots
    <3>3. \A s \in Slots : s \in Lift(c, B) <=> s[1] = c /\ ReadsIn(file, Counted[p][s[2]], pp)
      BY DEF Slots, Lift, Reads, ReadsIn, Readable
    <3>4. Lift(c, B) \subseteq Slots
      BY DEF Lift, Slots
    <3> QED BY <3>1, <3>2, <3>3, <3>4 DEF ReadSlotsIn
  <2>4. Cardinality(ReadSlotsIn(Counted', file', pp)) = readers[pp] + Cardinality(B)
    <3> HIDE DEF B
    <3>1. Cardinality(ReadSlotsIn(Counted, file, pp) \cup Lift(c, B))
            = Cardinality(ReadSlotsIn(Counted, file, pp)) + Cardinality(Lift(c, B))
      BY <2>0, <2>1, <2>2, CardDisjoint
    <3> QED BY <2>0, <2>1, <2>3, <3>1
  <2>5. readers'[pp] = readers[pp] + Cardinality(B)
    BY <1>c DEF ForkFds
  <2> QED BY <2>0, <2>1, <2>4, <2>5
<1>6. \A pp \in Pipes : writers'[pp] \in Nat /\ writers'[pp] = Cardinality(WriteSlotsIn(Counted', file', pp))
  <2> TAKE pp \in Pipes
  <2> DEFINE B == {d \in FD : Writes(Counted[p][d], pp)}
  <2>0. /\ IsFiniteSet(WriteSlotsIn(Counted, file, pp))
        /\ writers[pp] = Cardinality(WriteSlotsIn(Counted, file, pp)) /\ writers[pp] \in Nat
    BY SlotSetFinite DEF WriteSlotsIn, ExactIn, TypeIn, IInv
  <2>1. /\ Cardinality(Lift(c, B)) = Cardinality(B) /\ Cardinality(B) \in Nat
        /\ IsFiniteSet(Lift(c, B))
    BY LiftCard
  <2>2. WriteSlotsIn(Counted, file, pp) \cap Lift(c, B) = {}
    BY <1>0 DEF WriteSlotsIn, WritesIn, Lift
  <2>3. WriteSlotsIn(Counted', file', pp) = WriteSlotsIn(Counted, file, pp) \cup Lift(c, B)
    <3>1. \A s \in Slots : WritesIn(file', Counted'[s[1]][s[2]], pp) <=>
                           IF s[1] = c THEN WritesIn(file, Counted[p][s[2]], pp)
                           ELSE WritesIn(file, Counted[s[1]][s[2]], pp)
      BY <1>0, <1>2, <1>3 DEF WritesIn, Slots, IInv, TypeIn
    <3>2. \A s \in Slots : s[1] = c => ~WritesIn(file, Counted[s[1]][s[2]], pp)
      BY <1>0 DEF WritesIn, Slots
    <3>3. \A s \in Slots : s \in Lift(c, B) <=> s[1] = c /\ WritesIn(file, Counted[p][s[2]], pp)
      BY DEF Slots, Lift, Writes, WritesIn, Writable
    <3>4. Lift(c, B) \subseteq Slots
      BY DEF Lift, Slots
    <3> QED BY <3>1, <3>2, <3>3, <3>4 DEF WriteSlotsIn
  <2>4. Cardinality(WriteSlotsIn(Counted', file', pp)) = writers[pp] + Cardinality(B)
    <3> HIDE DEF B
    <3>1. Cardinality(WriteSlotsIn(Counted, file, pp) \cup Lift(c, B))
            = Cardinality(WriteSlotsIn(Counted, file, pp)) + Cardinality(Lift(c, B))
      BY <2>0, <2>1, <2>2, CardDisjoint
    <3> QED BY <2>0, <2>1, <2>3, <3>1
  <2>5. writers'[pp] = writers[pp] + Cardinality(B)
    BY <1>c DEF ForkFds
  <2> QED BY <2>0, <2>1, <2>4, <2>5
<1>7. \A v \in VNodes : open_refs'[v] = Cardinality(OpenersIn(Counted', file', v))
  <2> TAKE v \in VNodes
  <2>1. \A f \in Files : file'[f].obj = file[f].obj
    BY <1>3
  <2>3. OpenersIn(Counted', file', v) = OpenersIn(Counted, file, v)
    BY <2>1, <1>4a DEF OpenersIn
  <2>4. open_refs[v] = Cardinality(OpenersIn(Counted, file, v))
    BY DEF IInv, ExactIn
  <2>5. open_refs' = open_refs
    BY DEF ForkFds
  <2> QED BY <2>3, <2>4, <2>5
<1>8. open_refs' = open_refs /\ close_on_exec' \in [Pids -> SUBSET FD]
  BY DEF ForkFds, IInv
<1>9. TypeIn(Counted', file', readers', writers', open_refs')
  BY <1>1, <1>3, <1>5, <1>6, <1>8 DEF TypeIn, ForkFds, IInv
<1>10. ExactIn(Counted', file', readers', writers', open_refs')
  BY <1>4b, <1>5, <1>6, <1>7, Zenon DEF ExactIn
<1>11. HalfMadeApart'
  <2>1. ASSUME NEW q \in half_made
        PROVE  file'[fds[q][0]].obj = Device /\ file'[fds[q][0]].refs = 0
    <3> DEFINE f == fds[q][0]
    <3>1. /\ f \in Files /\ file[f].obj = Device /\ file[f].refs = 0
          /\ \A d \in FD : fds[p][d] # f
      BY NobodySharesHalf
    <3> HIDE DEF f
    <3>2. Naming(p, FD, f) = {}
      BY <3>1 DEF Naming
    <3>3. Cardinality(Naming(p, FD, f)) = 0
      BY <3>2, FS_EmptySet
    <3>4. file'[f].obj = Device /\ file'[f].refs = 0
      BY <3>1, <3>3, <1>3
    <3> QED BY <3>4 DEF f
  <2> QED BY <1>b, <2>1, ApartStep
<1> QED BY <1>b, <1>8, <1>9, <1>10, <1>11 DEF IInv

-----------------------------------------------------------------------------
(* The invariant, action by action.                                         *)

(* The kernel starts with no descriptor open and every count zero.          *)
LEMMA InitIInv == Init => IInv
<1> SUFFICES ASSUME Init PROVE IInv
  OBVIOUS
<1>0. Counted = [p \in Pids |-> [d \in FD |-> None]]
  BY DEF Init, Counted
<1>1. /\ TypeIn(Counted, file, readers, writers, open_refs)
      /\ close_on_exec \in [Pids -> SUBSET FD]
      /\ fds \in [Pids -> [FD -> Files \cup {None}]]
      /\ half_made \subseteq Pids /\ HalfMadeApart
  BY <1>0 DEF Init, TypeIn, FreeFile, OpenFile, Access, HalfMadeApart
<1>2. \A s \in Slots : Counted[s[1]][s[2]] = None
  BY <1>0 DEF Slots
<1>3. \A f \in Files : NamesIn(Counted, f) = {} /\ file[f].refs = 0
  <2> TAKE f \in Files
  <2>1. f # None
    BY DescriptorsAssumption
  <2> QED BY <1>2, <2>1 DEF NamesIn, Init, FreeFile
<1>4. \A pp \in Pipes : /\ ReadSlotsIn(Counted, file, pp) = {} /\ WriteSlotsIn(Counted, file, pp) = {}
                       /\ readers[pp] = 0 /\ writers[pp] = 0
  BY <1>2 DEF ReadSlotsIn, WriteSlotsIn, ReadsIn, WritesIn, Init
<1>5. \A v \in VNodes : OpenersIn(Counted, file, v) = {} /\ open_refs[v] = 0
  BY <1>3 DEF OpenersIn, Init
<1>6. ExactIn(Counted, file, readers, writers, open_refs)
  BY <1>3, <1>4, <1>5, FS_EmptySet DEF ExactIn
<1> QED BY <1>1, <1>6 DEF IInv

(* Releasing descriptors of a process that runs keeps the invariant.        *)
LEMMA ReleaseIInv ==
    ASSUME IInv, NEW p \in Pids, p \notin half_made, NEW D, D \subseteq OpenFds(p),
           fds' = [fds EXCEPT ![p] = [d \in FD |-> IF d \in D THEN None ELSE fds[p][d]]],
           Release(p, D), half_made' = half_made, close_on_exec' \in [Pids -> SUBSET FD]
    PROVE  IInv'
<1> DEFINE row == [d \in FD |-> IF d \in D THEN None ELSE fds[p][d]]
<1>1. Counted[p] = fds[p] /\ row \in [FD -> Files \cup {None}]
  BY CountedIs DEF IInv
<1>2. D \subseteq CountedFds(p) /\ Cleared(p, D) = [Counted EXCEPT ![p] = row]
  BY <1>1 DEF CountedFds, OpenFds, Cleared
<1> HIDE DEF row
<1>3. /\ fds' \in [Pids -> [FD -> Files \cup {None}]]
      /\ Counted' = Cleared(p, D)
      /\ \A q \in half_made : fds'[q][0] = fds[q][0]
  BY <1>1, <1>2, CountedStep DEF row
<1>4. /\ file' = ReleaseFiles(p, D) /\ readers' = ReleaseReaders(p, D)
      /\ writers' = ReleaseWriters(p, D) /\ open_refs' = ReleaseOpenRefs(p, D)
  BY DEF Release
<1>5. /\ TypeIn(Counted', file', readers', writers', open_refs')
      /\ ExactIn(Counted', file', readers', writers', open_refs')
      /\ \A q \in half_made : file'[fds[q][0]] = file[fds[q][0]]
  <2>1. /\ TypeIn(Cleared(p, D), ReleaseFiles(p, D), ReleaseReaders(p, D),
                  ReleaseWriters(p, D), ReleaseOpenRefs(p, D))
        /\ ExactIn(Cleared(p, D), ReleaseFiles(p, D), ReleaseReaders(p, D),
                   ReleaseWriters(p, D), ReleaseOpenRefs(p, D))
        /\ \A q \in half_made : ReleaseFiles(p, D)[fds[q][0]] = file[fds[q][0]]
    <3>1. D \subseteq CountedFds(p)
      BY <1>2
    <3> QED BY ONLY IInv, p \in Pids, <3>1, ReleaseExact
  <2> QED BY <1>3, <1>4, <2>1
<1>6. HalfMadeApart'
  BY <1>3, <1>5, ApartStep, NobodySharesHalf
<1> QED BY <1>3, <1>5, <1>6 DEF IInv

(* sys_close keeps the invariant.                                           *)
LEMMA CloseIInv ==
    ASSUME IInv, NEW p \in Pids, p \notin half_made, NEW d \in FD, Close(p, d)
    PROVE  IInv'
<1>1. fds' = [fds EXCEPT ![p] = [e \in FD |-> IF e \in {d} THEN None ELSE fds[p][e]]]
  BY DEF Close, IInv
<1> QED BY <1>1, ReleaseIInv DEF Close, IInv

(* sys_execve, which closes the marked descriptors, keeps the invariant.    *)
LEMMA ExecIInv ==
    ASSUME IInv, NEW p \in Pids, p \notin half_made, ExecFds(p)
    PROVE  IInv'
<1> DEFINE D == close_on_exec[p] \cap OpenFds(p)
<1>1. /\ fds' = [fds EXCEPT ![p] = [d \in FD |-> IF d \in D THEN None ELSE fds[p][d]]]
      /\ Release(p, D) /\ D \subseteq OpenFds(p) /\ half_made' = half_made
      /\ close_on_exec' \in [Pids -> SUBSET FD]
  BY DEF ExecFds, IInv
<1> HIDE DEF D
<1> QED BY <1>1, ReleaseIInv

(* What the record of an OpenFile says that nobody names is of no account,  *)
(* as long as its count is 0.                                               *)
LEMMA UnnamedRecord ==
    ASSUME NEW F, NEW fl, NEW rd, NEW wr, NEW orf,
           TypeIn(F, fl, rd, wr, orf), ExactIn(F, fl, rd, wr, orf),
           NEW f \in Files, NamesIn(F, f) = {},
           NEW r \in OpenFile, r.refs = 0,
           NEW gl, gl = [fl EXCEPT ![f] = r]
    PROVE  /\ TypeIn(F, gl, rd, wr, orf)
           /\ ExactIn(F, gl, rd, wr, orf)
<1>1. /\ gl \in [Files -> OpenFile] /\ gl[f] = r
      /\ \A g \in Files : g # f => gl[g] = fl[g]
  BY DEF TypeIn
<1>2. \A s \in Slots : F[s[1]][s[2]] # f
  BY DEF NamesIn
<1>3. \A g \in Files : gl[g].refs = Cardinality(NamesIn(F, g))
  BY <1>1, FS_EmptySet DEF ExactIn
<1>4. \A s \in Slots, pp \in Pipes :
         /\ ReadsIn(gl, F[s[1]][s[2]], pp) <=> ReadsIn(fl, F[s[1]][s[2]], pp)
         /\ WritesIn(gl, F[s[1]][s[2]], pp) <=> WritesIn(fl, F[s[1]][s[2]], pp)
  <2> TAKE s \in Slots, pp \in Pipes
  <2>1. F[s[1]][s[2]] \in Files \cup {None}
    BY DEF TypeIn, Slots
  <2> QED BY <1>1, <1>2, <2>1 DEF ReadsIn, WritesIn
<1>5. \A pp \in Pipes : /\ ReadSlotsIn(F, gl, pp) = ReadSlotsIn(F, fl, pp)
                        /\ WriteSlotsIn(F, gl, pp) = WriteSlotsIn(F, fl, pp)
  <2> TAKE pp \in Pipes
  <2>1. \A s : s \in ReadSlotsIn(F, gl, pp) <=> s \in ReadSlotsIn(F, fl, pp)
    BY ONLY <1>4, pp \in Pipes DEF ReadSlotsIn
  <2>2. \A s : s \in WriteSlotsIn(F, gl, pp) <=> s \in WriteSlotsIn(F, fl, pp)
    BY ONLY <1>4, pp \in Pipes DEF WriteSlotsIn
  <2> QED BY <2>1, <2>2
<1>6. \A v \in VNodes : OpenersIn(F, gl, v) = OpenersIn(F, fl, v)
  BY <1>1 DEF OpenersIn
<1>7. TypeIn(F, gl, rd, wr, orf)
  BY <1>1 DEF TypeIn
<1>8. ExactIn(F, gl, rd, wr, orf)
  BY <1>3, <1>5, <1>6 DEF ExactIn
<1> QED BY <1>7, <1>8

(* A half-made child ends: what its fd 0 names was released before and      *)
(* counts for nothing, its other descriptors are released like any.         *)
LEMMA HalfExitIInv ==
    ASSUME IInv, NEW p \in half_made, ExitFds(p)
    PROVE  IInv'
<1> DEFINE h == fds[p][0]
           D == CountedFds(p)
           A == OpenFds(p)
<1>1. /\ p \in Pids /\ h \in Files /\ h # None
      /\ file[h].obj = Device /\ file[h].refs = 0
      /\ NamesIn(Counted, h) = {} /\ \A q \in Pids, d \in FD : Counted[q][d] # h
  BY NobodySharesHalf
<1>2. /\ 0 \in FD /\ 0 \in A /\ A = D \cup {0} /\ 0 \notin D /\ D \subseteq FD
      /\ \A d \in FD : d # 0 => Counted[p][d] = fds[p][d]
  BY <1>1, CountedIs DEF CountedFds, OpenFds
<1>3. /\ fds' = [fds EXCEPT ![p] = [d \in FD |-> None]]
      /\ half_made' = half_made \ {p} /\ close_on_exec' = close_on_exec
      /\ file' = ReleaseFiles(p, A) /\ readers' = ReleaseReaders(p, A)
      /\ writers' = ReleaseWriters(p, A) /\ open_refs' = ReleaseOpenRefs(p, A)
  BY DEF ExitFds, Release
<1>4. \A q \in Pids : fds'[q] = IF q = p THEN [d \in FD |-> None] ELSE fds[q]
  BY <1>3 DEF IInv
<1>5. Counted' = Cleared(p, D)
  <2>1. Counted' = [q \in Pids |-> [d \in FD |-> IF q \in half_made' /\ d = 0 THEN None
                                                  ELSE fds'[q][d]]]
    BY DEF Counted
  <2>2. Counted'[p] = [d \in FD |-> None]
    BY <1>1, <1>4, <2>1
  <2>3. \A q \in Pids : q # p => Counted'[q] = Counted[q]
    BY <1>3, <1>4, <2>1 DEF Counted
  <2>4. Cleared(p, D)[p] = [d \in FD |-> None]
    BY <1>1, CountedIs DEF Cleared, CountedFds
  <2>5. \A q \in Pids : q # p => Cleared(p, D)[q] = Counted[q]
    BY CountedIs DEF Cleared
  <2>6. /\ Counted' = [q \in Pids |-> Counted'[q]]
        /\ Cleared(p, D) = [q \in Pids |-> Cleared(p, D)[q]]
    BY <2>1, CountedIs DEF Cleared
  <2>7. \A q \in Pids : Counted'[q] = Cleared(p, D)[q]
    BY <2>2, <2>3, <2>4, <2>5
  <2> HIDE DEF D
  <2> QED BY <2>6, <2>7
<1> HIDE DEF h, D, A
<1>6. Naming(p, A, h) = {0} /\ \A f \in Files : f # h => Naming(p, A, f) = Naming(p, D, f)
  BY <1>1, <1>2 DEF Naming, h
<1>7. file' = [ReleaseFiles(p, D) EXCEPT ![h] = FreeFile]
  <2>1. Cardinality(Naming(p, A, h)) = 1
    BY <1>6, FS_Singleton
  <2>2. ReleaseFiles(p, A)[h] = FreeFile
    BY <1>1, <2>1 DEF ReleaseFiles
  <2>3. \A f \in Files : f # h => ReleaseFiles(p, A)[f] = ReleaseFiles(p, D)[f]
    BY <1>6 DEF ReleaseFiles
  <2> QED BY <1>1, <1>3, <2>2, <2>3 DEF ReleaseFiles
<1>8. readers' = ReleaseReaders(p, D) /\ writers' = ReleaseWriters(p, D)
  <2>1. \A pp \in Pipes :
          /\ {d \in A : Reads(fds[p][d], pp)} = {d \in D : Reads(fds[p][d], pp)}
          /\ {d \in A : Writes(fds[p][d], pp)} = {d \in D : Writes(fds[p][d], pp)}
    BY <1>1, <1>2, DescriptorsAssumption DEF Reads, Writes, h
  <2> QED BY <1>3, <2>1 DEF ReleaseReaders, ReleaseWriters
<1>9. open_refs' = ReleaseOpenRefs(p, D)
  <2>1. \A v \in VNodes : LastClosed(p, A, v) = LastClosed(p, D, v)
    <3> TAKE v \in VNodes
    <3>1. \A f \in Files : file[f].obj = v => f # h
      BY <1>1, DescriptorsAssumption
    <3> QED BY <1>6, <3>1 DEF LastClosed
  <2> QED BY <1>3, <2>1 DEF ReleaseOpenRefs
<1>10. /\ TypeIn(Counted', ReleaseFiles(p, D), readers', writers', open_refs')
       /\ ExactIn(Counted', ReleaseFiles(p, D), readers', writers', open_refs')
       /\ \A q \in half_made : ReleaseFiles(p, D)[fds[q][0]] = file[fds[q][0]]
  BY <1>1, <1>5, <1>8, <1>9, ReleaseExact DEF D
<1>11. NamesIn(Counted', h) = {}
  <2>1. \A s \in Slots : Counted'[s[1]][s[2]] # h
    BY <1>1, <1>5, CountedIs DEF Slots, Cleared
  <2> QED BY <2>1 DEF NamesIn
<1>12. FreeFile \in OpenFile /\ FreeFile.refs = 0
  BY DEF FreeFile, OpenFile, Access
<1>13. /\ TypeIn(Counted', file', readers', writers', open_refs')
       /\ ExactIn(Counted', file', readers', writers', open_refs')
  BY <1>1, <1>7, <1>10, <1>11, <1>12, UnnamedRecord
<1>14. HalfMadeApart'
  <2>1. ASSUME NEW q \in half_made, q # p
        PROVE  /\ fds'[q][0] = fds[q][0] /\ fds[q][0] \in Files /\ fds[q][0] # h
               /\ file'[fds[q][0]].obj = Device /\ file'[fds[q][0]].refs = 0
    <3>1. /\ q \in Pids /\ fds[q][0] \in Files
          /\ file[fds[q][0]].obj = Device /\ file[fds[q][0]].refs = 0
      BY NobodySharesHalf
    <3>2. fds[q][0] # h
      BY <2>1 DEF IInv, HalfMadeApart, h
    <3>3. file'[fds[q][0]] = file[fds[q][0]]
      BY <1>7, <1>10, <3>1, <3>2 DEF ReleaseFiles
    <3> QED BY <1>4, <2>1, <3>1, <3>2, <3>3
  <2> QED BY <1>3, <2>1 DEF IInv, HalfMadeApart
<1>15. fds' \in [Pids -> [FD -> Files \cup {None}]]
  BY <1>3 DEF IInv
<1> QED BY <1>3, <1>13, <1>14, <1>15 DEF IInv

(* _exit_process, which closes every descriptor, keeps the invariant.       *)
LEMMA ExitIInv ==
    ASSUME IInv, NEW p \in Pids, ExitFds(p)
    PROVE  IInv'
<1>1. CASE p \notin half_made
  <2>1. /\ fds' = [fds EXCEPT ![p] = [d \in FD |-> IF d \in OpenFds(p) THEN None
                                                  ELSE fds[p][d]]]
        /\ Release(p, OpenFds(p)) /\ half_made' = half_made
        /\ close_on_exec' \in [Pids -> SUBSET FD]
    BY <1>1 DEF ExitFds, OpenFds, IInv
  <2> QED BY <1>1, <2>1, ReleaseIInv
<1>2. CASE p \in half_made
  BY <1>2, HalfExitIInv
<1> QED BY <1>1, <1>2

(* A process that runs fills one of its descriptors.                        *)
LEMMA SlotStep ==
    ASSUME IInv, NEW p \in Pids, p \notin half_made, half_made' = half_made,
           NEW e \in FD, NEW f \in Files, fds' = [fds EXCEPT ![p][e] = f]
    PROVE  /\ fds' \in [Pids -> [FD -> Files \cup {None}]]
           /\ Counted' = [Counted EXCEPT ![p][e] = f]
           /\ Counted[p] = fds[p]
           /\ \A q \in half_made : fds'[q][0] = fds[q][0]
<1> DEFINE row == [fds[p] EXCEPT ![e] = f]
<1>1. row \in [FD -> Files \cup {None}] /\ fds' = [fds EXCEPT ![p] = row]
  BY DEF IInv
<1>2. Counted[p] = fds[p]
  BY CountedIs
<1> HIDE DEF row
<1>3. /\ fds' \in [Pids -> [FD -> Files \cup {None}]]
      /\ Counted' = [Counted EXCEPT ![p] = row]
      /\ \A q \in half_made : fds'[q][0] = fds[q][0]
  BY <1>1, CountedStep
<1> QED BY <1>2, <1>3 DEF row

(* Acquiring an OpenFile in use leaves what half-made children name alone.  *)
LEMMA AcquiredApart ==
    ASSUME IInv, half_made' = half_made, \A q \in half_made : fds'[q][0] = fds[q][0],
           NEW fl, fl \in [Files -> OpenFile],
           \A q \in half_made : fl[fds[q][0]] = file[fds[q][0]],
           NEW f \in Files, \A q \in half_made : f # fds[q][0],
           file' = AcquireFile(fl, f)
    PROVE  HalfMadeApart'
<1>1. \A q \in half_made : file'[fds[q][0]] = file[fds[q][0]]
  BY NobodySharesHalf DEF AcquireFile
<1> QED BY <1>1, NobodySharesHalf, ApartStep

(* sys_dup and fcntl F_DUPFD keep the invariant.                            *)
LEMMA DupIInv ==
    ASSUME IInv, NEW p \in Pids, p \notin half_made, NEW d \in FD, NEW start \in FD, DupFrom(p, d, start)
    PROVE  IInv'
<1> DEFINE f == fds[p][d]
<1>0. Counted[p] = fds[p]
  BY CountedIs
<1>1. f \in Files /\ NamesIn(Counted, f) # {}
  <2>1. f \in Files
    BY DEF DupFrom, OpenFds, IInv
  <2>2. <<p, d>> \in NamesIn(Counted, f)
    BY <1>0 DEF NamesIn, Slots
  <2> QED BY <2>1, <2>2
<1>2. PICK e \in FD : fds[p][e] = None /\ fds' = [fds EXCEPT ![p][e] = f]
  BY DEF DupFrom, IsAllocFd, OpenFds
<1>2a. /\ fds' \in [Pids -> [FD -> Files \cup {None}]]
       /\ Counted' = [Counted EXCEPT ![p][e] = f] /\ Counted[p][e] = None
       /\ \A q \in half_made : fds'[q][0] = fds[q][0]
       /\ half_made' = half_made
  <2> HIDE DEF f
  <2>1. half_made' = half_made
    BY DEF DupFrom
  <2>2. f \in Files /\ fds' = [fds EXCEPT ![p][e] = f]
    BY <1>1, <1>2
  <2>3. /\ fds' \in [Pids -> [FD -> Files \cup {None}]]
        /\ Counted' = [Counted EXCEPT ![p][e] = f]
        /\ Counted[p] = fds[p]
        /\ \A q \in half_made : fds'[q][0] = fds[q][0]
    BY <2>1, <2>2, SlotStep
  <2> QED BY <1>0, <1>2, <2>1, <2>3
<1>3. /\ file' = AcquireFile(file, f)
      /\ readers' = AddReads(file, readers, f)
      /\ writers' = AddWrites(file, writers, f)
      /\ open_refs' = open_refs /\ close_on_exec' = close_on_exec
  BY DEF DupFrom, AcquireReaders, AcquireWriters, Reads, Writes, Readable, Writable,
         ReadsIn, WritesIn, AddReads, AddWrites
<1>4. /\ TypeIn(Counted, file, readers, writers, open_refs)
      /\ ExactIn(Counted, file, readers, writers, open_refs)
  BY DEF IInv
<1> HIDE DEF f
<1>5. /\ TypeIn(Counted', AcquireFile(file, f), AddReads(file, readers, f),
                AddWrites(file, writers, f), open_refs)
      /\ ExactIn(Counted', AcquireFile(file, f), AddReads(file, readers, f),
                 AddWrites(file, writers, f), open_refs)
  BY <1>1, <1>2a, <1>4, AcquireExact
<1>6. HalfMadeApart'
  <2>1. \A q \in half_made : f # fds[q][0]
    BY NobodySharesHalf DEF f
  <2>2. file \in [Files -> OpenFile]
    BY DEF IInv, TypeIn
  <2> QED BY <1>1, <1>2a, <1>3, <2>1, <2>2, AcquiredApart
<1> QED BY <1>2a, <1>3, <1>5, <1>6 DEF IInv

(* sys_dup2, which closes newfd before it renames, keeps the invariant.     *)
LEMMA Dup2IInv ==
    ASSUME IInv, NEW p \in Pids, p \notin half_made, NEW d \in FD, NEW e \in FD, Dup2(p, d, e)
    PROVE  IInv'
<1> DEFINE f  == fds[p][d]
           D  == {e} \cap OpenFds(p)
           F  == Cleared(p, D)
           fl == ReleaseFiles(p, D)
           rd == ReleaseReaders(p, D)
           wr == ReleaseWriters(p, D)
           og == ReleaseOpenRefs(p, D)
<1>0. Counted[p] = fds[p]
  BY CountedIs
<1>1. f \in Files /\ d # e
  BY DEF Dup2, OpenFds, IInv
<1>1a. D \subseteq CountedFds(p)
  BY <1>0 DEF CountedFds, OpenFds
<1>1b. /\ fds' \in [Pids -> [FD -> Files \cup {None}]]
       /\ Counted' = [Counted EXCEPT ![p][e] = f]
       /\ \A q \in half_made : fds'[q][0] = fds[q][0]
       /\ half_made' = half_made
  <2>0. fds' = [fds EXCEPT ![p][e] = f]
    BY DEF Dup2
  <2>1. half_made' = half_made
    BY DEF Dup2
  <2> HIDE DEF f
  <2>2. f \in Files /\ fds' = [fds EXCEPT ![p][e] = f]
    BY <1>1, <2>0
  <2>3. /\ fds' \in [Pids -> [FD -> Files \cup {None}]]
        /\ Counted' = [Counted EXCEPT ![p][e] = f]
        /\ Counted[p] = fds[p]
        /\ \A q \in half_made : fds'[q][0] = fds[q][0]
    BY <2>1, <2>2, SlotStep
  <2> QED BY <2>1, <2>3
<1>2. /\ TypeIn(F, fl, rd, wr, og) /\ ExactIn(F, fl, rd, wr, og)
      /\ NamesIn(F, f) # {} => fl[f].obj = file[f].obj /\ fl[f].access = file[f].access
      /\ \A q \in half_made : fl[fds[q][0]] = file[fds[q][0]]
  <2> HIDE DEF f, D
  <2> QED BY <1>1, <1>1a, ReleaseExact
<1>3. F[p][e] = None /\ F[p][d] = f
  BY <1>0, <1>1, CountedIs DEF Cleared, OpenFds
<1>4. NamesIn(F, f) # {}
  <2>1. <<p, d>> \in NamesIn(F, f)
    BY <1>3 DEF NamesIn, Slots
  <2> QED BY <2>1
<1>5. Counted' = [F EXCEPT ![p][e] = f]
  <2>1. [Counted EXCEPT ![p][e] = f] = [Cleared(p, D) EXCEPT ![p][e] = f]
    BY CountedIs DEF Cleared
  <2> QED BY <1>1b, <2>1
<1>6. /\ file' = AcquireFile(fl, f)
      /\ readers' = AddReads(fl, rd, f)
      /\ writers' = AddWrites(fl, wr, f)
      /\ open_refs' = og
  BY <1>2, <1>4 DEF Dup2, AcquireReaders, AcquireWriters, Reads, Writes, Readable, Writable,
                    ReadsIn, WritesIn, AddReads, AddWrites
<1>7. close_on_exec' \in [Pids -> SUBSET FD]
  BY DEF Dup2, IInv
<1> HIDE DEF f, D, F, fl, rd, wr, og
<1>8. /\ TypeIn(Counted', AcquireFile(fl, f), AddReads(fl, rd, f), AddWrites(fl, wr, f), og)
      /\ ExactIn(Counted', AcquireFile(fl, f), AddReads(fl, rd, f), AddWrites(fl, wr, f), og)
  BY <1>1, <1>2, <1>3, <1>4, <1>5, AcquireExact
<1>9. HalfMadeApart'
  <2>1. \A q \in half_made : f # fds[q][0]
    BY NobodySharesHalf DEF f
  <2>2. fl \in [Files -> OpenFile]
    BY <1>2 DEF TypeIn
  <2> QED BY <1>1, <1>1b, <1>2, <1>6, <2>1, <2>2, AcquiredApart
<1> QED BY <1>1b, <1>6, <1>7, <1>8, <1>9 DEF IInv

(* New OpenFiles are not what half-made children name.                      *)
LEMMA InstalledApart ==
    ASSUME IInv, half_made' = half_made, \A q \in half_made : fds'[q][0] = fds[q][0],
           NEW f \in Files, NEW g \in Files, file[f] = FreeFile, file[g] = FreeFile,
           NEW r, NEW t, file' = [file EXCEPT ![f] = r, ![g] = t]
    PROVE  HalfMadeApart'
<1>1. \A q \in half_made : fds[q][0] # f /\ fds[q][0] # g
  BY NobodySharesHalf, DescriptorsAssumption DEF FreeFile
<1>2. \A q \in half_made : file'[fds[q][0]] = file[fds[q][0]]
  BY <1>1, NobodySharesHalf DEF IInv, TypeIn
<1> QED BY <1>2, NobodySharesHalf, ApartStep

(* sys_open keeps the invariant.                                            *)
LEMMA OpenIInv ==
    ASSUME IInv, NEW p \in Pids, p \notin half_made, NEW f \in Files, NEW o \in Objects, NEW a \in OpenModes,
           Open(p, f, o, a)
    PROVE  IInv'
<1>1. a \in Access /\ o \notin Pipes
  BY DescriptorsAssumption DEF Access, Open
<1>2. PICK d \in FD : fds[p][d] = None /\ fds' = [fds EXCEPT ![p][d] = f]
  BY DEF Open, IsAllocFd, OpenFds
<1>2a. /\ fds' \in [Pids -> [FD -> Files \cup {None}]]
       /\ Counted' = [Counted EXCEPT ![p][d] = f] /\ Counted[p] = fds[p]
       /\ \A q \in half_made : fds'[q][0] = fds[q][0]
       /\ half_made' = half_made
  <2>1. half_made' = half_made
    BY DEF Open
  <2> QED BY <1>2, <2>1, SlotStep
<1>3. /\ {d} \subseteq FD /\ {d} # {} /\ Cardinality({d}) = 1
      /\ \A x \in {d} : Counted[p][x] = None
  BY <1>2, <1>2a, FS_Singleton
<1>4. Installed(Counted, Counted', p, {d}, f)
  BY <1>2a, CountedIs DEF Slots, Lift, Installed
<1>5. /\ file[f] = FreeFile /\ file' = InstallFile(file, f, o, a, 1)
      /\ readers' = readers /\ writers' = writers /\ close_on_exec' = close_on_exec
  BY DEF Open, InstallFile
<1>6. OpenerAdded(open_refs, open_refs', o)
  BY DEF Open, IInv, TypeIn, OpenerAdded
<1>7. ReadersAdded(readers, readers, o, a, 1) /\ WritersAdded(writers, writers, o, a, 1)
  BY <1>1 DEF IInv, TypeIn, ReadersAdded, WritersAdded
<1>8. TypeIn(Counted, file, readers, writers, open_refs) /\ ExactIn(Counted, file, readers, writers, open_refs)
  BY DEF IInv
<1>9. /\ TypeIn(Counted', InstallFile(file, f, o, a, 1), readers, writers, open_refs')
      /\ ExactIn(Counted', InstallFile(file, f, o, a, 1), readers, writers, open_refs')
  BY <1>1, <1>3, <1>4, <1>5, <1>6, <1>7, <1>8, InstallExact
<1>10. HalfMadeApart'
  <2>1. file' = [file EXCEPT ![f] = Opened(o, a, 1), ![f] = Opened(o, a, 1)]
    BY <1>5 DEF InstallFile, IInv, TypeIn
  <2>2. file[f] = FreeFile
    BY <1>5
  <2> QED BY <1>2a, <2>1, <2>2, InstalledApart
<1> QED BY <1>2a, <1>5, <1>9, <1>10 DEF IInv

(* A pipe that no OpenFile refers to has both its counters at zero, so that *)
(* sys_pipe may set them to one.                                            *)
LEMMA FreshPipe ==
    ASSUME IInv, NEW pp \in Pipes, \A f \in Files : file[f].obj # pp
    PROVE  readers[pp] = 0 /\ writers[pp] = 0
<1>1. \A s \in Slots : Counted[s[1]][s[2]] \in Files \cup {None}
  BY DEF IInv, TypeIn, Slots
<1>2. ReadSlotsIn(Counted, file, pp) = {} /\ WriteSlotsIn(Counted, file, pp) = {}
  BY <1>1 DEF ReadSlotsIn, WriteSlotsIn, ReadsIn, WritesIn
<1>3. /\ readers[pp] = Cardinality(ReadSlotsIn(Counted, file, pp))
      /\ writers[pp] = Cardinality(WriteSlotsIn(Counted, file, pp))
  BY DEF IInv, ExactIn
<1> QED BY <1>2, <1>3, FS_EmptySet

(* sys_pipe keeps the invariant: the read end is installed, then the write  *)
(* end, in the tables the first one leaves.                                 *)
LEMMA CreatePipeIInv ==
    ASSUME IInv, NEW p \in Pids, p \notin half_made, NEW pp \in Pipes, NEW rf \in Files, NEW wf \in Files,
           CreatePipe(p, pp, rf, wf)
    PROVE  IInv'
<1>1. PICK r \in FD, w \in FD : /\ r # w /\ fds[p][r] = None /\ fds[p][w] = None
                                /\ fds' = [fds EXCEPT ![p][r] = rf, ![p][w] = wf]
  <2>1. PICK r \in FD, w \in FD : /\ IsAllocFd(p, 0, r) /\ IsAllocFd(p, r + 1, w)
                                  /\ fds' = [fds EXCEPT ![p][r] = rf, ![p][w] = wf]
    BY DEF CreatePipe
  <2>2. r # w
    BY <2>1, DescriptorsAssumption DEF IsAllocFd, FD
  <2> QED BY <2>1, <2>2 DEF IsAllocFd, OpenFds
<1>2. /\ rf # wf /\ file[rf] = FreeFile /\ file[wf] = FreeFile
      /\ file' = InstallFile(InstallFile(file, rf, pp, "r", 1), wf, pp, "w", 1)
      /\ readers' = [readers EXCEPT ![pp] = 1] /\ writers' = [writers EXCEPT ![pp] = 1]
      /\ close_on_exec' = close_on_exec /\ open_refs' = open_refs
      /\ half_made' = half_made
  BY DEF CreatePipe, InstallFile
<1>2a. /\ fds' \in [Pids -> [FD -> Files \cup {None}]]
       /\ Counted' = [Counted EXCEPT ![p][r] = rf, ![p][w] = wf]
       /\ Counted[p] = fds[p]
       /\ \A q \in half_made : fds'[q][0] = fds[q][0]
  <2> DEFINE row == [fds[p] EXCEPT ![r] = rf, ![w] = wf]
  <2>1. row \in [FD -> Files \cup {None}] /\ fds' = [fds EXCEPT ![p] = row]
    BY <1>1 DEF IInv
  <2>2. Counted[p] = fds[p]
    BY CountedIs
  <2>3. [Counted EXCEPT ![p] = row] = [Counted EXCEPT ![p][r] = rf, ![p][w] = wf]
    BY <2>2, CountedIs
  <2> HIDE DEF row
  <2> QED BY <1>2, <2>1, <2>2, <2>3, CountedStep
<1>3. readers[pp] = 0 /\ writers[pp] = 0
  BY FreshPipe DEF CreatePipe
<1>4. pp \in Objects /\ "r" \in Access /\ "w" \in Access
  BY DEF Objects, Access
<1>5. OpenerAdded(open_refs, open_refs, pp)
  BY DescriptorsAssumption DEF OpenerAdded, IInv, TypeIn
<1>6. TypeIn(Counted, file, readers, writers, open_refs) /\ ExactIn(Counted, file, readers, writers, open_refs)
  BY DEF IInv
<1> DEFINE F == [Counted EXCEPT ![p][r] = rf]
           fl == InstallFile(file, rf, pp, "r", 1)
<1>7. TypeIn(F, fl, readers', writers, open_refs) /\ ExactIn(F, fl, readers', writers, open_refs)
  <2>1. /\ {r} \subseteq FD /\ {r} # {} /\ 1 = Cardinality({r})
        /\ \A x \in {r} : Counted[p][x] = None
    BY <1>1, <1>2a, FS_Singleton
  <2>2. Installed(Counted, F, p, {r}, rf)
    BY CountedIs DEF Slots, Lift, Installed
  <2>3. ReadersAdded(readers, readers', pp, "r", 1) /\ WritersAdded(writers, writers, pp, "r", 1)
    BY <1>2, <1>3 DEF ReadersAdded, WritersAdded, IInv, TypeIn
  <2> HIDE DEF F
  <2> QED BY <1>2, <1>4, <1>5, <1>6, <2>1, <2>2, <2>3, InstallExact
<1>8. /\ TypeIn(Counted', InstallFile(fl, wf, pp, "w", 1), readers', writers', open_refs)
      /\ ExactIn(Counted', InstallFile(fl, wf, pp, "w", 1), readers', writers', open_refs)
  <2>0. F[p][w] = None
    BY <1>1, <1>2a, CountedIs
  <2>1. /\ {w} \subseteq FD /\ {w} # {} /\ 1 = Cardinality({w})
        /\ \A x \in {w} : F[p][x] = None
    <3> HIDE DEF F
    <3> QED BY <2>0, FS_Singleton
  <2>2. Installed(F, Counted', p, {w}, wf)
    BY <1>1, <1>2a, CountedIs DEF Slots, Lift, Installed
  <2>3. ReadersAdded(readers', readers', pp, "w", 1) /\ WritersAdded(writers, writers', pp, "w", 1)
    BY <1>2, <1>3 DEF ReadersAdded, WritersAdded, IInv, TypeIn
  <2>4. fl[wf] = FreeFile
    BY <1>2 DEF InstallFile
  <2> HIDE DEF F, fl
  <2> QED BY <1>4, <1>5, <1>7, <2>1, <2>2, <2>3, <2>4, InstallExact
<1> HIDE DEF F
<1>9. HalfMadeApart'
  BY <1>2, <1>2a, InstalledApart DEF InstallFile
<1> QED BY <1>2, <1>2a, <1>8, <1>9 DEF IInv

(* Descriptors 1 and 2 are two.                                             *)
LEMMA TwoCount == Cardinality({1, 2}) = 2
<1>1. Cardinality({1}) = 1 /\ IsFiniteSet({1})
  BY FS_Singleton
<1>2. {1, 2} = {1} \cup {2} /\ 2 \notin {1}
  OBVIOUS
<1>3. Cardinality({1} \cup {2}) = Cardinality({1}) + 1
  BY <1>1, <1>2, CardAdd
<1> QED BY <1>1, <1>2, <1>3

(* Building the standard descriptors keeps the invariant: descriptor 0 is   *)
(* installed, then descriptors 1 and 2.                                     *)
LEMMA SetupIInv ==
    ASSUME IInv, NEW p \in Pids, p \notin half_made, NEW fin \in Files, NEW fout \in Files, NEW o \in Objects,
           SetupStdFds(p, fin, fout, o)
    PROVE  IInv'
<1>1. {0} \subseteq FD /\ {1, 2} \subseteq FD
  BY DescriptorsAssumption DEF FD
<1>2. /\ fin # fout /\ file[fin] = FreeFile /\ file[fout] = FreeFile
      /\ file' = InstallFile(InstallFile(file, fin, o, "r", 1), fout, Device, "w", 2)
      /\ readers' = readers /\ writers' = writers /\ o \notin Pipes
      /\ half_made' = half_made
  BY DescriptorsAssumption DEF SetupStdFds, InstallFile
<1>2a. /\ fds' \in [Pids -> [FD -> Files \cup {None}]]
       /\ Counted' = [Counted EXCEPT ![p] = StdFds(fin, fout)]
       /\ \A q \in half_made : fds'[q][0] = fds[q][0]
       /\ \A d \in FD : Counted[p][d] = None
  <2>1. /\ StdFds(fin, fout) \in [FD -> Files \cup {None}]
        /\ fds' = [fds EXCEPT ![p] = StdFds(fin, fout)]
        /\ \A d \in FD : fds[p][d] = None
    BY DEF SetupStdFds, StdFds, OpenFds
  <2> QED BY <1>2, <2>1, CountedStep, CountedIs
<1>3. /\ Device \in Objects /\ Device \notin Pipes /\ Device \notin VNodes
      /\ "r" \in Access /\ "w" \in Access
  BY DescriptorsAssumption DEF Objects, Access
<1>4. OpenerAdded(open_refs, open_refs', o) /\ OpenerAdded(open_refs', open_refs', Device)
  BY <1>3 DEF SetupStdFds, OpenerAdded, IInv, TypeIn
<1>5. /\ ReadersAdded(readers, readers, o, "r", 1) /\ WritersAdded(writers, writers, o, "r", 1)
      /\ ReadersAdded(readers, readers, Device, "w", 2) /\ WritersAdded(writers, writers, Device, "w", 2)
  BY <1>2, <1>3 DEF ReadersAdded, WritersAdded, IInv, TypeIn
<1>6. TypeIn(Counted, file, readers, writers, open_refs) /\ ExactIn(Counted, file, readers, writers, open_refs)
  BY DEF IInv
<1> DEFINE F == [Counted EXCEPT ![p][0] = fin]
           fl == InstallFile(file, fin, o, "r", 1)
<1>7. TypeIn(F, fl, readers, writers, open_refs') /\ ExactIn(F, fl, readers, writers, open_refs')
  <2>1. {0} # {} /\ 1 = Cardinality({0}) /\ \A x \in {0} : Counted[p][x] = None
    BY <1>1, <1>2a, FS_Singleton
  <2>2. Installed(Counted, F, p, {0}, fin)
    BY <1>1, CountedIs DEF Slots, Lift, Installed
  <2> HIDE DEF F
  <2> QED BY <1>1, <1>2, <1>3, <1>4, <1>5, <1>6, <2>1, <2>2, InstallExact
<1>8. /\ TypeIn(Counted', InstallFile(fl, fout, Device, "w", 2), readers, writers, open_refs')
      /\ ExactIn(Counted', InstallFile(fl, fout, Device, "w", 2), readers, writers, open_refs')
  <2>1. {1, 2} # {} /\ \A x \in {1, 2} : F[p][x] = None
    BY <1>1, <1>2a, CountedIs
  <2>2. 2 = Cardinality({1, 2})
    BY TwoCount
  <2>3. Installed(F, Counted', p, {1, 2}, fout)
    BY <1>1, <1>2a, CountedIs DEF StdFds, Slots, Lift, Installed
  <2>4. fl[fout] = FreeFile
    BY <1>2 DEF InstallFile
  <2> HIDE DEF F, fl
  <2> QED BY <1>1, <1>3, <1>4, <1>5, <1>7, <2>1, <2>2, <2>3, <2>4, InstallExact
<1>9. close_on_exec' \in [Pids -> SUBSET FD]
  BY DEF SetupStdFds, IInv
<1> HIDE DEF F
<1>10. HalfMadeApart'
  BY <1>2, <1>2a, InstalledApart DEF InstallFile
<1> QED BY <1>2, <1>2a, <1>8, <1>9, <1>10 DEF IInv

(* A spawn that fails keeps the invariant: descriptors 1 and 2 are          *)
(* installed, and fd 0 names an OpenFile that counts for nothing.           *)
LEMMA SpawnFailsIInv ==
    ASSUME IInv, NEW p \in Pids, p \notin half_made, NEW fin \in Files, NEW fout \in Files,
           SpawnFails(p, fin, fout)
    PROVE  IInv'
<1> DEFINE fl == InstallFile(file, fout, Device, "w", 2)
           r0 == Opened(Device, "r", 0)
           row == [d \in FD |-> IF d \in {1, 2} THEN fout ELSE None]
<1>1. {1, 2} \subseteq FD /\ 0 \in FD /\ fin # None /\ fout # None
  BY DescriptorsAssumption DEF FD
<1>2. /\ fin # fout /\ file[fin] = FreeFile /\ file[fout] = FreeFile
      /\ file' = [file EXCEPT ![fin] = r0, ![fout] = Opened(Device, "w", 2)]
      /\ readers' = readers /\ writers' = writers /\ open_refs' = open_refs
      /\ half_made' = half_made \cup {p}
      /\ fds' = [fds EXCEPT ![p] = StdFds(fin, fout)]
      /\ \A d \in FD : fds[p][d] = None
      /\ close_on_exec' \in [Pids -> SUBSET FD]
  BY DEF SpawnFails, OpenFds, IInv
<1>3. /\ Device \in Objects /\ Device \notin Pipes /\ Device \notin VNodes /\ Device # None
      /\ "r" \in Access /\ "w" \in Access
  BY DescriptorsAssumption DEF Objects, Access
<1>4. /\ fds' \in [Pids -> [FD -> Files \cup {None}]]
      /\ \A q \in Pids : fds'[q] = IF q = p THEN StdFds(fin, fout) ELSE fds[q]
  <2>1. StdFds(fin, fout) \in [FD -> Files \cup {None}]
    BY DEF StdFds
  <2> QED BY <1>2, <2>1 DEF IInv
<1>5. Counted' = [Counted EXCEPT ![p] = row]
  <2>1. Counted' = [q \in Pids |-> [d \in FD |-> IF q \in half_made' /\ d = 0 THEN None
                                                  ELSE fds'[q][d]]]
    BY DEF Counted
  <2>2. Counted'[p] = row
    <3>1. Counted'[p] = [d \in FD |-> IF d = 0 THEN None ELSE StdFds(fin, fout)[d]]
      BY <1>2, <1>4, <2>1
    <3> QED BY <3>1 DEF StdFds
  <2>3. \A q \in Pids : q # p => Counted'[q] = Counted[q]
    BY <1>2, <1>4, <2>1 DEF Counted
  <2> HIDE DEF row
  <2>4. \A q \in Pids : Counted'[q] = [Counted EXCEPT ![p] = row][q]
    BY <2>2, <2>3, CountedIs
  <2>5. Counted' = [q \in Pids |-> Counted'[q]]
    BY <2>1
  <2> QED BY <2>4, <2>5, CountedIs
<1>6. Counted[p] = fds[p] /\ \A x \in {1, 2} : Counted[p][x] = None
  BY <1>1, <1>2, CountedIs
<1>7. Installed(Counted, Counted', p, {1, 2}, fout)
  BY <1>1, <1>2, <1>5, <1>6, CountedIs DEF Slots, Lift, Installed
<1>8. {1, 2} # {} /\ 2 = Cardinality({1, 2})
  BY TwoCount
<1>9. /\ ReadersAdded(readers, readers, Device, "w", 2)
      /\ WritersAdded(writers, writers, Device, "w", 2)
      /\ OpenerAdded(open_refs, open_refs, Device)
  BY <1>3 DEF ReadersAdded, WritersAdded, OpenerAdded, IInv, TypeIn
<1>10. TypeIn(Counted, file, readers, writers, open_refs) /\ ExactIn(Counted, file, readers, writers, open_refs)
  BY DEF IInv
<1> HIDE DEF row
<1>11. /\ TypeIn(Counted', fl, readers, writers, open_refs)
       /\ ExactIn(Counted', fl, readers, writers, open_refs)
  BY <1>1, <1>2, <1>3, <1>6, <1>7, <1>8, <1>9, <1>10, InstallExact
<1>12. NamesIn(Counted', fin) = {}
  <2>1. fl[fin].refs = 0
    BY <1>2 DEF InstallFile, FreeFile
  <2>2. Cardinality(NamesIn(Counted', fin)) = 0
    BY <1>11, <2>1 DEF ExactIn
  <2> QED BY <2>2, FS_EmptySet, SlotSetFinite DEF NamesIn
<1>13. r0 \in OpenFile /\ r0.refs = 0 /\ r0.obj = Device
  BY <1>3 DEF Opened, OpenFile
<1>14. file' = [fl EXCEPT ![fin] = r0]
  BY <1>2 DEF InstallFile, IInv, TypeIn
<1> HIDE DEF fl, r0
<1>15. /\ TypeIn(Counted', file', readers', writers', open_refs')
       /\ ExactIn(Counted', file', readers', writers', open_refs')
  BY <1>2, <1>11, <1>12, <1>13, <1>14, UnnamedRecord
<1>16. HalfMadeApart'
  <2>1. ASSUME NEW q \in half_made
        PROVE  /\ q # p /\ fds'[q][0] = fds[q][0] /\ fds[q][0] \in Files /\ fds[q][0] # fin
               /\ file'[fds[q][0]].obj = Device /\ file'[fds[q][0]].refs = 0
    <3>1. /\ q \in Pids /\ fds[q][0] \in Files
          /\ file[fds[q][0]].obj = Device /\ file[fds[q][0]].refs = 0
      BY NobodySharesHalf
    <3>2. fds[q][0] # fin /\ fds[q][0] # fout
      BY <1>2, <1>3, <3>1 DEF FreeFile
    <3>3. file'[fds[q][0]] = file[fds[q][0]]
      BY <1>2, <3>1, <3>2 DEF IInv, TypeIn
    <3> QED BY <1>4, <3>1, <3>2, <3>3
  <2>2. /\ fds'[p][0] = fin /\ file'[fin].obj = Device /\ file'[fin].refs = 0
    BY <1>1, <1>2, <1>4, <1>13 DEF StdFds, IInv, TypeIn
  <2>3. /\ \A q \in half_made : fds'[q][0] # fds'[p][0]
        /\ \A q, r \in half_made : fds'[q][0] = fds'[r][0] => q = r
    BY <2>1, <2>2 DEF IInv, HalfMadeApart
  <2>4. \A q, r \in half_made' : fds'[q][0] = fds'[r][0] => q = r
    BY <1>2, <2>3
  <2>5. \A q \in half_made' : /\ fds'[q][0] \in Files
                               /\ file'[fds'[q][0]].obj = Device
                               /\ file'[fds'[q][0]].refs = 0
    BY <1>2, <2>1, <2>2
  <2> QED BY <2>4, <2>5 DEF HalfMadeApart
<1> QED BY <1>2, <1>4, <1>15, <1>16 DEF IInv

-----------------------------------------------------------------------------
(* Every step keeps the invariant.                                          *)

(* One case per operation of the descriptor tables.                         *)
LEMMA NextIInv == IInv /\ [Next]_descVars => IInv'
<1> SUFFICES ASSUME IInv, [Next]_descVars PROVE IInv'
  OBVIOUS
<1>1. CASE UNCHANGED descVars
  <2>1. /\ fds' = fds /\ close_on_exec' = close_on_exec /\ file' = file
        /\ readers' = readers /\ writers' = writers /\ open_refs' = open_refs
        /\ half_made' = half_made /\ Counted' = Counted
    BY <1>1 DEF descVars, Counted
  <2> QED BY <2>1 DEF IInv, HalfMadeApart
<1>2. ASSUME NEW p \in Pids, NEW d \in FD, NEW on \in BOOLEAN, SetCloseOnExec(p, d, on)
      PROVE  IInv'
  <2>1. /\ fds' = fds /\ file' = file /\ half_made' = half_made /\ Counted' = Counted
        /\ readers' = readers /\ writers' = writers /\ open_refs' = open_refs
        /\ close_on_exec' \in [Pids -> SUBSET FD]
    BY <1>2 DEF SetCloseOnExec, IInv, Counted
  <2> QED BY <2>1 DEF IInv, HalfMadeApart
<1>3. ASSUME NEW p \in Pids, p \notin half_made, RunningOperation(p)
      PROVE  IInv'
  BY <1>2, <1>3, SetupIInv, SpawnFailsIInv, OpenIInv, CreatePipeIInv, CloseIInv, DupIInv,
     Dup2IInv, ForkExact, ExecIInv DEF RunningOperation
<1>4. CASE Next
  BY <1>3, <1>4, ExitIInv DEF Next, Operation
<1> QED BY <1>1, <1>4

(* The invariant holds in every reachable state.                            *)
THEOREM InvariantHolds == Spec => []IInv
BY InitIInv, NextIInv, PTL DEF Spec

(* The invariant says what the properties of Descriptors say.               *)
LEMMA IInvImplies == IInv => TypeOK /\ RefsExact /\ PipeEndsExact /\ OpenRefsExact
<1> SUFFICES ASSUME IInv PROVE TypeOK /\ RefsExact /\ PipeEndsExact /\ OpenRefsExact
  OBVIOUS
<1>1. TypeOK
  BY DEF IInv, TypeIn, TypeOK
<1>a. \A s \in Slots : Counted[s[1]][s[2]] = IF s \in Released THEN None
                                                ELSE fds[s[1]][s[2]]
  BY CountedIs DEF Slots, Released
<1>b. \A s \in Slots : s \in Released => /\ fds[s[1]][s[2]] \in Files
                                            /\ file[fds[s[1]][s[2]]].obj = Device
  BY NobodySharesHalf DEF Slots, Released
<1>2. RefsExact
  <2>1. ASSUME NEW f \in Files
        PROVE  Names(f) \ Released = NamesIn(Counted, f)
    <3>1. f # None
      BY DescriptorsAssumption
    <3> QED BY <1>a, <3>1 DEF Names, NamesIn
  <2> QED BY <2>1 DEF RefsExact, IInv, ExactIn
<1>3. PipeEndsExact
  <2>1. \A pp \in Pipes : ReadSlots(pp) = ReadSlotsIn(Counted, file, pp)
    BY <1>a, <1>b, DescriptorsAssumption DEF ReadSlots, ReadSlotsIn, Reads, ReadsIn, Readable
  <2>2. \A pp \in Pipes : WriteSlots(pp) = WriteSlotsIn(Counted, file, pp)
    BY <1>a, <1>b, DescriptorsAssumption DEF WriteSlots, WriteSlotsIn, Writes, WritesIn, Writable
  <2> QED BY <2>1, <2>2 DEF PipeEndsExact, IInv, ExactIn
<1>4. OpenRefsExact
  <2>1. ASSUME NEW v \in VNodes, NEW f \in Files, file[f].obj = v
        PROVE  Names(f) = NamesIn(Counted, f)
    <3>1. f # None /\ v # Device
      BY DescriptorsAssumption
    <3>2. \A s \in Slots : fds[s[1]][s[2]] = f <=> Counted[s[1]][s[2]] = f
      BY <1>a, <1>b, <2>1, <3>1
    <3> QED BY <3>2 DEF Names, NamesIn
  <2>2. \A v \in VNodes : {f \in Files : file[f].obj = v /\ Names(f) # {}}
                             = OpenersIn(Counted, file, v)
    BY <2>1 DEF OpenersIn
  <2> QED BY <2>2 DEF IInv, ExactIn, OpenRefsExact
<1> QED BY <1>1, <1>2, <1>3, <1>4

(* Every variable keeps its type: no counter that anything reads is ever    *)
(* negative.                                                                *)
THEOREM TypeCorrect == Spec => []TypeOK
BY InvariantHolds, IInvImplies, PTL

(* OpenFile.refs always counts the descriptors that name the OpenFile, but  *)
(* for fd 0 of a child that a failing _spawn left behind.                   *)
THEOREM RefsAreExact == Spec => []RefsExact
BY InvariantHolds, IInvImplies, PTL

(* Pipe.readers and Pipe.writers always count the descriptors on each end.  *)
THEOREM PipeEndsAreExact == Spec => []PipeEndsExact
BY InvariantHolds, IInvImplies, PTL

(* VInode.open_refs always counts the OpenFiles in use on the inode.        *)
THEOREM OpenRefsAreExact == Spec => []OpenRefsExact
BY InvariantHolds, IInvImplies, PTL

-----------------------------------------------------------------------------
(* End of file is final.                                                    *)

(* A counter at zero means that no descriptor is on that end.               *)
LEMMA NobodyLeft ==
    ASSUME IInv, NEW pp \in Pipes
    PROVE  /\ writers[pp] = 0 => \A p \in Pids, d \in FD : ~Writes(fds[p][d], pp)
           /\ readers[pp] = 0 => \A p \in Pids, d \in FD : ~Reads(fds[p][d], pp)
<1>1. /\ writers[pp] = Cardinality(WriteSlotsIn(Counted, file, pp))
      /\ readers[pp] = Cardinality(ReadSlotsIn(Counted, file, pp))
  BY DEF IInv, ExactIn
<1>2. /\ writers[pp] = 0 => WriteSlotsIn(Counted, file, pp) = {}
      /\ readers[pp] = 0 => ReadSlotsIn(Counted, file, pp) = {}
  BY <1>1, FS_EmptySet, SlotSetFinite DEF WriteSlotsIn, ReadSlotsIn
<1>3. ASSUME NEW p \in Pids, NEW d \in FD
      PROVE  /\ Writes(fds[p][d], pp) => <<p, d>> \in WriteSlotsIn(Counted, file, pp)
             /\ Reads(fds[p][d], pp) => <<p, d>> \in ReadSlotsIn(Counted, file, pp)
  <2>1. CASE p \in half_made /\ d = 0
    BY <2>1, NobodySharesHalf, DescriptorsAssumption DEF Writes, Reads
  <2>2. CASE ~(p \in half_made /\ d = 0)
    <3>1. Counted[p][d] = fds[p][d]
      BY <2>2, CountedIs
    <3> QED BY <3>1 DEF WriteSlotsIn, ReadSlotsIn, Writes, Reads, WritesIn, ReadsIn, Writable,
                     Readable, Slots
  <2> QED BY <2>1, <2>2
<1> QED BY <1>2, <1>3

(* Releasing descriptors never raises a counter from zero.                  *)
LEMMA ReleaseKeepsZero ==
    ASSUME IInv, NEW p \in Pids, NEW D, D \subseteq FD, NEW pp \in Pipes
    PROVE  /\ writers[pp] = 0 => ReleaseWriters(p, D)[pp] = 0
           /\ readers[pp] = 0 => ReleaseReaders(p, D)[pp] = 0
<1>1. /\ Cardinality({d \in D : Writes(fds[p][d], pp)}) \in Nat
      /\ Cardinality({d \in D : Reads(fds[p][d], pp)}) \in Nat
  BY LiftCard
<1> QED BY <1>1 DEF ReleaseWriters, ReleaseReaders, Monus

(* A pipe that some OpenFile refers to never gets back an end that nobody   *)
(* holds: descriptors on an end come from descriptors on that end.          *)
LEMMA NoEndComesBack ==
    ASSUME IInv, NEW p \in Pids, Operation(p),
           NEW pp \in Pipes, \E f \in Files : file[f].obj = pp
    PROVE  /\ writers[pp] = 0 => writers'[pp] = 0
           /\ readers[pp] = 0 => readers'[pp] = 0
<1> DEFINE Final == /\ writers[pp] = 0 => writers'[pp] = 0
                    /\ readers[pp] = 0 => readers'[pp] = 0
<1>0. /\ readers[pp] \in Nat /\ writers[pp] \in Nat
      /\ readers \in [Pipes -> Nat] /\ writers \in [Pipes -> Nat]
  BY DEF IInv, TypeIn
<1>1. ASSUME NEW D, D \subseteq FD, Release(p, D)
      PROVE  Final
  BY <1>1, ReleaseKeepsZero DEF Release
<1>2. ASSUME NEW qq \in Pipes, NEW rf \in Files, NEW wf \in Files, CreatePipe(p, qq, rf, wf)
      PROVE  Final
  BY <1>0, <1>2 DEF CreatePipe
<1>3. ASSUME NEW d \in FD, NEW e \in FD, DupFrom(p, d, e)
      PROVE  Final
  BY <1>0, <1>3, NobodyLeft DEF DupFrom, AcquireReaders, AcquireWriters
<1>4. ASSUME NEW d \in FD, NEW e \in FD, Dup2(p, d, e)
      PROVE  Final
  <2> DEFINE D == {e} \cap OpenFds(p)
  <2>1. /\ readers' = AcquireReaders(ReleaseReaders(p, D), fds[p][d])
        /\ writers' = AcquireWriters(ReleaseWriters(p, D), fds[p][d])
    BY <1>4 DEF Dup2
  <2>2. D \subseteq FD
    OBVIOUS
  <2> HIDE DEF D
  <2> QED BY <2>1, <2>2, NobodyLeft, ReleaseKeepsZero DEF AcquireReaders, AcquireWriters
<1>5. ASSUME NEW c \in Pids, ForkFds(p, c)
      PROVE  Final
  <2>1. /\ writers[pp] = 0 => {d \in FD : Writes(fds[p][d], pp)} = {}
        /\ readers[pp] = 0 => {d \in FD : Reads(fds[p][d], pp)} = {}
    BY NobodyLeft
  <2> QED BY <1>0, <1>5, <2>1, FS_EmptySet DEF ForkFds
<1>6. ASSUME NEW d \in FD, Close(p, d)
      PROVE  Final
  BY <1>1, <1>6 DEF Close
<1>7. ASSUME ExecFds(p) PROVE Final
  BY <1>1, <1>7 DEF ExecFds, OpenFds
<1>8. ASSUME ExitFds(p) PROVE Final
  BY <1>1, <1>8 DEF ExitFds, OpenFds
<1>9. ASSUME readers' = readers, writers' = writers
      PROVE  Final
  BY <1>9
<1>10. /\ \A fin, fout \in Files, o \in Objects : SetupStdFds(p, fin, fout, o) => Final
       /\ \A fin, fout \in Files : SpawnFails(p, fin, fout) => Final
       /\ \A f \in Files, o \in Objects, a \in OpenModes : Open(p, f, o, a) => Final
       /\ \A d \in FD, on \in BOOLEAN : SetCloseOnExec(p, d, on) => Final
  BY <1>9 DEF SetupStdFds, SpawnFails, Open, SetCloseOnExec
<1> HIDE DEF Final
<1>11. Final
  BY <1>2, <1>3, <1>4, <1>5, <1>6, <1>7, <1>8, <1>10 DEF Operation, RunningOperation
<1> QED BY <1>11 DEF Final

(* No operation gives a pipe that has an end open the other end back.       *)
THEOREM EndOfFileStaysFinal == Spec => EndOfFileIsFinal
<1>1. ASSUME IInv, Next, NEW pp \in Pipes
      PROVE  /\ writers[pp] = 0 /\ readers[pp] > 0 => writers'[pp] = 0
             /\ readers[pp] = 0 /\ writers[pp] > 0 => readers'[pp] = 0
  <2>1. CASE \E f \in Files : file[f].obj = pp
    BY <1>1, <2>1, NoEndComesBack DEF Next
  <2>2. CASE ~\E f \in Files : file[f].obj = pp
    BY <1>1, <2>2, FreshPipe
  <2> QED BY <2>1, <2>2
<1>2. IInv /\ [Next]_descVars =>
          [\A pp \in Pipes : /\ writers[pp] = 0 /\ readers[pp] > 0 => writers'[pp] = 0
                             /\ readers[pp] = 0 /\ writers[pp] > 0 => readers'[pp] = 0]_descVars
  BY <1>1
<1> QED BY <1>2, InvariantHolds, PTL DEF Spec, EndOfFileIsFinal
=============================================================================
