------------------------------ MODULE Descriptors ------------------------------
(***************************************************************************)
(* The descriptor tables of the kernel (kernel.py): OpenFile objects that  *)
(* fork, dup and dup2 share, the reference count each of them carries, the *)
(* readers/writers counters of a Pipe, which count DESCRIPTORS, and the    *)
(* open_refs counter of a VInode, which counts OpenFile objects.           *)
(*                                                                         *)
(* The module owns the tables only: which process may act, and when, is    *)
(* decided by the modules that compose it (Kernel).  Taken alone, Spec     *)
(* lets every process perform every descriptor operation at any time.      *)
(***************************************************************************)
EXTENDS Integers, FiniteSets

CONSTANTS Pids,      \* process identifiers
          NR_OPEN,   \* descriptors per process (20 in the code)
          Files,     \* identities of OpenFile objects (bounds how many exist at once)
          Pipes,     \* identities of Pipe objects (bounds how many exist at once)
          VNodes,    \* regular files and directories
          OpenModes, \* the access modes open is asked for
          Device,    \* a device without a counter: the terminal, /dev/null
          None       \* an empty slot, and the object of an unused OpenFile

ASSUME DescriptorsAssumption ==
    /\ IsFiniteSet(Pids)
    /\ NR_OPEN \in Nat /\ NR_OPEN >= 3
    /\ IsFiniteSet(Files) /\ None \notin Files
    /\ OpenModes \subseteq {"r", "w", "rw", "none"}
    /\ Pipes \cap VNodes = {}
    /\ Device \notin Pipes \cup VNodes
    /\ None \notin Pipes \cup VNodes \cup {Device}

FD      == 0 .. NR_OPEN - 1
Objects == Pipes \cup VNodes \cup {Device}
Access  == {"r", "w", "rw", "none"}   \* "none": flags with both access bits set

VARIABLES fds,            \* fds[p][d]: the OpenFile behind descriptor d of p, or None
          close_on_exec,  \* the descriptors whose close-on-exec bit is set
          file,           \* the OpenFile objects: object, access mode, refs
          readers,        \* Pipe.readers
          writers,        \* Pipe.writers
          open_refs,      \* VInode.open_refs
          half_made       \* the processes _spawn gave up after _setup_std_fds: they
                          \* stay in procs, are never queued, and end by a signal only

descVars == <<fds, close_on_exec, file, readers, writers, open_refs, half_made>>

-----------------------------------------------------------------------------
(* OpenFile objects.  One that no descriptor names is garbage: its record   *)
(* goes back to FreeFile when its count reaches zero.                       *)

OpenFile == [obj : Objects \cup {None}, access : Access, refs : Nat]
FreeFile == [obj |-> None, access |-> "r", refs |-> 0]

Opened(o, a, n) == [obj |-> o, access |-> a, refs |-> n]

Readable(f) == file[f].access \in {"r", "rw"}
Writable(f) == file[f].access \in {"w", "rw"}

Reads(f, pp)  == f # None /\ file[f].obj = pp /\ Readable(f)
Writes(f, pp) == f # None /\ file[f].obj = pp /\ Writable(f)

OpenFds(p) == {d \in FD : fds[p][d] # None}

(* alloc_fd: the lowest free descriptor that is not below start. *)
IsAllocFd(p, start, d) ==
    /\ d \in FD \ OpenFds(p)
    /\ start <= d
    /\ \A e \in FD : start <= e /\ e < d => e \in OpenFds(p)

-----------------------------------------------------------------------------
(* _release_file for every descriptor in D of process p: the counters that *)
(* result.  A pipe end loses one per descriptor; a VInode loses one per    *)
(* OpenFile whose last reference goes.                                     *)

Monus(a, b) == IF a >= b THEN a - b ELSE 0

Naming(p, D, f) == {d \in D : fds[p][d] = f}

ReleaseFiles(p, D) ==
    [f \in Files |->
        LET k == Cardinality(Naming(p, D, f))
        IN  IF k = 0 THEN file[f]
            ELSE IF file[f].refs <= k THEN FreeFile
            ELSE [file[f] EXCEPT !.refs = @ - k]]

ReleaseReaders(p, D) ==
    [pp \in Pipes |-> Monus(readers[pp], Cardinality({d \in D : Reads(fds[p][d], pp)}))]

(* Mutant: a pipe end loses one per OpenFile, at its last close.            *)
ReleaseWriters_Last(p, D) ==
    [pp \in Pipes |-> Monus(writers[pp],
        Cardinality({f \in Files : Writes(f, pp) /\ ReleaseFiles(p, D)[f].obj = None}))]

ReleaseWriters(p, D) ==
    [pp \in Pipes |-> Monus(writers[pp], Cardinality({d \in D : Writes(fds[p][d], pp)}))]

(* Mutant: an inode loses one per descriptor that is closed.                *)
LastClosed_Any(p, D, v) == {f \in Files : file[f].obj = v /\ Naming(p, D, f) # {}}

LastClosed(p, D, v) ==
    {f \in Files : /\ file[f].obj = v
                   /\ Naming(p, D, f) # {}
                   /\ file[f].refs <= Cardinality(Naming(p, D, f))}

ReleaseOpenRefs(p, D) ==
    [v \in VNodes |-> Monus(open_refs[v], Cardinality(LastClosed(p, D, v)))]

Release(p, D) ==
    /\ file'      = ReleaseFiles(p, D)
    /\ readers'   = ReleaseReaders(p, D)
    /\ writers'   = ReleaseWriters(p, D)
    /\ open_refs' = ReleaseOpenRefs(p, D)

(* _acquire_fd: one more descriptor for f, added to the counters r, w, fl. *)
(* Mutant: a duplicate is not counted.                                      *)
AcquireFile_Forgets(fl, f) == fl

AcquireFile(fl, f)     == [fl EXCEPT ![f].refs = @ + 1]
AcquireReaders(cnt, f) == [pp \in Pipes |-> IF Reads(f, pp) THEN cnt[pp] + 1 ELSE cnt[pp]]
AcquireWriters(cnt, f) == [pp \in Pipes |-> IF Writes(f, pp) THEN cnt[pp] + 1 ELSE cnt[pp]]

-----------------------------------------------------------------------------
(* The operations.  An error return changes nothing and is a stuttering     *)
(* step, except where an action says otherwise.                             *)

(* The table _setup_std_fds builds: fin is behind fd 0, fout behind 1 and 2. *)
StdFds(fin, fout) ==
    [d \in FD |-> IF d = 0 THEN fin ELSE IF d \in {1, 2} THEN fout ELSE None]

(* _setup_std_fds, and the fd 0 that _spawn replaces by the script: fin is  *)
(* opened on the terminal, or on the script.                                *)
SetupStdFds(p, fin, fout, o) ==
    /\ OpenFds(p) = {}
    /\ fin # fout /\ file[fin] = FreeFile /\ file[fout] = FreeFile
    /\ o \in VNodes \cup {Device}
    /\ fds' = [fds EXCEPT ![p] = StdFds(fin, fout)]
    /\ close_on_exec' = [close_on_exec EXCEPT ![p] = {}]
    /\ file' = [file EXCEPT ![fin]  = Opened(o, "r", 1),
                            ![fout] = Opened(Device, "w", 2)]
    /\ open_refs' = [v \in VNodes |-> IF v = o THEN open_refs[v] + 1 ELSE open_refs[v]]
    /\ UNCHANGED <<readers, writers, half_made>>

(* _spawn when the script is not there: the terminal behind fd 0 has been   *)
(* released, the walk of /etc/rc raises, and nobody takes the child back.   *)
(* Its fd 0 goes on naming an OpenFile whose count is 0.                    *)
SpawnFails(p, fin, fout) ==
    /\ OpenFds(p) = {}
    /\ fin # fout /\ file[fin] = FreeFile /\ file[fout] = FreeFile
    /\ fds' = [fds EXCEPT ![p] = StdFds(fin, fout)]
    /\ close_on_exec' = [close_on_exec EXCEPT ![p] = {}]
    /\ file' = [file EXCEPT ![fin]  = Opened(Device, "r", 0),
                            ![fout] = Opened(Device, "w", 2)]
    /\ half_made' = half_made \cup {p}
    /\ UNCHANGED <<readers, writers, open_refs>>

(* sys_open, once the path is resolved: a fresh OpenFile in the lowest free *)
(* descriptor.  The close-on-exec bit of the descriptor is left as it is.   *)
Open(p, f, o, a) ==
    /\ o \in VNodes \cup {Device}
    /\ file[f] = FreeFile
    /\ \E d \in FD : /\ IsAllocFd(p, 0, d)
                     /\ fds' = [fds EXCEPT ![p][d] = f]
    /\ file' = [file EXCEPT ![f] = Opened(o, a, 1)]
    /\ open_refs' = [v \in VNodes |-> IF v = o THEN open_refs[v] + 1 ELSE open_refs[v]]
    /\ UNCHANGED <<close_on_exec, readers, writers, half_made>>

(* sys_pipe: both descriptors or none.  That both stay allocated when the   *)
(* result cannot be stored (EFAULT) is this same step.                      *)
CreatePipe(p, pp, rf, wf) ==
    /\ rf # wf /\ file[rf] = FreeFile /\ file[wf] = FreeFile
    /\ \A f \in Files : file[f].obj # pp
    /\ \E r, w \in FD :
          /\ IsAllocFd(p, 0, r)
          /\ IsAllocFd(p, r + 1, w)
          /\ fds' = [fds EXCEPT ![p][r] = rf, ![p][w] = wf]
    /\ file' = [file EXCEPT ![rf] = Opened(pp, "r", 1), ![wf] = Opened(pp, "w", 1)]
    /\ readers' = [readers EXCEPT ![pp] = 1]
    /\ writers' = [writers EXCEPT ![pp] = 1]
    /\ UNCHANGED <<close_on_exec, open_refs, half_made>>

(* sys_close *)
Close(p, d) ==
    /\ d \in OpenFds(p)
    /\ fds' = [fds EXCEPT ![p][d] = None]
    /\ Release(p, {d})
    /\ UNCHANGED <<close_on_exec, half_made>>

(* sys_dup (start = 0) and fcntl F_DUPFD: the close-on-exec bit of the new  *)
(* descriptor is left as it is.                                             *)
DupFrom(p, d, start) ==
    /\ d \in OpenFds(p)
    /\ LET f == fds[p][d]
       IN  /\ \E e \in FD : /\ IsAllocFd(p, start, e)
                            /\ fds' = [fds EXCEPT ![p][e] = f]
           /\ file'    = AcquireFile(file, f)
           /\ readers' = AcquireReaders(readers, f)
           /\ writers' = AcquireWriters(writers, f)
    /\ UNCHANGED <<close_on_exec, open_refs, half_made>>

(* sys_dup2: an open newfd is closed first, then renamed. *)
Dup2(p, d, e) ==
    /\ d \in OpenFds(p) /\ e \in FD /\ d # e
    /\ LET f == fds[p][d]
           D == {e} \cap OpenFds(p)
       IN  /\ fds'       = [fds EXCEPT ![p][e] = f]
           /\ file'      = AcquireFile(ReleaseFiles(p, D), f)
           /\ readers'   = AcquireReaders(ReleaseReaders(p, D), f)
           /\ writers'   = AcquireWriters(ReleaseWriters(p, D), f)
           /\ open_refs' = ReleaseOpenRefs(p, D)
    /\ close_on_exec' = [close_on_exec EXCEPT ![p] = @ \ {e}]
    /\ UNCHANGED half_made

(* fcntl F_SETFD *)
SetCloseOnExec(p, d, on) ==
    /\ d \in OpenFds(p)
    /\ close_on_exec' = [close_on_exec EXCEPT ![p] = IF on THEN @ \cup {d} ELSE @ \ {d}]
    /\ UNCHANGED <<fds, file, readers, writers, open_refs, half_made>>

(* Mutant: fork counts the OpenFiles and the reading ends, not the writing. *)
ForkFds_NoWriters(p, c) ==
    /\ OpenFds(c) = {} /\ c # p
    /\ fds' = [fds EXCEPT ![c] = fds[p]]
    /\ close_on_exec' = [close_on_exec EXCEPT ![c] = close_on_exec[p]]
    /\ file' = [f \in Files |->
                   [file[f] EXCEPT !.refs = @ + Cardinality(Naming(p, FD, f))]]
    /\ readers' = [pp \in Pipes |->
                      readers[pp] + Cardinality({d \in FD : Reads(fds[p][d], pp)})]
    /\ UNCHANGED <<writers, open_refs, half_made>>

(* sys_fork: the child's table names the same OpenFiles. *)
ForkFds(p, c) ==
    /\ OpenFds(c) = {} /\ c # p
    /\ fds' = [fds EXCEPT ![c] = fds[p]]
    /\ close_on_exec' = [close_on_exec EXCEPT ![c] = close_on_exec[p]]
    /\ file' = [f \in Files |->
                   [file[f] EXCEPT !.refs = @ + Cardinality(Naming(p, FD, f))]]
    /\ readers' = [pp \in Pipes |->
                      readers[pp] + Cardinality({d \in FD : Reads(fds[p][d], pp)})]
    /\ writers' = [pp \in Pipes |->
                      writers[pp] + Cardinality({d \in FD : Writes(fds[p][d], pp)})]
    /\ UNCHANGED <<open_refs, half_made>>

(* sys_execve: the marked descriptors are closed and every mark is erased. *)
ExecFds(p) ==
    LET D == close_on_exec[p] \cap OpenFds(p)
    IN  /\ fds' = [fds EXCEPT ![p] = [d \in FD |-> IF d \in D THEN None ELSE fds[p][d]]]
        /\ Release(p, D)
        /\ close_on_exec' = [close_on_exec EXCEPT ![p] = {}]
        /\ UNCHANGED half_made

(* Mutant: the table is emptied instead of being filled with None.          *)
ExitFds_Clears(p) ==
    /\ fds' = [fds EXCEPT ![p] = <<>>]
    /\ Release(p, OpenFds(p))
    /\ half_made' = half_made \ {p}
    /\ UNCHANGED close_on_exec

(* _exit_process: every descriptor is released.  The count behind fd 0 of a *)
(* half-made child goes from 0 to -1; nobody names that OpenFile any more.  *)
ExitFds(p) ==
    /\ fds' = [fds EXCEPT ![p] = [d \in FD |-> None]]
    /\ Release(p, OpenFds(p))
    /\ half_made' = half_made \ {p}
    /\ UNCHANGED close_on_exec

-----------------------------------------------------------------------------
Init ==
    /\ fds           = [p \in Pids |-> [d \in FD |-> None]]
    /\ close_on_exec = [p \in Pids |-> {}]
    /\ file          = [f \in Files |-> FreeFile]
    /\ readers       = [pp \in Pipes |-> 0]
    /\ writers       = [pp \in Pipes |-> 0]
    /\ open_refs     = [v \in VNodes |-> 0]
    /\ half_made     = {}

(* What a process that runs may do to the tables, or what is done for it.   *)
RunningOperation(p) ==
    \/ \E fin, fout \in Files, o \in Objects : SetupStdFds(p, fin, fout, o)
    \/ \E fin, fout \in Files : SpawnFails(p, fin, fout)
    \/ \E f \in Files, o \in Objects, a \in OpenModes : Open(p, f, o, a)
    \/ \E pp \in Pipes, rf, wf \in Files : CreatePipe(p, pp, rf, wf)
    \/ \E d \in FD : Close(p, d)
    \/ \E d, start \in FD : DupFrom(p, d, start)
    \/ \E d, e \in FD : Dup2(p, d, e)
    \/ \E d \in FD, on \in BOOLEAN : SetCloseOnExec(p, d, on)
    \/ \E c \in Pids : ForkFds(p, c)
    \/ ExecFds(p)

(* A half-made child does not run; all that can happen to it is its end.    *)
Operation(p) ==
    \/ p \notin half_made /\ RunningOperation(p)
    \/ ExitFds(p)

Next == \E p \in Pids : Operation(p)

Spec == Init /\ [][Next]_descVars

-----------------------------------------------------------------------------
(* Every variable keeps its type: in particular no counter goes negative    *)
(* (the code clamps the pipe and inode counters, but not OpenFile.refs).    *)
(* An OpenFile that nobody names any more has no count here: see ExitFds.   *)
TypeOK ==
    /\ fds \in [Pids -> [FD -> Files \cup {None}]]
    /\ close_on_exec \in [Pids -> SUBSET FD]
    /\ file \in [Files -> OpenFile]
    /\ readers \in [Pipes -> Nat]
    /\ writers \in [Pipes -> Nat]
    /\ open_refs \in [VNodes -> Nat]
    /\ half_made \subseteq Pids

Slots == Pids \X FD

Names(f)       == {s \in Slots : fds[s[1]][s[2]] = f}
ReadSlots(pp)  == {s \in Slots : Reads(fds[s[1]][s[2]], pp)}
WriteSlots(pp) == {s \in Slots : Writes(fds[s[1]][s[2]], pp)}

(* The descriptors that were released and not emptied: fd 0 of a child that *)
(* _spawn gave up.                                                          *)
Released == {<<p, 0>> : p \in half_made}

(* OpenFile.refs is the number of descriptors, over all processes, that     *)
(* name the OpenFile and have not been released: fork, dup, dup2, close,    *)
(* exec and exit keep it exact, whatever their order.  _release_file        *)
(* decides on it whether the inode loses its last opener.  The exception is *)
(* real: after a failing _spawn a descriptor names an OpenFile of count 0.  *)
RefsExact == \A f \in Files : file[f].refs = Cardinality(Names(f) \ Released)

(* Pipe.readers and Pipe.writers are the numbers of descriptors on that end *)
(* (the comment in _acquire_fd): a reader sees end of file exactly when no  *)
(* descriptor anywhere can still write, a writer sees EPIPE exactly when    *)
(* none can still read.                                                     *)
PipeEndsExact ==
    \A pp \in Pipes : /\ readers[pp] = Cardinality(ReadSlots(pp))
                      /\ writers[pp] = Cardinality(WriteSlots(pp))

(* VInode.open_refs is the number of distinct OpenFiles in use on the       *)
(* inode, so that a descriptor shared by fork or dup counts once.           *)
OpenRefsExact ==
    \A v \in VNodes :
        open_refs[v] = Cardinality({f \in Files : file[f].obj = v /\ Names(f) # {}})

(* End of file is final: a pipe that still has a reader and has lost its    *)
(* last writing descriptor never gets a writer again, so a reader that saw  *)
(* end of file is never contradicted; the same for EPIPE.                   *)
EndOfFileIsFinal ==
    [][\A pp \in Pipes :
          /\ writers[pp] = 0 /\ readers[pp] > 0 => writers'[pp] = 0
          /\ readers[pp] = 0 /\ writers[pp] > 0 => readers'[pp] = 0]_descVars
=============================================================================
