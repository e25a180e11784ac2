-------------------------------- MODULE Streams --------------------------------
(***************************************************************************)
(* Pipes in use: the buffer of a Pipe (kvfs.py), the reads and writes of   *)
(* processes through their descriptors (sys_read, sys_write), and the      *)
(* blocking in between.  A call that cannot proceed puts its process to    *)
(* sleep on the pipe; _wake_waiters wakes it when its condition holds, and *)
(* the call is made again from the beginning; a signal ends it with EINTR. *)
(*                                                                         *)
(* Composes with Descriptors: any process that is not in a call may        *)
(* perform any operation of that module.  Bytes are numbered, modulo       *)
(* Capacity + 1, in the order in which programs believe to have sent them. *)
(* The access mode of the OpenFile is not looked at, as in the code.       *)
(***************************************************************************)
EXTENDS Descriptors, Sequences

CONSTANTS Capacity,  \* what a pipe holds: 4095 in the code
          MaxCount   \* the largest count programs pass to read and write

ASSUME StreamsAssumption ==
    /\ Capacity \in Nat \ {0} /\ MaxCount \in Nat \ {0}
    /\ Pids \cap {None} = {}

VARIABLES buf,      \* Pipe.buf
          call,     \* the read or write a process sleeps in, or is to redo
          asleep,   \* the processes in state SLEEPING
          written,  \* history: the number of the byte programs will send next
          taken,    \* history: the number of the byte readers will get next
          refused   \* history: the pipes on which a writer got EPIPE

streamVars == <<descVars, buf, call, asleep, written, taken, refused>>

Byte   == 0 .. Capacity
Plus(a, n) == (a + n) % (Capacity + 1)
Call   == [op : {"read", "write"}, fd : FD, count : 1 .. MaxCount]
NoCall == [op |-> "none", fd |-> 0, count |-> 0]

Idle(p)   == call[p] = NoCall
Made(p, c) == ~(p \in asleep) /\ call[p] \in {NoCall, c}   \* a new call, or c redone
Min2(a, b) == IF a < b THEN a ELSE b

Returns(p) == call' = [call EXCEPT ![p] = NoCall] /\ UNCHANGED asleep
Blocks(p, c) ==
    /\ call' = [call EXCEPT ![p] = c]
    /\ asleep' = asleep \cup {p}
    /\ UNCHANGED <<buf, written, taken, refused>>

-----------------------------------------------------------------------------
(* sys_read on a pipe.  That the bytes are gone when the caller's buffer    *)
(* turns out not to be writable (EFAULT) is this same step.                 *)
ReadGets(p, c, pp) ==
    LET n == Min2(c.count, Len(buf[pp]))
    IN  /\ n > 0
        /\ buf' = [buf EXCEPT ![pp] = SubSeq(@, n + 1, Len(@))]
        /\ taken' = [taken EXCEPT ![pp] = Plus(@, n)]
        /\ Returns(p)
        /\ UNCHANGED <<written, refused>>

ReadEnds(p, c, pp) ==
    /\ buf[pp] = <<>> /\ writers[pp] = 0
    /\ Returns(p)
    /\ UNCHANGED <<buf, written, taken, refused>>

ReadBlocks(p, c, pp) == buf[pp] = <<>> /\ writers[pp] > 0 /\ Blocks(p, c)

(* sys_write on a pipe: EPIPE is looked at before the room. *)
Room(pp) == Capacity - Len(buf[pp])

(* The bytes the program offers, and the number it learns were accepted.    *)
Offered(pp, n) == [i \in 1 .. n |-> Plus(written[pp], i - 1)]

(* Mutant: what does not fit is dropped, and the call says it was written.  *)
WritePuts_Drops(p, c, pp) ==
    LET n == Min2(c.count, Room(pp))
    IN  /\ readers[pp] > 0 /\ n > 0
        /\ buf' = [buf EXCEPT ![pp] = @ \o Offered(pp, n)]
        /\ written' = [written EXCEPT ![pp] = Plus(@, c.count)]
        /\ Returns(p)
        /\ UNCHANGED <<taken, refused>>

(* Mutant: the number of readers is not looked at.                          *)
WritePuts_Unread(p, c, pp) ==
    LET n == Min2(c.count, Room(pp))
    IN  /\ n > 0
        /\ buf' = [buf EXCEPT ![pp] = @ \o Offered(pp, n)]
        /\ written' = [written EXCEPT ![pp] = Plus(@, n)]
        /\ Returns(p)
        /\ UNCHANGED <<taken, refused>>

WritePuts(p, c, pp) ==
    LET n == Min2(c.count, Room(pp))
    IN  /\ readers[pp] > 0 /\ n > 0
        /\ buf' = [buf EXCEPT ![pp] = @ \o Offered(pp, n)]
        /\ written' = [written EXCEPT ![pp] = Plus(@, n)]
        /\ Returns(p)
        /\ UNCHANGED <<taken, refused>>

WriteFails(p, c, pp) ==
    /\ readers[pp] = 0
    /\ refused' = refused \cup {pp}
    /\ Returns(p)
    /\ UNCHANGED <<buf, written, taken>>

WriteBlocks(p, c, pp) == readers[pp] > 0 /\ Room(pp) = 0 /\ Blocks(p, c)

DoCall(p, c) ==
    /\ Made(p, c)
    /\ c.fd \in OpenFds(p)
    /\ \E pp \in Pipes :
          /\ file[fds[p][c.fd]].obj = pp
          /\ \/ c.op = "read"  /\ (ReadGets(p, c, pp) \/ ReadEnds(p, c, pp) \/ ReadBlocks(p, c, pp))
             \/ c.op = "write" /\ (WritePuts(p, c, pp) \/ WriteFails(p, c, pp) \/ WriteBlocks(p, c, pp))
    /\ UNCHANGED descVars

-----------------------------------------------------------------------------
(* The pipe a process sleeps on. *)
Awaited(p) == file[fds[p][call[p].fd]].obj

(* Mutant: a reader is woken by data only.                                  *)
Wakeable_DataOnly(p) ==
    IF call[p].op = "read" THEN buf[Awaited(p)] # <<>>
    ELSE Room(Awaited(p)) > 0 \/ readers[Awaited(p)] = 0

(* Mutant: a writer is woken when the pipe has been emptied.                *)
Wakeable_Empty(p) ==
    IF call[p].op = "read" THEN buf[Awaited(p)] # <<>> \/ writers[Awaited(p)] = 0
    ELSE buf[Awaited(p)] = <<>>

(* The conditions of _wake_waiters. *)
Wakeable(p) ==
    IF call[p].op = "read" THEN buf[Awaited(p)] # <<>> \/ writers[Awaited(p)] = 0
    ELSE Room(Awaited(p)) > 0 \/ readers[Awaited(p)] = 0

Wake(p) ==
    /\ p \in asleep /\ Wakeable(p)
    /\ asleep' = asleep \ {p}
    /\ UNCHANGED <<descVars, buf, call, written, taken, refused>>

(* A signal: the call ends with EINTR. *)
Interrupt(p) ==
    /\ p \in asleep
    /\ asleep' = asleep \ {p}
    /\ call' = [call EXCEPT ![p] = NoCall]
    /\ UNCHANGED <<descVars, buf, written, taken, refused>>

(* A descriptor operation.  A pipe that no OpenFile refers to any more is   *)
(* garbage, and so is its buffer.                                           *)
DescriptorStep(p) ==
    LET live == {pp \in Pipes : \E f \in Files : file'[f].obj = pp}
    IN  /\ Idle(p)
        /\ Operation(p)
        /\ buf'     = [pp \in Pipes |-> IF pp \in live THEN buf[pp] ELSE <<>>]
        /\ written' = [pp \in Pipes |-> IF pp \in live THEN written[pp] ELSE 0]
        /\ taken'   = [pp \in Pipes |-> IF pp \in live THEN taken[pp] ELSE 0]
        /\ refused' = refused \cap live
        /\ UNCHANGED <<call, asleep>>

StreamInit ==
    /\ Init
    /\ buf     = [pp \in Pipes |-> <<>>]
    /\ call    = [p \in Pids |-> NoCall]
    /\ asleep  = {}
    /\ written = [pp \in Pipes |-> 0]
    /\ taken   = [pp \in Pipes |-> 0]
    /\ refused = {}

StreamNext ==
    \E p \in Pids : \/ \E c \in Call : DoCall(p, c)
                    \/ Wake(p)
                    \/ Interrupt(p)
                    \/ DescriptorStep(p)

(* The loop looks at every sleeper in every round, and a process put back   *)
(* on its int 0x80 makes the call with the first instruction of its slice.  *)
Redo(p) == ~Idle(p) /\ DoCall(p, call[p])

StreamSpec ==
    /\ StreamInit /\ [][StreamNext]_streamVars
    /\ \A p \in Pids : WF_streamVars(Wake(p)) /\ WF_streamVars(Redo(p))

-----------------------------------------------------------------------------

(* Nothing is lost, doubled or reordered on the way: the buffer holds       *)
(* exactly the bytes between what the readers have got and what the writers *)
(* were told is written.                                                    *)
BytesInOrder ==
    \A pp \in Pipes :
        /\ Plus(taken[pp], Len(buf[pp])) = written[pp]
        /\ \A i \in DOMAIN buf[pp] : buf[pp][i] = Plus(taken[pp], i - 1)

(* Pipe, _acquire_fd and _release_file together keep the contract of a pipe *)
(* for the processes that share it, through fork, dup2 and exit.            *)
Contract == INSTANCE PipeContract WITH queue <- buf
KeepsContract == Contract!Spec

(* The end is always seen: a reader asleep on a pipe whose last writer is   *)
(* gone, and a writer asleep on one whose last reader is gone, come back    *)
(* from their call.                                                         *)
EndIsSeen ==
    \A p \in Pids, pp \in Pipes :
        (/\ p \in asleep /\ Awaited(p) = pp
         /\ \/ call[p].op = "read"  /\ writers[pp] = 0
            \/ call[p].op = "write" /\ readers[pp] = 0) ~> Idle(p)

(* Nobody sleeps for ever over what he waits for: a reader does not sleep   *)
(* on while data stays in the pipe, nor a writer while there stays room.    *)
NobodySleepsOver ==
    \A p \in Pids :
        ~<>[](p \in asleep /\ IF call[p].op = "read" THEN buf[Awaited(p)] # <<>>
                                                     ELSE Room(Awaited(p)) > 0)
=============================================================================
