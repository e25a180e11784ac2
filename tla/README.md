# A verification development for minixfs

The program runs Linux 0.11 binaries from a Minix disk image: an i386
interpreter (`cpu86.py`), a kernel in Python that plays the part of Linux 0.11
(`kernel.py` and its helpers), a copy-on-write file system over the image
(`kvfs.py`, `minixfs.py`), a terminal (`ktty.py`), a debugger and monitor
(`kmonitor.py`), and a browser for the image (`minix_shell.py`). These modules
model the parts in which the order of steps, shared counters or stale copies can
go wrong: processes, signals and scheduling; descriptors and pipes; the overlay
and the image under it; the terminal; memory, its instruction cache and the
arithmetic of the CPU.

## The system

Everything runs in one Python thread, but for the one that reads a pipe on
Windows (modelled in `Terminal`). "Concurrency" is that of the simulated
processes: `Kernel.run` gives one process at a time a slice of up to 100 000
instructions, and between two slices does its own work. A system call is atomic,
since nothing runs in between; what interleaves is calls of different processes
and the kernel's steps between slices.

| Part | State it keeps | Operations | What makes it correct |
|---|---|---|---|
| descriptor tables (`kernel.py`) | `Process.fds`, `close_on_exec`, shared `OpenFile` objects with `refs`, `Pipe.readers/writers`, `VInode.open_refs` | open, close, dup, dup2, fcntl, pipe, and the fork, exec and exit of whole tables | the counters are exact (but for fd 0 of a child `_spawn` gave up), end of file and EPIPE are final |
| process table (`kernel.py`) | `procs`, `runq`, `state`, `ppid`, `pgrp`, `wait_channel` | fork, execve, exit, waitpid, setsid, setpgid, blocking and waking | the queue holds exactly who can run; each process has a parent that can reap it; the dead stay dead |
| signals (`kernel.py`) | `signal`, `blocked`, `sigactions`, `alarm_at`, `sigframes`, frames on the user stack | kill, sigaction, signal, masks, alarm, pause, delivery, return from a handler | an interrupted call is either redone or fails with EINTR; a handler returns to where the signal came; SIGKILL kills, unless lower signals come in every slice or it is blocked |
| scheduling loop (`Kernel.run`) | `current`, the idle count, the clock | passes over the table, `_pick`, slices, giving up | nobody who can run, be woken or be killed is forgotten; it stops only for a reason |
| built-in init (`_init_step`) | `_init_state`, `_init_child` | start rc, start shells, reap them | reaps its shell and starts the next; survives failures |
| pipes (`kvfs.py`) | buffer, counters | read, write, block | FIFO, nobody sleeps for ever while the other side waits |
| overlay (`kvfs.py`) | inodes, directory and file changes over the image | create, link, unlink, rename, mkdir, rmdir, truncate, export, import | the tree stays a tree, link counts are exact, export and import are inverse |
| terminal (`ktty.py`) | `cooked`, `ready`, termios | feed, read, write, ioctl | lines arrive whole and in order, control keys do their work |
| loader (`kexec.py`), address space (`x86mem.py`) | segments, brk, stack, instruction cache | load, grow, clone, write | no cached instruction outlives a write to its bytes |
| CPU (`cpu86.py`) | registers, flags, caches | one instruction | results and flags as the i386 defines them |
| image reader (`minixfs.py`) | none | zones, files, directories, checks | the checker reports exactly the unsound images |
| monitor, debugger (`kmonitor.py`) | breakpoints, step counts | stop, step, continue | a step stops after as many instructions as asked, nobody runs past a breakpoint |
| browser, pager, disassembler, start-up | cursor and options | printing | not modelled |

The parts meet in `Kernel`: a system call reaches the descriptor tables, the
overlay and the terminal; `fork`, `execve` and `exit` act on the process table
and the descriptor tables at once; `exit` posts a signal to the parent and may
wake it; a sleeping process is woken either by a signal (its call fails with
EINTR) or by the loop, which looks at its condition and lets it redo the call.

What is hard here: the order of exits, adoptions and waits; the same sleep ended
by two different causes; a call that is redone, after a handler, or stepped
over; nested handlers; counters shared by several processes; passes over the
table that change what the next pass sees; failures half-way. `PROJECT.json`
lists each of these as a hazard at the line where it bites.

## Modules

| Module | Models | Lines of the code |
|---|---|---|
| `Descriptors` | descriptor tables and their counters | `OpenFile`, `alloc_fd`, `sys_open` ... `sys_pipe`, `_acquire_fd`, `_release_file`, and the part of fork, execve and exit that concerns descriptors |
| `Streams` | extends `Descriptors` with the buffers of pipes, blocking reads and writes | `Pipe`, `sys_read`, `sys_write`, `_wake_waiters` |
| `PipeContract` | what a pipe promises (abstract) | |
| `Processes` | process table, run queue, signals | `Process`, fork ... `sys_sigaction`, `post_signal`, `_wake`, `_deliver_pending` to `_build_signal_frame`, `_sigreturn` |
| `Scheduler` | extends `Processes` with the loop and init | `run`, `_pick`, `_wake_waiters`, `_check_alarms`, `_init_step`, `_spawn`, `_console_alive` |
| `Image` | the disk image and its reader | `minixfs.py`: `read_block`, `zone_at`, `read_file`, `read_dir` |
| `Fsck` | the checker, one step per directory | `check_fs` |
| `Overlay` | the writable layer and the calls on paths | `OverlayFS`, `VInode`, and the calls of `kernel.py` that use them |
| `FileTree` | a file system written in place (abstract) | |
| `FileSystem` | composes `Fsck` and `Overlay`: an image is checked, a clean one is mounted | `OverlayFS.get`, `read_dir` |
| `Terminal` | keys and pipes, line discipline, escape key, sleeping readers | `HostTerminal`, `TTY`, `sys_read`, the pump in `run` |
| `Debugger` | extends `Terminal` with breakpoints, `until` and steps | `_run_debug_slice`, `_debug_break`, the handlers of exceptions in `run`, `Monitor.interact`, `cmd_step`, `cmd_until`, `cmd_break` |
| `AddressSpace` | memory, instruction cache, repeated string instructions, loader, as operators | `x86mem.py`, `kexec.py`, parts of `cpu86.py` |
| `Alu` | results and flags of the handlers | `cpu86.py`: `_alu_body`, `_shift_body`, `_mul_*`, `_div_*`, `_bt_impl`, ... |
| `Processor` | what an i386 promises of these (reference) | |
| `Memory` | the memories of processes: extends `AddressSpace` with the calls that change one and the turn of the CPU as far as memory goes | `CPU.run`, execve, fork, brk, exit, stores and block moves |
| `Cpu` | extends `Memory` and `Processor` with the registers | `CPU.run`, the handlers that compute |
| `*_proofs` | theorems about `Descriptors`, `Streams`, `Processes` and `Scheduler`, `Terminal` and `Debugger`, `Fsck` and `Image`, `Overlay` (in `FileSystem`), `Memory` | |
| `Counting` | induction and recursion over numbers, for the proofs about `Fsck`, `Terminal` and `Memory` | |
| `MC_*` | instances for TLC | |

The families meet where the code does: `Streams` reads the counters that
`Descriptors` keeps; `Scheduler` takes every step of `Processes` in the order of
the loop; `FileSystem` puts the overlay over what the reader finds. `Scheduler`
knows of the terminal only whether a read would return, `Terminal` of the loop
only its round, and `Overlay` of the descriptors only how many there are of an
inode (`open_refs`, exact by a theorem about `Descriptors`).

### Descriptors

`fds[p][d]` is the OpenFile behind descriptor `d` of `p`; OpenFiles are members
of a finite set and return to `FreeFile` when their count is zero, as garbage
does in the code. One action per system call. Path look-up, positions and data
are left out. An error return changes nothing and is a stutter; the exception is
`pipe` with a bad result address, which is the same step as a successful one.
`Release` is `_release_file` for a set of descriptors at once (exec and exit
release many in one loop that nothing can interrupt).

`SetupStdFds` is a spawn that succeeds; `SpawnFails` is the one without an
`/etc/rc`, where `_spawn` releases the terminal behind fd 0 before the walk raises.
The child (`half_made`) stays in the table, never runs, and its fd 0 names an
OpenFile with `refs` 0 until a signal ends it: then the count goes to -1, of an
object that nobody names any more and that the model returns to `FreeFile`.
`RefsExact` says what is true there: `refs` counts the descriptors that name the
OpenFile and have not been released.

### Streams and PipeContract

`call[p]` is the read or write in which `p` sleeps or which it is about to make
again; `asleep` are those the loop has not woken. A call is one step and either
returns or puts its process to sleep, in the order in which the code looks (EPIPE
before room, data before end of file). A bad buffer (EFAULT) is the same step as
a successful read: the bytes are gone. Between two steps any process that is not
in a call may do any operation of `Descriptors`: fork, dup2, close, exit. Bytes are
numbered modulo the capacity plus one, which tells apart all that can be in a
buffer at once.

`PipeContract` is a queue per pipe that accepts and gives up bytes, and after a
writer was refused with EPIPE accepts nothing more; `KeepsContract` states that
`Streams` implements it with `queue <- buf`.

### Processes

`state`, `ppid`, `pgrp`, `wait_channel`, `runq` are the code's. `task[p]` is the
rest of a Process. Of the machine only two things are kept, those a signal or a
wake-up can spoil: where eip stands (in user code; on an `int 0x80` that is to
be redone; `wild`, if registers were popped from a frame by the wrong layout)
and what eax holds there (a call, -EINTR, something else). Signal frames are a
stack of records; `sigframes` is the kernel's separate record of their layout.
Terminal reads stand for every call whose wake-up comes from outside the table.

Every call of every RUNNING process may be its next step, so the model has more
interleavings than the code, in which the loop chooses. `Next` is what the rest
of the kernel may do to the table; `Scheduler` says when.

### Scheduler

One step of `SchedNext` is one process's turn in a pass (alarms, wake-ups,
deliveries; `cursor` is how far the pass has come), one step of init, one turn
of `_pick`, or one call of the process whose slice it is. `ImplementsProcesses`
(= `Spec` of `Processes`, checked as a property of the run `init`) states that
the loop does to the table only what `Processes` allows: every invariant of
`Processes` holds under the loop as well.

### Image and Fsck

An image is a record: inodes with their zone numbers, blocks, two bitmaps. A
block consists of units, and a unit is a directory entry, a zone number or a
datum, whatever the reader takes it for: this is what lets a damaged image make
a block of data pass for an indirect block. `check` is the local state of
`check_fs`; one step takes one directory from its stack. `Sound` says what a
sound image is in terms of `zone_at`, not of the sets the checker collects, and
`CleanIffSound` that the checker reports nothing exactly then.

### Overlay, FileTree, FileSystem

`vnode[i]` is the code's `VInode`: `data` and `entries` are `None` until the first
write copies them. One action per call, with all it does: `rename` removes what
stood under the new name, enters, removes the old name, then turns `..`; `open`
creates or truncates before it finds that no descriptor is left; `rmdir` copies a
directory even when it refuses. Paths are walked (`Walk`) from the root and the
working directory of one process through up to `Depth` directories, so removed
working directories, chroot and directories moved below themselves all occur.
`mknod` makes files, devices and directories, the last without `.` and `..` (`Bare`);
nothing can be looked up in those, so no path leads through one (`Parents`), but
`chdir` and `chroot` take them (`Places`).
`mode` stands for mode, owner and times, which the code treats alike.

`FileTree` has only contents and entries, written in place. Under the mapping that
reads the image where nothing was copied, every step of `Overlay` is a step of it
or none (`ImplementsFileTree`). `Reloaded` is what export and import leave.

### Terminal

`typed` holds every byte that came; a byte is named by its place. The host side is
a console, a pipe read with select, or a pipe read by a thread that puts bytes
into `_thread_buf`, and sets the end, between any two steps. `TTY.pump` is two
steps (`Poll`, then the feed, or the look at `at_eof`) because that thread may come
between them; nothing else can. A turn of the loop pumps and wakes; in a slice
processes read, set termios and are interrupted. `log` records what came to the
line discipline and under which termios; from it `Meant` and `Kept` tell, from the
whole history at once, which bytes programs should get.

### Debugger

In the set-ups in `Debugged` a person at the monitor debugs two processes, and a
slice is played instruction by instruction: `Pick` gives it to a process that can
run and fixes the budget (`"fast"` for `cpu.run(TIMESLICE)`, `"many"` or `"one"` for
`_run_debug_slice`), `Compute`, `Reads` and `Exits` are its instructions,
`DebugSliceEnds` gives it back. An address is that of the `int 0x80` of a read or
one from which an instruction may go anywhere; `Executed` is what the code looks at
after an instruction, `Leaves` what it does when an exception came instead. The
reads are those of `Terminal`, so the escape key can ask for the monitor in the
middle of a step command. `Interact` is one visit to the monitor. In all other
set-ups slices are as in `Terminal`. Two histories, `owed` (steps still to make) and
`unseen` (who stands on a breakpoint nobody has been told of), say what the person
was promised.

### AddressSpace, Memory, Alu, Processor, Cpu

A memory is two byte arrays, `low` from 0 and `stack` up to `TASK_SIZE`, with the
instruction cache beside them. An instruction is as much as the decoder sees of
it: prefixes, an opcode, operand bytes. `Memory` lets processes load programs and
scripts, fork, brk, execute at any address of the text, store anywhere and move
blocks, and compares with `flat`, a memory of single bytes written one after
another. `Cpu` adds what is computed without memory; a step of it is a step of
`Memory`, with the direction flag the flags hold, or leaves memory alone. The registers `lo` and `hi` and the flags go through every operation of
`Alu` with every operand; `Processor` says what the result must be without the
code's formulas (integer sums and quotients, shifts and parity one bit at a time).
Flags are compared where the processor defines them: all six of sums and differences;
CF, OF, PF, ZF and SF of logic; PF, ZF, SF and CF of shifts; CF and OF of products; CF of
bit tests and ZF of scans; and every condition of `_cond` after a comparison.

## Runs

Constants are named in the cfg files; the bounds that are definitions are in the
MC modules.

| Run | Shows | Instance and why it is enough |
|---|---|---|
| `descriptors` | counters exact, end of file final, failing spawns included | 2 processes, 3 descriptors, 3 OpenFiles, 1 pipe, 1 inode: sharing within and across processes, dup2 onto a used slot, full tables, exec with marks; `MarksBound`: at most one descriptor number is marked close-on-exec at a time. The theorems hold for all sizes |
| `streams` | bytes in order, the contract, nobody sleeps over data, room or the end | 2 processes, a pipe of 2 bytes, counts to 2: partial writes, full and empty pipes, an end held twice. `FewDescriptors`: two descriptors each, none on the terminal. Bytes are numbered per pipe: that two writers mix their pieces cannot be seen |
| `filesystem` | the checker is right and ends; link counts, `..`, reload, reads, refinement | all images within two faults (`TwoFaults`) of one with a subdirectory, a file of two names with both levels of indirection, one direct zone and two units to a block. Two names, one new inode (`NewInodes`), paths over one directory (`Depth`). `Small`: one descriptor to an inode, and only the file of the image is written, once. `MCSpec` leaves out steps to a state with a directory made by mknod (`NoBareDirectories`), the hypothesis of the theorems. Sizes are in whole units, so that the checker's test of a directory's size against the size of an entry never fails here |
| `processes` | parents can reap, nobody else does, the dead stay dead | 3 processes (a parent, a child, a grandchild), waits for any child, one's group and group 2, signals to groups and to all, groups and sessions of their own making, masks |
| `signals` | queue, redone and interrupted calls, handler returns | one user process under init with SIGALRM and SIGCHLD, execve, terminal reads and pause, handlers with a mask and those of `signal` (NOMASK, ONESHOT). `FramesBound`: two frames; `OneLibrary`: the handlers of a program all return the same way, and those that return through the kernel do not fork |
| `boot` | reasons to stop, round robin, SIGKILL, alarms, parents are woken | 4 processes: the least in which a zombie is handed to a sleeper by an exit that wakes somebody else. `ManyOnlyWait`: two processes do whatever they can; from the third on all only fork, wait and exit. `TwoIsIgnored`: process 2 may ignore signal 2 and then send it to itself in every slice, with SIGKILL pending behind it; no alarm or stop meanwhile. `IdleMax` is 2 instead of 20000 |
| `init` | init, refinement | 4 process numbers: rc, a shell, a child of it and the next shell, with failing spawns and both answers of `_console_alive` |
| `terminal` | what is typed is read, the end is last and seen by all, the escape key, stops of the debugger | up to 3 bytes (`MaxTyped`), in five set-ups: editing keys on a console; the escape key with two modes; a pipe and a reading thread with two readers. `LogBound` bounds flushes; `BetweenLines`: programs leave canonical mode between two lines (see below). The fifth is a debugger over two processes: two addresses with a breakpoint or `until` at one, steps of up to 2 (`MaxSteps`), with and without a pinned process; `DebugKeys`: a line or the escape key is typed once, so a step command can be interrupted |
| `cpu` | cache, flat memory, arguments, arithmetic | 2 processes, 40 bytes of memory with words of 2, a text of 3 bytes with a prefix, a program and a script for it; one store or move of three elements (`MaxStores`) at each of three places, in text, data and stack, so that blocks overlap, just do not, or lie far apart; operands of 3 bits, all of them, after any sequence of operations. `CallsComeBeforeFork`, `OneCache`: while two processes run none calls brk or execve, and their caches do not differ in more than one being empty. `Resting`, `Unloaded`: registers and memory are explored one while the other rests, since neither reads the other |
| `mixed_restorers`, `ctrl_c`, `overlay_export` | disagreements with the documents, below | the least instance that shows each |

`MaxPid` bounds the processes ever created (numbers are never used again in the
code, which has no bound). In `Scheduler`, forks leave numbers for the shells
init has to start (`ForkBound`, and the guard on `alive` in `InitWaits`).
Two conditions, of the run `cpu` and of the theorems about memory, leave out what
the code gets wrong: `ShortInstructions` (an instruction with more prefixes than
`_flush_icache` reaches back over; the code decodes any number of them) and
`HeapBelowStack`.

Deadlock is checked where the system always has a step: in `descriptors` and
`streams` (a sleeper can be interrupted, an empty table set up), `boot` and `init` (the loop goes on until
it has returned). It is off in the runs of `Processes`, whose table alone has none
when nobody runs; in `filesystem`, where a rejected image ends it; in `terminal`,
where the emulator stops; and in `cpu`, where everybody may have exited.

### Fairness

* `SchedSpec`. `WF(KernelTurn)`: the loop waits for nothing but terminal input, and
  for that only up to 20 ms, so its next step always comes, the end of a slice among
  them (`TIMESLICE`). `WF(Redo)`: a process put back on its `int 0x80` makes that call
  with the first instruction of its slice. `SF(AlarmTurn(p))`: the clock advances in
  every round, idle or not, so an alarm that stays armed is due in some round.
* `StreamSpec`. `WF(Wake(p))`: the loop looks at every sleeper in every round.
  `WF(Redo(p))`: as above, and the loop is round robin (checked in `boot`).
* `Terminal`. Weak fairness of the reading thread and of the loop's own steps; strong
  fairness of the end of a slice, which reads and changes of termios do not put off
  (the budget counts instructions), and of the read of a process that was woken, whose
  turn comes in every round.
* `FSSpec`. `WF(Checks)`: the checker is a loop that waits for nothing.

Programs and persons owe nobody a step: no property depends on a call of exit, on
input, or on a reader to come.

### Disagreements

With a run:

* `mixed_restorers`: the kernel's record of frame layouts goes out of step with
  the stack when a handler returns through the C library; the next return through
  the magic address takes the wrong words. (A child forked inside a handler has
  the same trouble from the other side: frames on its stack and no record.)
* `ctrl_c`: the documents deliver SIGINT to the foreground group; the emulator
  never gives its TTY a `post_signal`, so the key flushes the input and no more.
* `overlay_export`: inodes of the image whose mode, owner, times or link count
  alone changed are taken for untouched and left out of the saved overlay.

Seen while modelling, part of the models, without a run of their own:

* The mask of a sigaction may hold SIGKILL, which then cannot be delivered in that
  handler; only `ssetmask` filters it.
* One signal per process and round is taken, the lowest, ignored or not: a process
  that posts itself an ignored lower one in every slice outlives SIGKILL for as long
  as it likes. `KillIsFatal` makes that its exception (`Outranked`); without it, the
  run `boot` shows the process that does this.
* `mknod` takes any mode. With S_IFDIR it makes a directory without `.` and `..`, about
  which a comment in `OverlayFS.mkdir` says that relative paths would not work without
  them. Its removal or move takes a link from the parent for a `..` that was never
  counted, a look-up in it raises an exception that is no `FsError`: `LinksExact` and
  `DotDotRight` are false in runs with one, and are about the others.
* A boot without `/etc/rc` leaves the child of the failing `_spawn` with a descriptor on
  an OpenFile already released; when a signal ends that child the count becomes -1.
* Signals are delivered once per round and not at the return of a call: a process
  that signals itself and pauses in the same slice sleeps with the signal pending.
* The idle limit ends a machine whose user thinks for about seven minutes at the
  prompt (`HaltJustified` counts it among the reasons).
* init reaps only the child it started; adopted zombies stay in the table.
* An inode unlinked while open is never marked deleted when it is closed, so
  the overlay keeps it.
* ^D behind lines not yet read is a flag without a place in the input: the end is
  reported once those lines are read, or with what comes behind them.
* Leaving canonical mode in the middle of a line puts the bytes typed afterwards
  before those typed earlier (`BetweenLines` leaves this out).
* What stands behind the last newline of piped input is never committed, and lost.
* The heap can be stretched to the stack and beyond it: `set_brk` compares with where
  the stack started, not with where it has grown to (`HeapBelowStack`).

* Breakpoints are looked at only after an instruction that was carried out: the
  first one of a handler, or the one behind an interrupted call, or the
  first of a forked child, is not stopped at.
* Without `--debug`, `si` steps whichever process `_pick` takes, which need not be
  the one the monitor showed (`docs/monitor-and-debugger.md`, 6.2, lets the loop pick
  "that process").
* When the process pinned by `--debug` is killed by a signal in the middle of a step
  command, the steps are never made: no stop is reported, and every slice is one
  instruction long from then on. Its exit ends `run` before the monitor shows it.

Seen while reading, in handlers that are not modelled: `pop` to memory addressed by
ESP uses ESP from before the pop; `enter` with a nesting level pushes one frame
pointer too many; `bt` on memory takes a negative bit offset for a large one; a
16-bit `shld` by more than 16 shifts by a negative count, which Python refuses (the
model takes counts up to the width).

## Proofs

`Descriptors_proofs` proves, for any number of processes, descriptors, OpenFiles,
pipes and inodes, with any number of failing spawns, from `DescriptorsAssumption`
alone: `TypeOK`, `RefsExact`, `PipeEndsExact`, `OpenRefsExact` are invariants and
`EndOfFileIsFinal` holds. The inductive invariant `IInv` is their conjunction. None
is inductive alone:
`_release_file` throws a record away when its count says nobody names it, which
is right only if the count is exact, and the counters of a pipe are read off
those records. The conjunction is stated for given tables (`ExactIn`), because
`dup2` closes before it renames and the tables half-way must be exact too. Two
lemmas, releasing a set of descriptors and acquiring one, carry close, dup, dup2,
exec and exit; fork, open and pipe count new slots. Half-made children enter through
`Counted`, the tables without the descriptors that were released and not emptied: all
that is counted is counted there, and `HalfMadeApart` keeps such a descriptor the only
one on its OpenFile.

`Processes_proofs` proves, for any number of processes, any set of signals, any
dispositions and arguments, and both ways of booting, from `ProcessesAssumption`
alone: `TypeOK`, `RunqExact`, `SleepersRewound`, `CallsAreRedone` and
`ParentsCanReap` are invariants of `Spec`, and `DeadStayDead` and `ReapedByParent`
hold. The frame stacks and the arguments that the runs bound are unbounded there.
The inductive invariant `IInv` has seven parts. The queue is exact only as long as
whoever is woken was asleep (so not queued) and has a CPU (so belongs into it):
`Sleepers`. `Sleepers` needs contexts that name a call when they stand on an
int 0x80, and since a handler returns to a context on the stack, every frame must
hold such a context: `GoodTasks`. `Fresh` says that numbers not yet given out are
free, which fork needs for the queue and for "a parent is older than its child".
`ParentsCanReap` itself makes reaping sound: a zombie other than process 1 has no
children, so taking it out leaves no orphan; and process 1 is nobody's child
(`FirstProcess`), so it is never reaped.

The argument is by kinds of steps rather than by actions: a step that changes one
record (`RecordStep`), wakes sleepers (`WakeStep`), suspends (`SuspendStep`), a
birth, a death, a reaping. Each is proved once, over lemmas on queues
(`QueueAppend`, `QueueRemove`, `QueueTail`, `QueueEnqueued`), and each action is
shown to be of its kind.

`HandlersReturn` proves `ReturnsWhereInterrupted` of the behaviours in which
`OneLibrary` holds in every state: no process mixes handlers that return through the
kernel with handlers that return through the C library, and no process with a frame of
the first kind was forked inside the handler. The hypothesis is needed:
`mixed_restorers` refutes the property without it, and the run `signals` explores just
the states that satisfy it. The invariant is `TameTasks`: nobody stands, or is to return
to, an address of no sense, and on a stack from which the kernel pops anything the
records are, frame by frame, the layouts (`Recorded`). `OneLibrary` is used in
three steps: at a delivery, where a new frame must be of the kind of those below it; at
a return through the C library, which leaves the records alone; and at a fork, whose
child has frames without records.

`Streams_proofs` proves `BytesInOrder` and the refinement `KeepsContract` for any
processes, pipes, capacity and counts, from `StreamsAssumption` and
`DescriptorsAssumption`. The invariant `SInv` joins `IInv` of `Descriptors` with the
types, `BytesInOrder` and `RefusedUnread`: a pipe that refused a writer is in use and
has no reader. The last is what the contract rests on. No byte is accepted
after a refusal because a write finds a reader or fails, and no reader comes back by
`NoEndComesBack` (which also carries `EndOfFileIsFinal`); a pipe forgets the refusal
only when nobody names it. `CountersStayExact` carries the theorems of `Descriptors`
over to processes that sleep in calls. Bytes are numbered round a circle, so
`PlusIs` turns the modulus into a case split before anything else is said.

`Processes_proofs` also proves that the loop implements the table
(`LoopImplementsProcesses`) for any number of processes and both ways of booting, so
that everything proved of `Processes` holds under `Kernel.run` (`LoopKeepsTable`),
and `HaltJustified`. `LoopInv` adds to `IInv` that `current` is a process number. That
an exit ends `run` only when it is that of process 1 rests on `ParentsCanReap`:
nobody else is without a parent.

`Terminal_proofs` proves `StopsWhereAsked` for any set-ups, addresses, breakpoints and
step counts, whatever the line discipline makes of the bytes. `DInv`: a stop leaves
the slice spent and the monitor pending until it is entered; while none is pending
the steps owed are those requested; a fast slice has neither breakpoints nor steps to
look at, because only the monitor makes them.

It proves `EofIsLast` for any set-ups, any keys and any number of them (`EndIsLast`),
and carries it over to slices a debugger ends (`EndIsLastDebugging`).
`EInv` says when the host has met the end of a pipe (`EndMet`: for the thread, when
everything is in its buffer; for select, when everything has been taken), which is the
one thing a thread between the poll and the look at `at_eof` cannot change, and
that the flag, unless a key set it, means an empty queue and an empty batch (`AtTheEnd`).
What feeding a batch does to the flag is an induction over its bytes: `FedInto` is a
recursive function, and `FedIntoUnfolds` and `FedIntoEnd` go up its domain with
`CountUp` (module `Counting`), which takes a set of numbers where the library's induction
takes an operator, and rests on every such set having a least number.

It also proves `ReadsWhatWasTyped` (`TypedIsRead`, `TypedIsReadDebugging`), for any
number of keys, readers, modes and batches, of the behaviours in which `BetweenLines`
always holds. That hypothesis is needed: a program that leaves canonical mode in the
middle of a line gets what was typed of it behind what is typed next, as neither
buffer is touched. It constrains only TCSETS: keys, reads, flushes and the debugger never
break it. The property speaks of the whole log at once, the buffers know only
what became of it, so `ReadInv` divides the log: what is meant of the line that is being
typed (`LineIn`) is in `line`; what is meant of before and not flushed (`RestIn`) is in
`ready`, but for what was read; and what was read is meant and of before (`PastIn`). An
erasure takes the last character of the buffer, while `RubbedOut` compares counts of
characters and erasures: the invariant therefore says of each character in `line` that
it is as far from its end as there were more characters than erasures since
(`Told`). `PartsAfter` says what one entry does to the three parts, `CookedRole` what
`_feed_cooked` does to the buffers by the role of the byte, `ToldChar`, `ToldErase` and
`ToldEnds` that these agree, and `FedIntoTold` goes through a batch with `CountUp`.

`Overlay_proofs` proves `LinksExact`, `DotDotRight`, `ReloadKeepsTree` and the
refinement `ImplementsFileTree` of `FSSpec /\ []NoBareDirectories` (nobody makes a
directory with mknod; the first two are false without it), for any names, any number of
inodes on the image and created later, any paths, and any sound image. The argument has two
layers. A table of inodes is looked at as one map from slots (an inode and a name) to
the inode named there, 0 for none; every call changes it in at most three slots.
`Wired` says what holds of map, counts and removed inodes together: counts count
slots, a removed inode has no name and no `.` or `..`, a directory has one name, in the
directory that its `..` names. Counts are needed for `DotDotRight`, because unlink
decides by the count that an inode is gone, and names for `LinksExact`, because a
directory that is removed takes two slots (its `.` and `..`) away from others.
The lemmas `WiredAdd`, `WiredCut`, `WiredCutDir`, `WiredMoveDir`, `WiredMkdir` prove it
of each change without regard to how the table is stored; the layer above shows which
change each call makes (`AddName`, `CutName`, `MakeDir`, `DropDir`, `MoveDir`) and which
step of `FileTree` that is. `FSInv` is `Wired` with the types of the table (`TableOK`).
Where a path leads is left open: the theorems hold whatever `Walk` returns, a
directory of the table being all that is used of it.

What is assumed of the image is `MountedAssumption` (`SoundTree`): names count for
`nlinks`, `.` and `..` are right, directories have one name, as `mkfs` makes them.
`check_fs` does not look at `nlinks`, so a clean image need not be like that; on one
that is not, unlink removes files that still have names, or never removes them.
TLC evaluates the assumption on the image of the run `filesystem`.

`Fsck_proofs` proves `ReadsAgree` (`PartsAreOfTheFile`) and `CleanIffSound`
(`CleanExactlyIfSound`) of `FSSpec`, for any images, any size of a block and any number of
direct zones: whatever part of a file is asked for is that part of it, and `check_fs`
reports nothing exactly when the image is sound. `ImagesAssumption` says what images are
(`Readable`): inodes have a kind, a size and zone numbers, zones are blocks of units, data
zones do not begin at 0; and it leaves out the two things at which `check_fs` gives up
with an exception, a root that is no directory and a directory longer than `zone_at` reaches.
Otherwise zones may be shared, invalid or missing, entries may name anything, and
directories may be named twice or below themselves.

A read is collected from pieces of blocks; `ReadFile` is a recursion over the
blocks it touches, and the lemma behind it says that after each block the result is the
part of the file up to there. For the checker, `Sound` is told in terms of `ZoneAt`, one
block at a time, and `check_inode` counts references: `DataRefsAre` shows that the references
are the non-zero zones of the reader, each index once, so that the number of references
is right, and none beyond the end, exactly when no block is missing (`SizeWrong`); `SoundIs`
restates `Sound` by references, in which "no zone is used twice" is that the map from
references to zones is injective. The search keeps (`Traversed`) that nothing was
reported exactly when the inodes looked at have no fault, that the zones owned are
theirs, and that everything an entry met so far names is looked at or on the stack. When the stack is empty, what was
looked at is closed, hence the whole tree, and it is within every closed set,
hence no more than the tree. That the search ends is `CheckEnds`, which stays with TLC.

`Memory_proofs` proves `CacheIsCoherent`, `MemoryIsFlat` and `ArgumentsArrive` of `MemSpec`, for any
programs, scripts and arguments, any number of processes, sizes of memory, page and
word, any table of instruction lengths up to what a flush reaches back over, and stores
and moves of any length to any address, under two hypotheses on behaviours.
`[]ShortInstructions`: an instruction with more prefixes than that stays cached when its
end is overwritten. `[]HeapBelowStack`: otherwise an address is in both arrays, and a
write to one is not seen in the other. Both are states the code reaches, and the first
two theorems are false without them. The third needs a hypothesis on the files as well,
`TextScripts`: what is behind a zero byte in the first line of a script is handed over
(`resolve_exec`), but a program cannot see it. What execve itself is called with has no
zero byte, because `read_cstr` ends at one (`Text`).

`IInv` keeps three things of every memory (`Sound`): its types; `low_end` not above
`stack_low`; and of every cache entry that its instruction lies within the text, spans
no more bytes than a flush reaches, and is what decoding gives now. The span is what
makes the last inductive: a write that leaves an entry standing is then outside of all its
bytes, and decoding reads no others. The fourth part is that `flat` is what the two
arrays show, 0 where neither is (`FlatBytes`), which is stronger than
`MemoryIsFlat`: a stack that grows shows zeros where nothing was, and a heap that grows
too. `WriteSound` says of one write, with or without growth of the stack and with
or without a fault, what it does to all of that, and everything else goes through it:
elements one after another (`ByElementSound`), a block in one piece, which is element after
element if the blocks are apart (`InPieces`, `MovedSound`, `FilledSound`), and the loader's
writes of strings and pointers (`LoadedSound`, `StartedSound`), where a program that
reaches over its own stack is ruled out by the hypothesis on the state that results
(`OverlapStays`). What the recursive functions of these compute is again an induction
with `CountUp`, here with a lemma (`Recursion`) that gives a recursion over
`0 .. n` its unfolding.

For `ArgumentsArrive`, `ImageElements` says what `setup_stack` stores: every string with
its zero, at the distance from the top that all strings from it on take (`Taken`), and
below them `a + e + 5` words in a row (`Slot`): argc, argv, envp and the two tables. The
alignment leaves all words below the strings (`WordPlaces`), and of any two elements
neither overlaps the other (`ImageAgrees`, `WritesAgree`), so that after all of them each
one is there (`AllArrive`), on pages that are mapped because no store faulted
(`ByElementReaches`). A number below `BASE ^ WORD` is its bytes read back
(`WordArrives`); that is where `TASK_SIZE < Words` is needed, which in the code is
64 MB against 4 GB. A string ends at its first zero and not before (`StringArrives`).
`AllArrived` keeps this of every program that has not stored anything since execve: brk
and fork leave bytes and mapped pages where they were (`StackStays`), filling the cache too.

`Cpu` itself cannot be the subject of any of the three, because it reaches `Bitwise`;
that its steps are those of `MemNext` or leave `memVars` alone can be read off its
`Next`.

TLC checks each of the properties proved on the run of its component too.

Only model-checked: every liveness property (out of the prover's reach, as is
ENABLED), and `ArithmeticIsRight`: `Alu` and `Processor` use `Bitwise`,
which the prover cannot take. Of decoding and of `Walk` the theorems use only where they
look, not what they find.

## Plan

Done: descriptors, pipes, processes, signals, the loop and init, the file system
from image to calls, the terminal, the debugger, memory and arithmetic, and the
theorems above. What is left out, and why, is below.

## Not modelled

Addressing modes, the routing of operands to registers, control transfers and the
stack instructions of `cpu86.py`: they are a table of the architecture in which a
model could only repeat the code. The disassembler, browser, pager, start-up and the
printing commands of the monitor: they hold no state over time, or only print.
The stop of the debugger at `hlt`. The limit on the text that is cached
(`ICACHE_MAX_TEXT`), the profiler and the statistics: they change no result. Users, groups, times and the
calls that read or write one field. `FileSystem` has one process with paths: calls are atomic, so a
second one would add another working directory and root, and nothing else.
