------------------------------- MODULE Processes -------------------------------
(***************************************************************************)
(* The process table of the kernel (kernel.py): the states of processes,   *)
(* the run queue, parents and process groups, blocking and the two ways of *)
(* waking up, signals from post_signal to the frame a handler returns      *)
(* through, exit and reaping.                                              *)
(*                                                                         *)
(* One action per system call or kernel step.  WHEN the kernel performs    *)
(* its own steps (alarms, wake-ups, deliveries, picking the next process)  *)
(* is the business of Scheduler, which extends this module and implements  *)
(* Spec; here every RUNNING process may make a call, and the kernel may    *)
(* make a step, at any time.                                               *)
(*                                                                         *)
(* The machine is abstracted to what a signal or a wake-up can spoil:      *)
(* where eip stands (in user code, or on an int 0x80 that is to be redone) *)
(* and what eax holds (a call number, -EINTR, or something else).          *)
(***************************************************************************)
EXTENDS Integers, FiniteSets, SequencesExt

CONSTANTS MaxPid,       \* bounds the processes ever created (next_pid is unbounded in the code)
          Sigs,         \* the signals in use, by number
          Dispositions, \* what programs pass to sigaction
          Calls,        \* the system calls programs make in this instance
          WaitArgs,     \* the pid arguments programs pass to waitpid
          KillArgs,     \* the pid arguments programs pass to kill
          BuiltinInit   \* TRUE: boot_init (pid 1 is the kernel's own init); FALSE: boot

SIGKILL == 9
SIGALRM == 14
SIGCHLD == 17
IGNORED_BY_DEFAULT == {17, 18}
STOP_SIGNALS       == 19 .. 22

Pid == 1 .. MaxPid

(* A sigaction tuple: the handler, the mask, SA_NOMASK, SA_ONESHOT, and     *)
(* whether restorer is 0, so that the handler returns through the magic     *)
(* address into _sigreturn.                                                 *)
Disposition == [handler : {"SIG_DFL", "SIG_IGN", "user"}, mask : SUBSET Sigs,
                nomask : BOOLEAN, oneshot : BOOLEAN, magic : BOOLEAN]
Default     == [handler |-> "SIG_DFL", mask |-> {}, nomask |-> FALSE,
                oneshot |-> FALSE, magic |-> TRUE]
Ignore      == [Default EXCEPT !.handler = "SIG_IGN"]

ASSUME ProcessesAssumption ==
    /\ MaxPid \in Nat /\ MaxPid >= 2
    /\ Sigs \subseteq 1 .. 32 /\ SIGCHLD \in Sigs /\ ("alarm" \in Calls => SIGALRM \in Sigs)
    /\ Dispositions \subseteq Disposition
    /\ WaitArgs \subseteq Int /\ KillArgs \subseteq Int
    /\ BuiltinInit \in BOOLEAN

(* The calls that can block, with the argument they are redone with; "read" *)
(* is a read from the terminal, whose input the environment supplies.       *)
BlockingCall == {[name |-> "waitpid", arg |-> a] : a \in WaitArgs}
                    \cup {[name |-> "pause", arg |-> 0], [name |-> "read", arg |-> 0]}
NoCall       == [name |-> "none", arg |-> 0]
EintrCall    == [name |-> "EINTR", arg |-> 0]

(* eip: in user code, on an int 0x80, or nowhere sensible.  eax: a call     *)
(* number with its argument, -EINTR, or anything else (NoCall).             *)
Context == [eip : {"user", "int80", "wild"}, eax : BlockingCall \cup {NoCall, EintrCall}]
UserContext == [eip |-> "user", eax |-> NoCall]

(* A signal frame on the user stack.                                        *)
Frame == [context : Context, has_blocked : BOOLEAN, blocked : SUBSET Sigs, magic : BOOLEAN]

VARIABLES next_pid,     \* the number the next process gets
          state,        \* Process.state; "none" when the table has no such process
          ppid, pgrp,   \* Process.ppid, Process.pgrp (0: none)
          wait_channel, \* what a SLEEPING process waits for ("none" otherwise)
          runq,         \* the run queue
          task          \* the rest of each Process, see Task

procVars == <<next_pid, state, ppid, pgrp, wait_channel, runq, task>>

State   == {"none", "RUNNING", "SLEEPING", "ZOMBIE", "STOPPED"}
Channel == {"none", "wait", "pause", "tty"}
Task == [cpu : BOOLEAN,                    \* has a CPU: not init, not a half-made child
         leader : BOOLEAN,
         signal : SUBSET Sigs, blocked : SUBSET Sigs,
         sigactions : [Sigs -> Disposition],
         alarm_at : BOOLEAN,               \* an alarm is armed
         context : Context,
         stack : Seq(Frame),               \* the signal frames on the user stack
         sigframes : Seq(BOOLEAN),         \* the kernel's record of their layout
         restart_syscall : BOOLEAN]
NewTask == [cpu |-> TRUE, leader |-> FALSE, signal |-> {}, blocked |-> {},
            sigactions |-> [s \in Sigs |-> Default], alarm_at |-> FALSE,
            context |-> UserContext, stack |-> <<>>, sigframes |-> <<>>,
            restart_syscall |-> FALSE]
NoTask  == [NewTask EXCEPT !.cpu = FALSE]  \* a process without a CPU, dead or never started

Procs  == {p \in Pid : state[p] # "none"}       \* the keys of Kernel.procs
KernelTask(p) == BuiltinInit /\ p = 1
Ghost(p)      == state[p] \in {"RUNNING", "STOPPED"} /\ ~task[p].cpu /\ ~KernelTask(p)
(* Mutant: the channel is the name of the call.                             *)
ChannelOf_Name(call) == call.name

ChannelOf(call) == CASE call.name = "waitpid" -> "wait"
                     [] call.name = "pause"   -> "pause"
                     [] OTHER                 -> "tty"

-----------------------------------------------------------------------------
(* Waking up.                                                               *)

(* Appending the processes W to the queue, in the order of their pids.      *)
Enqueued(W) ==
    \E ws \in [1 .. Cardinality(W) -> W] :
        /\ W = {ws[i] : i \in DOMAIN ws}
        /\ \A i, j \in DOMAIN ws : i < j => ws[i] < ws[j]
        /\ runq' = runq \o ws

(* Mutant: eax = -EINTR without stepping over the int 0x80.                 *)
Interrupted_InPlace(t) ==
    IF t.restart_syscall
    THEN [t EXCEPT !.context.eax = EintrCall, !.restart_syscall = FALSE]
    ELSE t

(* Interrupted wake-up: eip += 2 steps over the int 0x80, eax = -EINTR.     *)
Interrupted(t) ==
    IF t.restart_syscall
    THEN [t EXCEPT !.context = [eip |-> IF @.eip = "int80" THEN "user" ELSE "wild",
                                eax |-> EintrCall],
                   !.restart_syscall = FALSE]
    ELSE t

(* Mutant: the target is woken whether it sleeps or not.                    *)
Interrupts_Always(q, s) ==
    /\ s \notin task[q].blocked
    /\ task[q].sigactions[s].handler # "SIG_IGN"
    /\ ~(task[q].sigactions[s].handler = "SIG_DFL" /\ s \in IGNORED_BY_DEFAULT)

(* post_signal: would s, posted to q, interrupt its sleep?                  *)
Interrupts(q, s) ==
    /\ state[q] = "SLEEPING"
    /\ s \notin task[q].blocked
    /\ task[q].sigactions[s].handler # "SIG_IGN"
    /\ ~(task[q].sigactions[s].handler = "SIG_DFL" /\ s \in IGNORED_BY_DEFAULT)

(* What post_signal makes of q's record.  A zombie's is left alone: nothing *)
(* reads it any more.                                                       *)
Posted(q, s) ==
    LET t == [task[q] EXCEPT !.signal = @ \cup {s}]
    IN  IF state[q] = "ZOMBIE" THEN task[q]
        ELSE IF Interrupts(q, s) THEN Interrupted(t)
        ELSE t

(* post_signal(q, s) for every q in T.                                      *)
PostSignal(T, s) ==
    LET W == {q \in T : Interrupts(q, s)}
    IN  /\ state' = [q \in Pid |-> IF q \in W THEN "RUNNING" ELSE state[q]]
        /\ wait_channel' = [q \in Pid |-> IF q \in W THEN "none" ELSE wait_channel[q]]
        /\ task' = [q \in Pid |-> IF q \in T THEN Posted(q, s) ELSE task[q]]
        /\ Enqueued(W)
        /\ UNCHANGED <<next_pid, ppid, pgrp>>

(* _wake without interruption: the call is redone.                          *)
Wake(p) ==
    /\ state[p] = "SLEEPING"
    /\ state' = [state EXCEPT ![p] = "RUNNING"]
    /\ wait_channel' = [wait_channel EXCEPT ![p] = "none"]
    /\ Enqueued({p})
    /\ UNCHANGED <<next_pid, ppid, pgrp, task>>

-----------------------------------------------------------------------------
(* Exit.                                                                    *)

(* Mutant: the children stay with the dead parent.                          *)
Reparented_Never(p) == ppid

(* The children of p are handed over to process 1.                          *)
Reparented(p) == [q \in Pid |-> IF ppid[q] = p THEN 1 ELSE ppid[q]]

(* _exit_process.  What a zombie no longer uses is forgotten.               *)
ExitProcess(p) ==
    LET parent == ppid[p]
        told   == {q \in Procs \ {p} : q = parent}
        woken  == {q \in told : \/ Interrupts(q, SIGCHLD)
                                \/ state[q] = "SLEEPING" /\ wait_channel[q] = "wait"}
        rest   == RemoveFirst(runq, p)
    IN  /\ state' = [q \in Pid |-> IF q = p THEN "ZOMBIE"
                                   ELSE IF q \in woken THEN "RUNNING"
                                   ELSE state[q]]
        /\ ppid' = Reparented(p)
        /\ wait_channel' = [q \in Pid |-> IF q \in woken \cup {p} THEN "none"
                                          ELSE wait_channel[q]]
        /\ task' = [q \in Pid |-> IF q = p THEN NoTask
                                  ELSE IF q \in told THEN Posted(q, SIGCHLD)
                                  ELSE task[q]]
        /\ runq' = IF woken = {} THEN rest ELSE Append(rest, parent)
        /\ UNCHANGED <<next_pid, pgrp>>

(* _reap: q leaves the table for good; its number is not used again.        *)
Reap(q) ==
    /\ state' = [state EXCEPT ![q] = "none"]
    /\ ppid'  = [ppid EXCEPT ![q] = 0]
    /\ pgrp'  = [pgrp EXCEPT ![q] = 0]

-----------------------------------------------------------------------------
(* System calls.  A process that was put back on its int 0x80 can only make *)
(* the call eax names; any other call is made from user code.               *)

CanRun(p) == p \in Pid /\ state[p] = "RUNNING" /\ task[p].cpu
InUser(p) == CanRun(p) /\ task[p].context.eip = "user"
CanCall(p, call) ==
    /\ call.name \in Calls
    /\ CanRun(p)
    /\ \/ task[p].context.eip = "user"
       \/ task[p].context.eip = "int80" /\ task[p].context.eax = call

Returned(p) == [task EXCEPT ![p].context = UserContext]

(* Mutant: the process sleeps past its int 0x80.                            *)
Block_Past(p, call) ==
    /\ state' = [state EXCEPT ![p] = "SLEEPING"]
    /\ wait_channel' = [wait_channel EXCEPT ![p] = ChannelOf(call)]
    /\ task' = [Returned(p) EXCEPT ![p].restart_syscall = TRUE]
    /\ runq' = RemoveFirst(runq, p)
    /\ UNCHANGED <<next_pid, ppid, pgrp>>

(* raise Blocked: eip goes back onto the int 0x80, the process to sleep.    *)
Block(p, call) ==
    /\ state' = [state EXCEPT ![p] = "SLEEPING"]
    /\ wait_channel' = [wait_channel EXCEPT ![p] = ChannelOf(call)]
    /\ task' = [task EXCEPT ![p].context = [eip |-> "int80", eax |-> call],
                            ![p].restart_syscall = TRUE]
    /\ runq' = RemoveFirst(runq, p)
    /\ UNCHANGED <<next_pid, ppid, pgrp>>

(* sys_fork: the child has the parent's memory, so its signal frames too,   *)
(* but a new Process record: no pending signal, no alarm, empty sigframes.  *)
Fork(p) ==
    /\ "fork" \in Calls /\ InUser(p) /\ next_pid <= MaxPid
    /\ next_pid' = next_pid + 1
    /\ state' = [state EXCEPT ![next_pid] = "RUNNING"]
    /\ ppid'  = [ppid EXCEPT ![next_pid] = p]
    /\ pgrp'  = [pgrp EXCEPT ![next_pid] = pgrp[p]]
    /\ task'  = [Returned(p) EXCEPT ![next_pid] =
                    [NewTask EXCEPT !.blocked = task[p].blocked,
                                    !.sigactions = task[p].sigactions,
                                    !.stack = task[p].stack]]
    /\ runq'  = Append(runq, next_pid)
    /\ UNCHANGED wait_channel

(* sys_execve that succeeds: handlers are reset, ignored signals stay so.   *)
Execve(p) ==
    /\ "execve" \in Calls /\ InUser(p)
    /\ task' = [task EXCEPT
          ![p].sigactions = [s \in Sigs |-> IF @[s].handler = "SIG_IGN" THEN Ignore ELSE Default],
          ![p].context = UserContext, ![p].stack = <<>>, ![p].sigframes = <<>>]
    /\ UNCHANGED <<next_pid, state, ppid, pgrp, wait_channel, runq>>

(* sys_exit, and the faults that end a process (_on_fault, hlt).            *)
Exit(p) == CanRun(p) /\ task[p].context.eip # "int80" /\ ExitProcess(p)

(* Mutant: the parent is not looked at.                                     *)
Wanted_Any(p, arg) ==
    {q \in Procs : \/ arg > 0 /\ q = arg
                   \/ arg = 0 /\ pgrp[q] = pgrp[p]
                   \/ arg = -1
                   \/ arg < -1 /\ pgrp[q] = -arg}

Wanted(p, arg) ==
    {q \in Procs : /\ ppid[q] = p
                   /\ \/ arg > 0 /\ q = arg
                      \/ arg = 0 /\ pgrp[q] = pgrp[p]
                      \/ arg = -1
                      \/ arg < -1 /\ pgrp[q] = -arg}
(* Mutant: a child that does not run counts as dead.                        *)
Zombies_Idle(S) == {q \in S : state[q] # "RUNNING"}

Zombies(S) == {q \in S : state[q] = "ZOMBIE"}

(* sys_waitpid that finds a zombie: the first one in the table is reaped.   *)
WaitpidReaps(p, arg) ==
    LET call == [name |-> "waitpid", arg |-> arg]
        dead == Zombies(Wanted(p, arg))
    IN  /\ CanCall(p, call)
        /\ \E q \in dead : (\A r \in dead : q <= r) /\ Reap(q)
        /\ task' = Returned(p)
        /\ UNCHANGED <<next_pid, wait_channel, runq>>

(* sys_waitpid that finds no child to wait for (ECHILD), or only live ones  *)
(* under WNOHANG.                                                           *)
WaitpidReturns(p, arg) ==
    /\ CanCall(p, [name |-> "waitpid", arg |-> arg])
    /\ Zombies(Wanted(p, arg)) = {}
    /\ Wanted(p, arg) = {} \/ task[p].context.eip = "user"
    /\ task' = Returned(p)
    /\ UNCHANGED <<next_pid, state, ppid, pgrp, wait_channel, runq>>

WaitpidBlocks(p, arg) ==
    LET call == [name |-> "waitpid", arg |-> arg]
    IN  /\ CanCall(p, call)
        /\ Wanted(p, arg) # {} /\ Zombies(Wanted(p, arg)) = {}
        /\ Block(p, call)

(* sys_pause *)
Pause(p) ==
    LET call == [name |-> "pause", arg |-> 0] IN CanCall(p, call) /\ Block(p, call)

(* sys_read from the terminal, with or without input. *)
ReadCall == [name |-> "read", arg |-> 0]
ReadReturns(p) ==
    /\ CanCall(p, ReadCall)
    /\ task' = Returned(p)
    /\ UNCHANGED <<next_pid, state, ppid, pgrp, wait_channel, runq>>
ReadBlocks(p) == CanCall(p, ReadCall) /\ Block(p, ReadCall)

(* sys_kill: no target is ESRCH, and changes nothing. *)
Targets(p, arg) ==
    {q \in Procs : \/ arg > 0 /\ q = arg
                   \/ arg = 0 /\ pgrp[q] = pgrp[p]
                   \/ arg = -1 /\ q > 1
                   \/ arg < -1 /\ pgrp[q] = -arg}
Kill(p, arg, s) ==
    /\ "kill" \in Calls /\ InUser(p)
    /\ PostSignal(Targets(p, arg), s)

(* sys_signal and sys_sigaction. *)
SetAction(p, s, d) ==
    /\ InUser(p) /\ s # SIGKILL
    /\ task' = [task EXCEPT ![p].sigactions[s] = d]
    /\ UNCHANGED <<next_pid, state, ppid, pgrp, wait_channel, runq>>
Signal(p, s, h, m) ==
    /\ "signal" \in Calls
    /\ SetAction(p, s, [handler |-> h, mask |-> {}, nomask |-> TRUE, oneshot |-> TRUE,
                        magic |-> m])
Sigaction(p, s, d) == "sigaction" \in Calls /\ SetAction(p, s, d)

(* sys_ssetmask *)
Ssetmask(p, mask) ==
    /\ "ssetmask" \in Calls /\ InUser(p)
    /\ task' = [task EXCEPT ![p].blocked = mask \ {SIGKILL}]
    /\ UNCHANGED <<next_pid, state, ppid, pgrp, wait_channel, runq>>

(* sys_alarm: arm or disarm. *)
Alarm(p, on) ==
    /\ "alarm" \in Calls /\ InUser(p)
    /\ task' = [task EXCEPT ![p].alarm_at = on]
    /\ UNCHANGED <<next_pid, state, ppid, pgrp, wait_channel, runq>>

(* sys_setsid, of a process that is not a leader; sys_setpgid, which checks *)
(* nothing but that its target exists.                                      *)
Setsid(p) ==
    /\ "setsid" \in Calls /\ InUser(p) /\ ~task[p].leader
    /\ task' = [task EXCEPT ![p].leader = TRUE]
    /\ pgrp' = [pgrp EXCEPT ![p] = p]
    /\ UNCHANGED <<next_pid, state, ppid, wait_channel, runq>>
Setpgid(p, q, g) ==
    /\ "setpgid" \in Calls /\ InUser(p) /\ q \in Procs
    /\ pgrp' = [pgrp EXCEPT ![q] = IF g = 0 THEN q ELSE g]
    /\ UNCHANGED <<next_pid, state, ppid, wait_channel, runq, task>>

-----------------------------------------------------------------------------
(* Signals: delivery and return.                                            *)

Pending(p) == task[p].signal \ task[p].blocked

(* Mutant: every frame carries the mask, SA_NOMASK or not.                  *)
FrameOf_Masked(t, d) ==
    [context |-> t.context, has_blocked |-> TRUE, blocked |-> t.blocked, magic |-> d.magic]

FrameOf(t, d) ==
    [context |-> t.context, has_blocked |-> ~d.nomask, blocked |-> t.blocked, magic |-> d.magic]

(* _build_signal_frame, for t with the delivered signal s taken away. *)
Framed(t, s) ==
    LET d == t.sigactions[s]
    IN  [t EXCEPT !.context    = UserContext,
                  !.stack      = Append(@, FrameOf(t, d)),
                  !.sigframes  = Append(@, ~d.nomask),
                  !.blocked    = @ \cup d.mask,
                  !.sigactions = IF d.oneshot THEN [@ EXCEPT ![s].handler = "SIG_DFL"] ELSE @]

Consumed(p, s) == [task[p] EXCEPT !.signal = @ \ {s}]

DeliverIgnored(p, s) ==
    /\ \/ task[p].sigactions[s].handler = "SIG_IGN"
       \/ task[p].sigactions[s].handler = "SIG_DFL" /\ s \in IGNORED_BY_DEFAULT
    /\ task' = [task EXCEPT ![p] = Consumed(p, s)]
    /\ UNCHANGED <<next_pid, state, ppid, pgrp, wait_channel, runq>>

DeliverStop(p, s) ==
    /\ task[p].sigactions[s].handler = "SIG_DFL" /\ s \in STOP_SIGNALS
    /\ task' = [task EXCEPT ![p] = Consumed(p, s)]
    /\ state' = [state EXCEPT ![p] = "STOPPED"]
    /\ runq' = RemoveFirst(runq, p)
    /\ UNCHANGED <<next_pid, ppid, pgrp, wait_channel>>

DeliverFatal(p, s) ==
    /\ task[p].sigactions[s].handler = "SIG_DFL"
    /\ s \notin IGNORED_BY_DEFAULT \cup STOP_SIGNALS
    /\ ExitProcess(p)

DeliverHandler(p, s) ==
    /\ task[p].sigactions[s].handler = "user"
    /\ task' = [task EXCEPT ![p] = Framed(Consumed(p, s), s)]
    /\ IF state[p] = "SLEEPING"
       THEN /\ state' = [state EXCEPT ![p] = "RUNNING"]
            /\ wait_channel' = [wait_channel EXCEPT ![p] = "none"]
            /\ Enqueued({p})
       ELSE UNCHANGED <<state, wait_channel, runq>>
    /\ UNCHANGED <<next_pid, ppid, pgrp>>

(* _deliver_pending for one process: its lowest pending signal is taken. *)
Deliver(p) ==
    /\ state[p] \notin {"none", "ZOMBIE"}
    /\ \E s \in Pending(p) :
          /\ \A r \in Pending(p) : s <= r
          /\ \/ DeliverIgnored(p, s)
             \/ DeliverStop(p, s)
             \/ DeliverFatal(p, s)
             \/ DeliverHandler(p, s)

(* The handler returns to the magic address: _sigreturn pops the frame by   *)
(* the layout the kernel recorded last.  When that is not the layout of the *)
(* frame, the words land in the wrong registers: blocked gets whatever eax  *)
(* was and eip something that is no code address.                           *)
SigReturn(p) ==
    LET t     == task[p]
        frame == Last(t.stack)
        pops  == t.sigframes # <<>> /\ Last(t.sigframes)
    IN  /\ InUser(p) /\ t.stack # <<>> /\ frame.magic
        /\ \E m \in SUBSET Sigs :
              /\ pops /\ frame.has_blocked => m = frame.blocked
              /\ ~pops => m = t.blocked
              /\ task' = [task EXCEPT ![p] =
                    [t EXCEPT !.stack     = Front(@),
                              !.sigframes = IF @ = <<>> THEN @ ELSE Front(@),
                              !.blocked   = m,
                              !.context   = IF pops = frame.has_blocked THEN frame.context
                                            ELSE [eip |-> "wild", eax |-> NoCall]]]
        /\ UNCHANGED <<next_pid, state, ppid, pgrp, wait_channel, runq>>

(* The handler returns through the restorer of the C library, which pops    *)
(* the frame in user mode (blocked by ssetmask).  The kernel is not told.   *)
LibcReturn(p) ==
    LET t     == task[p]
        frame == Last(t.stack)
    IN  /\ InUser(p) /\ t.stack # <<>> /\ ~frame.magic
        /\ task' = [task EXCEPT ![p] =
              [t EXCEPT !.stack   = Front(@),
                        !.blocked = IF frame.has_blocked THEN frame.blocked \ {SIGKILL} ELSE @,
                        !.context = frame.context]]
        /\ UNCHANGED <<next_pid, state, ppid, pgrp, wait_channel, runq>>

-----------------------------------------------------------------------------
(* Steps of the kernel itself.                                              *)

(* _check_alarms, for a process whose alarm is due.                         *)
AlarmFires(p) ==
    /\ p \in Procs /\ task[p].alarm_at
    /\ LET woken == Interrupts(p, SIGALRM)
       IN  /\ task' = [task EXCEPT ![p] = [Posted(p, SIGALRM) EXCEPT !.alarm_at = FALSE]]
           /\ state' = IF woken THEN [state EXCEPT ![p] = "RUNNING"] ELSE state
           /\ wait_channel' = IF woken THEN [wait_channel EXCEPT ![p] = "none"] ELSE wait_channel
           /\ Enqueued(IF woken THEN {p} ELSE {})
           /\ UNCHANGED <<next_pid, ppid, pgrp>>

(* _wake_waiters, for one process: whether a zombie child exists is the     *)
(* table's own business, whether the terminal has input is not.             *)
Waiting(p, ch) == p \in Pid /\ state[p] = "SLEEPING" /\ wait_channel[p] = ch
WakeParent(p) == Waiting(p, "wait") /\ Zombies({q \in Procs : ppid[q] = p}) # {} /\ Wake(p)
WakeReader(p) == Waiting(p, "tty") /\ Wake(p)

(* Mutant: the head goes back to the front.                                 *)
Rotate_Front ==
    /\ runq # <<>>
    /\ runq' = IF state[Head(runq)] \in {"none", "ZOMBIE"} THEN Tail(runq) ELSE runq
    /\ UNCHANGED <<next_pid, state, ppid, pgrp, wait_channel, task>>

(* _pick, one turn of its loop: the head leaves the queue, and goes to the  *)
(* back unless it is dead.                                                  *)
Rotate ==
    /\ runq # <<>>
    /\ LET p == Head(runq)
       IN  runq' = IF state[p] \in {"none", "ZOMBIE"} THEN Tail(runq)
                   ELSE Append(Tail(runq), p)
    /\ UNCHANGED <<next_pid, state, ppid, pgrp, wait_channel, task>>

(* _spawn for init, and the half-made child that stays in the table when    *)
(* the program or the script cannot be opened.                              *)
Spawn(ok, new_session) ==
    /\ BuiltinInit /\ next_pid <= MaxPid
    /\ next_pid' = next_pid + 1
    /\ state' = [state EXCEPT ![next_pid] = "RUNNING"]
    /\ ppid'  = [ppid EXCEPT ![next_pid] = 1]
    /\ pgrp'  = [pgrp EXCEPT ![next_pid] = next_pid]
    /\ task'  = [task EXCEPT ![next_pid] =
                    IF ok THEN [NewTask EXCEPT !.leader = new_session] ELSE NoTask]
    /\ runq'  = IF ok THEN Append(runq, next_pid) ELSE runq
    /\ UNCHANGED wait_channel

(* _init_step: init reaps the child it waits for. *)
InitReaps(q) ==
    /\ BuiltinInit /\ q \in Procs /\ state[q] = "ZOMBIE" /\ ppid[q] = 1
    /\ Reap(q)
    /\ UNCHANGED <<next_pid, wait_channel, runq, task>>

-----------------------------------------------------------------------------
(* boot or boot_init, and the start of run, which queues the current        *)
(* process.                                                                 *)
Init ==
    /\ next_pid = 2
    /\ state = [p \in Pid |-> IF p = 1 THEN "RUNNING" ELSE "none"]
    /\ ppid = [p \in Pid |-> 0]
    /\ pgrp = [p \in Pid |-> IF p = 1 THEN 1 ELSE 0]
    /\ wait_channel = [p \in Pid |-> "none"]
    /\ runq = <<1>>
    /\ task = [p \in Pid |-> IF p = 1 /\ ~BuiltinInit THEN NewTask ELSE NoTask]

(* Calls after which the process goes on; calls that end its time slice     *)
(* (Blocked, Replaced and MagicJump leave cpu.run); reads of the terminal.  *)
GoesOn(p) ==
    \/ Fork(p)
    \/ \E a \in WaitArgs : WaitpidReaps(p, a) \/ WaitpidReturns(p, a)
    \/ \E a \in KillArgs, s \in Sigs : Kill(p, a, s)
    \/ \E s \in Sigs, h \in {"SIG_DFL", "SIG_IGN", "user"}, d \in Dispositions :
          Signal(p, s, h, d.magic)
    \/ \E s \in Sigs, d \in Dispositions : Sigaction(p, s, d)
    \/ \E m \in SUBSET Sigs : Ssetmask(p, m)
    \/ \E on \in BOOLEAN : Alarm(p, on)
    \/ Setsid(p)
    \/ \E q \in Pid, g \in 0 .. MaxPid : Setpgid(p, q, g)
    \/ LibcReturn(p)

EndsSlice(p) ==
    \/ Execve(p)
    \/ \E a \in WaitArgs : WaitpidBlocks(p, a)
    \/ Pause(p)
    \/ SigReturn(p)

UserStep(p) ==
    \/ GoesOn(p)
    \/ EndsSlice(p)
    \/ Exit(p)
    \/ ReadReturns(p)
    \/ ReadBlocks(p)

KernelStep(p) ==
    \/ AlarmFires(p)
    \/ WakeParent(p)
    \/ WakeReader(p)
    \/ Deliver(p)
    \/ InitReaps(p)

Next ==
    \/ \E p \in Pid : UserStep(p)
    \/ \E p \in Pid : KernelStep(p)
    \/ Rotate
    \/ \E ok, new_session \in BOOLEAN : Spawn(ok, new_session)

Spec == Init /\ [][Next]_procVars

-----------------------------------------------------------------------------
(* Every variable keeps its type.                                           *)
TypeOK ==
    /\ next_pid \in 2 .. MaxPid + 1
    /\ state \in [Pid -> State]
    /\ ppid \in [Pid -> 0 .. MaxPid]
    /\ pgrp \in [Pid -> 0 .. MaxPid]
    /\ wait_channel \in [Pid -> Channel]
    /\ runq \in Seq(Pid)
    /\ task \in [Pid -> Task]

(* The run queue holds exactly the RUNNING processes, each once, through    *)
(* every block, wake-up, stop, fork and exit: nobody runnable is forgotten, *)
(* nobody asleep, stopped or dead is picked.  (init is queued but never     *)
(* picked; a half-made child of _spawn is RUNNING and not queued.)          *)
RunqExact ==
    /\ \A i, j \in DOMAIN runq : runq[i] = runq[j] => i = j
    /\ \A p \in Pid : (\E i \in DOMAIN runq : runq[i] = p)
                          <=> state[p] = "RUNNING" /\ ~Ghost(p)

(* A sleeper stands on the int 0x80 of the call that its channel is about,  *)
(* ready to be redone or to be stepped over.                                *)
SleepersRewound ==
    \A p \in Pid : state[p] = "SLEEPING" =>
        /\ task[p].restart_syscall
        /\ task[p].context.eip = "int80"
        /\ task[p].context.eax \in BlockingCall
        /\ wait_channel[p] = ChannelOf(task[p].context.eax)

(* Where a process stands, and where each handler on its stack returns to.  *)
Contexts(p) == {task[p].context} \cup {task[p].stack[i].context : i \in DOMAIN task[p].stack}

(* Nobody ever executes, or returns from a handler onto, an int 0x80 with   *)
(* -EINTR in eax for a call number (the warnings in post_signal and _wake). *)
CallsAreRedone ==
    \A p \in Pid : \A c \in Contexts(p) : c.eip = "int80" => c.eax \in BlockingCall

(* A program is linked with one C library, so that its handlers all return  *)
(* the same way; and those that return through the kernel leave no fork     *)
(* behind, as a child has the frames but no record of their layout.         *)
WaysBack(t) == {t.stack[k].magic : k \in DOMAIN t.stack}
                   \cup {t.sigactions[s].magic : s \in {x \in Sigs : t.sigactions[x].handler = "user"}}
OneLibrary ==
    \A p \in Pid : LET t == task[p]
                   IN  \/ TRUE \notin WaysBack(t)
                       \/ FALSE \notin WaysBack(t) /\ Len(t.sigframes) = Len(t.stack)

(* A handler that returns leaves the process where the signal found it      *)
(* (under OneLibrary).                                                      *)
ReturnsWhereInterrupted == \A p \in Pid : task[p].context.eip # "wild"

(* The parent of every process in the table is init or a process that can   *)
(* still reap it, and is older: exit hands its children over in time.       *)
ParentsCanReap ==
    \A p \in Procs \ {1} :
        /\ ppid[p] \in Procs /\ ppid[p] < p
        /\ ppid[p] = 1 \/ state[ppid[p]] # "ZOMBIE"

(* A dead process does not come back, a reaped number is not used again,    *)
(* and a process leaves the table only as a zombie.                         *)
DeadStayDead ==
    [][\A p \in Pid :
          /\ state[p] = "ZOMBIE" => state'[p] \in {"ZOMBIE", "none"}
          /\ p < next_pid /\ state[p] = "none" => state'[p] = "none"
          /\ state[p] \notin {"ZOMBIE", "none"} => state'[p] # "none"]_procVars

(* A zombie is reaped by its parent, which is running and returns from its  *)
(* waitpid, or by the built-in init: process groups, setpgid and adoption   *)
(* never let one process take away another's child, or one call two.        *)
ReapedByParent ==
    [][\A q \in Pid :
          state[q] = "ZOMBIE" /\ state'[q] = "none" =>
              /\ \A r \in Pid \ {q} : state'[r] = state[r]
              /\ \A r \in Pid \ {ppid[q]} : task'[r] = task[r]
              /\ CanRun(ppid[q]) \/ KernelTask(ppid[q])]_procVars
=============================================================================
