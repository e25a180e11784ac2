------------------------------- MODULE Scheduler -------------------------------
(***************************************************************************)
(* The scheduling loop, Kernel.run (kernel.py): in every round the         *)
(* terminal is pumped, due alarms are posted, sleepers whose condition     *)
(* holds are woken, one pending signal per process is delivered, the       *)
(* built-in init makes a step, and the next RUNNING process in the queue   *)
(* gets a time slice, which ends at its limit or when the process blocks,  *)
(* exits, execs or returns through the magic address.                      *)
(*                                                                         *)
(* A pass over the table is a sequence of steps, one per process, in the   *)
(* order of the pids; nothing runs in between.  The machine is not stopped *)
(* by max_instructions, the monitor or the debugger here.                  *)
(***************************************************************************)
EXTENDS Processes

CONSTANTS IdleMax,       \* idle rounds after which run gives up (20000 in the code)
          SpawnOutcomes, \* can init start its children: TRUE, FALSE or both
          ConsoleAlive   \* the answers of _console_alive

ASSUME SchedulerAssumption ==
    /\ IdleMax \in Nat
    /\ SpawnOutcomes \subseteq BOOLEAN
    /\ ConsoleAlive \subseteq BOOLEAN

VARIABLES phase,      \* where run is in its round
          cursor,     \* the last process the current pass has dealt with
          turns,      \* iterations _pick has left
          current,    \* Kernel.current
          init_state, \* Kernel._init_state
          init_child, \* Kernel._init_child
          idle,       \* consecutive rounds without a process to run
          ready       \* terminal.ready or terminal.eof_pending

schedVars == <<phase, cursor, turns, current, init_state, init_child, idle, ready>>
vars == <<procVars, schedVars>>

Phase     == {"pump", "alarms", "wake", "deliver", "init", "pick", "user", "halted"}
InitState == {"rc", "wait_rc", "shell", "wait_shell", "done"}

Goto(ph) == phase' = ph /\ cursor' = 0

-----------------------------------------------------------------------------
(* _pump_tty: input may have come. *)
Pump ==
    /\ phase = "pump" /\ Goto("alarms")
    /\ ready' \in {ready, TRUE}
    /\ UNCHANGED <<procVars, turns, current, init_state, init_child, idle>>

NextPhase(ph, next) ==
    /\ phase = ph /\ Goto(next)
    /\ UNCHANGED <<procVars, turns, current, init_state, init_child, idle, ready>>

First(Due(_), p) == \A q \in Pid : q > cursor /\ Due(q) => p <= q

(* Mutant: only RUNNING processes have their alarms looked at.              *)
AlarmTurn_Running(p) ==
    /\ phase = "alarms" /\ p > cursor
    /\ state[p] = "RUNNING" /\ AlarmFires(p)
    /\ cursor' = p
    /\ UNCHANGED <<phase, turns, current, init_state, init_child, idle, ready>>

(* _check_alarms.  An armed alarm is due at some time: the clock is not     *)
(* modelled, and advances in every round of the code.                       *)
AlarmTurn(p) ==
    /\ phase = "alarms" /\ p > cursor
    /\ AlarmFires(p)
    /\ cursor' = p
    /\ UNCHANGED <<phase, turns, current, init_state, init_child, idle, ready>>

(* Mutant: parents are left to the exit of their children.                  *)
Wakeable_Readers(p) == Waiting(p, "tty") /\ ready

(* _wake_waiters *)
Wakeable(p) ==
    \/ Waiting(p, "wait") /\ Zombies({q \in Procs : ppid[q] = p}) # {}
    \/ Waiting(p, "tty") /\ ready
WakeTurn(p) ==
    /\ phase = "wake" /\ p > cursor
    /\ Wakeable(p) /\ First(Wakeable, p)
    /\ WakeParent(p) \/ WakeReader(p)
    /\ cursor' = p
    /\ UNCHANGED <<phase, turns, current, init_state, init_child, idle, ready>>

(* Mutant: signals are delivered to RUNNING processes only.                 *)
Deliverable_Running(p) == state[p] = "RUNNING" /\ Pending(p) # {}

(* _deliver_pending *)
Deliverable(p) == state[p] \notin {"none", "ZOMBIE"} /\ Pending(p) # {}
DeliverTurn(p) ==
    /\ phase = "deliver" /\ p > cursor
    /\ Deliverable(p) /\ First(Deliverable, p)
    /\ Deliver(p)
    /\ cursor' = p
    /\ UNCHANGED <<phase, turns, current, init_state, init_child, idle, ready>>

AlarmsDone == NextPhase("alarms", "wake")
WakeDone == /\ ~\E p \in Pid : p > cursor /\ Wakeable(p)
            /\ NextPhase("wake", "deliver")
DeliverDone == /\ ~\E p \in Pid : p > cursor /\ Deliverable(p)
               /\ NextPhase("deliver", "init")

-----------------------------------------------------------------------------
(* _init_step *)

InitSpawns ==
    /\ init_state \in {"rc", "shell"}
    /\ \E ok \in SpawnOutcomes :
          /\ Spawn(ok, init_state = "shell")
          /\ init_child' = IF ok THEN next_pid ELSE init_child
          /\ init_state' = CASE init_state = "rc" /\ ok    -> "wait_rc"
                             [] init_state = "rc" /\ ~ok   -> "shell"
                             [] init_state = "shell" /\ ok -> "wait_shell"
                             [] OTHER                      -> "done"

(* Mutants: init goes on without reaping its child, or drops a live one.    *)
InitWaits_NoReap ==
    /\ init_state \in {"wait_rc", "wait_shell"}
    /\ UNCHANGED init_child
    /\ \/ state[init_child] # "ZOMBIE" /\ UNCHANGED <<procVars, init_state>>
       \/ /\ state[init_child] = "ZOMBIE" /\ UNCHANGED procVars
          /\ init_state' = IF next_pid <= MaxPid THEN "shell" ELSE "done"
InitWaits_Drops ==
    /\ init_state \in {"wait_rc", "wait_shell"} /\ state[init_child] # "none"
    /\ Reap(init_child)
    /\ init_state' = "done"
    /\ UNCHANGED <<next_pid, wait_channel, runq, task, init_child>>

InitWaits ==
    /\ init_state \in {"wait_rc", "wait_shell"}
    /\ UNCHANGED init_child
    /\ \/ /\ state[init_child] \notin {"none", "ZOMBIE"}
          /\ UNCHANGED <<procVars, init_state>>
       \/ /\ state[init_child] \in {"none", "ZOMBIE"}
          /\ IF state[init_child] = "ZOMBIE" THEN InitReaps(init_child) ELSE UNCHANGED procVars
          /\ \E alive \in ConsoleAlive :
                /\ alive => next_pid <= MaxPid   \* bound: a number is left for the next shell
                /\ init_state' = IF init_state = "wait_rc" \/ alive THEN "shell" ELSE "done"

InitIdle == init_state = "done" /\ UNCHANGED <<procVars, init_state, init_child>>

InitStep ==
    /\ phase = "init" /\ Goto("pick")
    /\ InitSpawns \/ InitWaits \/ InitIdle
    /\ turns' = Len(runq')
    /\ UNCHANGED <<current, idle, ready>>

-----------------------------------------------------------------------------
(* _pick and the idle branch of run.                                        *)

Runnable(p) == state[p] = "RUNNING" /\ ~KernelTask(p)

PickTurn ==
    /\ phase = "pick" /\ turns > 0
    /\ Rotate
    /\ LET p == Head(runq)
       IN  IF Runnable(p)
           THEN Goto("user") /\ current' = p /\ idle' = 0 /\ turns' = 0
           ELSE turns' = turns - 1 /\ UNCHANGED <<phase, cursor, current, idle>>
    /\ UNCHANGED <<init_state, init_child, ready>>

(* The live user processes: half-made children of _spawn count. *)
Alive == {q \in Procs : state[q] # "ZOMBIE" /\ ~KernelTask(q)}

(* Mutant: run ends as soon as nobody can run.                              *)
PickNone_Early ==
    /\ phase = "pick" /\ turns = 0
    /\ Goto("halted")
    /\ UNCHANGED <<procVars, turns, current, init_state, init_child, idle, ready>>

PickNone ==
    /\ phase = "pick" /\ turns = 0
    /\ IF Alive = {} /\ init_state = "done"
       THEN Goto("halted") /\ UNCHANGED <<idle, ready>>
       ELSE /\ Goto(IF idle + 1 > IdleMax THEN "halted" ELSE "pump")
            /\ idle' = idle + 1
            /\ ready' \in {ready, TRUE}
    /\ UNCHANGED <<procVars, turns, current, init_state, init_child>>

-----------------------------------------------------------------------------
(* The time slice of the current process.                                   *)

InSlice == phase = "user" /\ UNCHANGED <<turns, current, init_state, init_child, idle>>

(* Bound: forks leave a process number for the shell that init has to start.*)
ForkBound == init_state \in {"rc", "wait_rc", "shell"} => next_pid' <= MaxPid

SliceGoesOn ==
    /\ InSlice /\ GoesOn(current) /\ ForkBound
    /\ UNCHANGED <<phase, cursor, ready>>

SliceReads ==
    /\ InSlice /\ ready /\ ReadReturns(current)
    /\ ready' \in BOOLEAN                        \* more input may be left
    /\ UNCHANGED <<phase, cursor>>

SliceBreaks ==
    /\ InSlice
    /\ \/ EndsSlice(current)
       \/ ~ready /\ ReadBlocks(current)
    /\ Goto("pump")
    /\ UNCHANGED ready

(* sys_exit of a process without a parent ends run; hlt does not. *)
SliceExits ==
    /\ InSlice /\ Exit(current)
    /\ \/ Goto("pump")
       \/ ppid[current] = 0 /\ Goto("halted")
    /\ UNCHANGED ready

(* TIMESLICE instructions are used up.  A process put on an int 0x80 has    *)
(* made its call by then.                                                   *)
SliceExpires ==
    /\ InSlice /\ task[current].context.eip # "int80"
    /\ Goto("pump")
    /\ UNCHANGED <<procVars, ready>>

-----------------------------------------------------------------------------
SchedInit ==
    /\ Init
    /\ phase = "pump" /\ cursor = 0 /\ turns = 0
    /\ current = 1
    /\ init_state = IF BuiltinInit THEN "rc" ELSE "done"
    /\ init_child = 0
    /\ idle = 0
    /\ ready = FALSE

KernelTurn ==
    \/ Pump
    \/ AlarmsDone
    \/ \E p \in Pid : WakeTurn(p)
    \/ WakeDone
    \/ \E p \in Pid : DeliverTurn(p)
    \/ DeliverDone
    \/ InitStep
    \/ PickTurn
    \/ PickNone
    \/ SliceExpires

UserTurn == SliceGoesOn \/ SliceReads \/ SliceBreaks \/ SliceExits

(* run has returned. *)
Halted == phase = "halted" /\ UNCHANGED vars

SchedNext ==
    \/ KernelTurn
    \/ \E p \in Pid : AlarmTurn(p)
    \/ UserTurn
    \/ Halted

(* Redoing a call is what the process does first with its slice.            *)
Redo == task[current].context.eip = "int80" /\ UserTurn

(* The loop never waits for anything but input, so its steps, the end of a  *)
(* slice and the redoing of a call among them, are weakly fair; the clock   *)
(* goes on, so an alarm that stays armed comes due in some round.  Programs *)
(* and the terminal owe nobody a step.                                      *)
SchedSpec ==
    /\ SchedInit /\ [][SchedNext]_vars
    /\ WF_vars(KernelTurn)
    /\ WF_vars(Redo)
    /\ \A p \in Pid : SF_vars(AlarmTurn(p))

-----------------------------------------------------------------------------

(* run returns only when nothing is left to run, when the first process     *)
(* has exited, or after too many idle rounds.                               *)
HaltJustified ==
    phase = "halted" =>
        \/ Alive = {} /\ init_state = "done"
        \/ state[1] = "ZOMBIE"
        \/ idle > IdleMax

(* The loop does to the process table only what Processes allows.           *)
ImplementsProcesses == Spec

halted == phase = "halted"

(* Round robin: a runnable process gets a time slice, unless a signal takes *)
(* it out of the queue first.                                               *)
RunnableRuns ==
    \A p \in Pid : CanRun(p) ~> (phase = "user" /\ current = p) \/ ~CanRun(p) \/ halted

(* Of the pending signals one is delivered per round, the lowest.           *)
Outranked(p, s) == \E t \in Pending(p) : t < s

(* A process that has been sent SIGKILL dies, asleep, stopped or running,   *)
(* unless lower signals come again and again: a process that posts itself   *)
(* an ignored one in every slice lives for ever.  (Where the mask of a      *)
(* sigaction has put SIGKILL into blocked, it lives as well.)               *)
KillIsFatal ==
    \A p \in Pid :
        SIGKILL \in Pending(p)
            ~> \/ state[p] \in {"ZOMBIE", "none"} \/ halted
               \/ Outranked(p, SIGKILL)
               \/ SIGKILL \in task[p].blocked

(* A process in waitpid with a dead child is woken, also when the child     *)
(* was handed to it by another's exit, which wakes only the other's parent. *)
WaiterWakes ==
    \A p \in Pid :
        Waiting(p, "wait") /\ Zombies({q \in Procs : ppid[q] = p}) # {}
            ~> ~Waiting(p, "wait") \/ halted

(* An alarm ends a pause, even when everybody else is asleep.               *)
AlarmEndsPause ==
    \A p \in Pid :
        Waiting(p, "pause") /\ task[p].alarm_at /\ Interrupts(p, SIGALRM)
            ~> ~Waiting(p, "pause") \/ halted

(* init reaps the shell that died and goes on.                              *)
InitReapsShell ==
    \A p \in Pid :
        init_child = p /\ init_state = "wait_shell" /\ state[p] = "ZOMBIE"
            ~> state[p] = "none" \/ halted

=============================================================================
