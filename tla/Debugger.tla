-------------------------------- MODULE Debugger --------------------------------
(***************************************************************************)
(* The debugger in Kernel.run and the commands of the monitor that drive   *)
(* it: breakpoints, `until`, and steps, over the rounds of the loop and    *)
(* the reads of Terminal.  Where nobody debugs, slices are as in Terminal. *)
(*                                                                         *)
(* An address is that of the int 0x80 of a read, or of an instruction that *)
(* may go anywhere.  Who gets a slice is any process that can run.         *)
(***************************************************************************)
EXTENDS Terminal

CONSTANTS Debugged,   \* the setups in which a person debugs
          Addresses,  \* where processes can stand
          CallAt,     \* the address of the int 0x80
          Breakable,  \* where break and until are asked for
          MaxSteps    \* bound: the largest count of a step command

ASSUME DebuggerAssumption ==
    /\ Debugged \subseteq Setups /\ MaxSteps \in Nat
    /\ CallAt \in Addresses /\ Breakable \subseteq Addresses

VARIABLES breakpoints, temp_breakpoints, step_request,
          debug_stop,        \* the kind of stop the monitor is to show
          debug_target_pid,  \* the process --debug pins, or "none"
          current, eip,
          budget,            \* of the slice: "none" outside, "fast", "many", "one", "spent"
          owed,              \* history: steps asked for and neither made nor cut short by a stop
          unseen             \* history: who ran onto a breakpoint since the monitor was entered

debugVars == <<breakpoints, temp_breakpoints, step_request, debug_stop, debug_target_pid,
               current, eip, budget, owed, unseen>>

DebugInit ==
    /\ Init
    /\ breakpoints = {} /\ temp_breakpoints = {} /\ step_request = 0
    /\ debug_stop = "none"
    /\ current \in setup.readers
    /\ debug_target_pid \in IF setup \in Debugged THEN {current, "none"} ELSE {"none"}
    /\ eip = [r \in Readers |-> CallAt]
    /\ budget = "none" /\ owed = 0 /\ unseen = {}

-----------------------------------------------------------------------------
(* The monitor.                                                             *)

CanRun(r) == reader[r] \in {"runs", "reads"}

(* _debug_proc: the pinned process while it is in the table (a zombie may be *)
(* or not), else the current one.  cmd_step wants one that can run.         *)
Shown   == IF debug_target_pid = "none" THEN {current}
           ELSE IF reader[debug_target_pid] = "gone" THEN {current, debug_target_pid}
           ELSE {debug_target_pid}
CanStep == \E r \in Shown : CanRun(r)

(* interact: any number of break and break del, then cont or quit, until,   *)
(* or si with a count.                                                      *)
Interact ==
    /\ Monitor
    /\ debug_stop' = "none"
    /\ breakpoints' \in SUBSET Breakable
    /\ unseen' = {}
    /\ \/ /\ \/ UNCHANGED temp_breakpoints
             \/ /\ ~quit_requested'
                /\ \E a \in Breakable : temp_breakpoints' = temp_breakpoints \cup {a}
          /\ owed' = IF debug_stop = "none" THEN owed ELSE 0
          /\ UNCHANGED step_request
       \/ /\ CanStep /\ ~quit_requested'
          /\ step_request' \in 1 .. MaxSteps
          /\ owed' = step_request'
          /\ UNCHANGED temp_breakpoints
    /\ UNCHANGED <<debug_target_pid, current, eip, budget>>

-----------------------------------------------------------------------------
(* A slice.                                                                 *)

Watched == breakpoints # {} \/ temp_breakpoints # {} \/ step_request > 0
_debug_active == Watched \/ debug_target_pid # "none"
Pinned(r) == debug_target_pid \in {"none", r}

Pick(r) ==
    /\ turn = "slice" /\ pump = NoPump /\ budget = "none" /\ CanRun(r)
    /\ current' = r
    /\ budget' = IF ~Watched THEN "fast" ELSE IF step_request > 0 THEN "one" ELSE "many"
    /\ UNCHANGED <<vars, breakpoints, temp_breakpoints, step_request, debug_stop, debug_target_pid,
                   eip, owed, unseen>>

InSlice(r) == turn = "slice" /\ current = r /\ budget \in {"fast", "many", "one"}

(* _debug_break, or no stop at all (kind = "none") and so many steps left.  *)
(* Mutant: what is left of a step is kept.                                  *)
Breaks_Keeps(kind, left) ==
    step_request' = left /\ debug_stop' = kind

Breaks(kind, left) ==
    step_request' = (IF kind = "none" THEN left ELSE 0) /\ debug_stop' = kind

(* What _run_debug_slice looks at when an instruction has gone to new.      *)
Executed(r, new) ==
    LET steps == step_request > 0 /\ Pinned(r)
        left  == IF steps THEN step_request - 1 ELSE step_request
        kind  == IF budget = "fast"               THEN "none"
                 ELSE IF steps /\ left = 0        THEN "step"
                 ELSE IF new \in temp_breakpoints THEN "until"
                 ELSE IF new \in breakpoints      THEN "break"
                 ELSE "none"
    IN  /\ eip' = [eip EXCEPT ![r] = new]
        /\ Breaks(kind, left)
        /\ temp_breakpoints' = IF kind = "until" THEN temp_breakpoints \ {new} ELSE temp_breakpoints
        /\ budget' = IF kind # "none" \/ budget = "one" THEN "spent" ELSE budget
        /\ owed' = IF steps THEN owed - 1 ELSE owed
        /\ unseen' = IF new \in breakpoints \cup temp_breakpoints THEN unseen \cup {r} ELSE unseen \ {r}
        /\ UNCHANGED <<breakpoints, debug_target_pid, current>>

(* What an exception out of cpu.run does: no look at breakpoints and steps. *)
Leaves(r, kind, new) ==
    /\ eip' = [eip EXCEPT ![r] = new]
    /\ Breaks(IF _debug_active THEN kind ELSE "none", step_request)
    /\ budget' = "spent"
    /\ unseen' = IF kind = "blocked" THEN unseen ELSE unseen \ {r}
    /\ UNCHANGED <<breakpoints, temp_breakpoints, debug_target_pid, current, owed>>

Pending(pending) == monitor_pending' = (pending \/ debug_stop' # "none")

Compute(r) ==
    /\ InSlice(r) /\ pump = NoPump /\ reader[r] = "runs" /\ eip[r] # CallAt
    /\ \E new \in Addresses :
          \/ Executed(r, new)
          \/ \E kind \in {"execve", "sigreturn"} : Leaves(r, kind, new)
    /\ Pending(monitor_pending)
    /\ UNCHANGED <<hostVars, tty, pump, turn, reader, quit_requested, log, delivered>>

(* The exit of a process without a parent ends run at once.                 *)
Exits(r) ==
    /\ InSlice(r) /\ pump = NoPump /\ reader[r] = "runs" /\ eip[r] # CallAt
    /\ Leaves(r, "exited", eip[r])
    /\ reader' = [reader EXCEPT ![r] = "gone"]
    /\ turn' \in {turn, "stopped"}
    /\ Pending(monitor_pending)
    /\ UNCHANGED <<hostVars, tty, pump, quit_requested, log, delivered>>

Reads(r) ==
    /\ InSlice(r) /\ eip[r] = CallAt
    /\ \/ ReadPolls(r) /\ UNCHANGED debugVars
       \/ /\ \E n \in 1 .. 2 : ReadResult(r, n)
          /\ IF reader'[r] = "sleeps" THEN Leaves(r, "blocked", CallAt)
             ELSE \E new \in Addresses : Executed(r, new)
          /\ Pending(Settled.monitor)

(* _deliver_pending, before the slice: a handler, which may be anywhere and *)
(* is not looked at, or the end.                                            *)
Deliver(r) ==
    /\ turn = "slice" /\ pump = NoPump /\ budget = "none" /\ reader[r] # "gone"
    /\ \E new \in Addresses, how \in {"runs", "gone"} :
          /\ eip' = [eip EXCEPT ![r] = new]
          /\ reader' = [reader EXCEPT ![r] = how]
    /\ unseen' = unseen \ {r}
    /\ UNCHANGED <<hostVars, tty, pump, turn, quit_requested, monitor_pending, log, delivered,
                   breakpoints, temp_breakpoints, step_request, debug_stop, debug_target_pid,
                   current, budget, owed>>

DebugSliceEnds ==
    /\ SliceEnds
    /\ budget # "one" /\ (budget = "none" => \A r \in setup.readers : ~CanRun(r))
    /\ budget' = "none"
    /\ UNCHANGED <<breakpoints, temp_breakpoints, step_request, debug_stop, debug_target_pid,
                   current, eip, owed, unseen>>

Debugs ==
    /\ setup \in Debugged
    /\ \/ (Host \/ Stop \/ LoopPolls \/ LoopWakes) /\ UNCHANGED debugVars
       \/ Interact \/ DebugSliceEnds
       \/ \E r \in setup.readers : Pick(r) \/ Compute(r) \/ Exits(r) \/ Reads(r) \/ Deliver(r)

DebugNext == Debugs \/ (setup \notin Debugged /\ Next /\ UNCHANGED debugVars)

allVars == <<vars, debugVars>>
DebugSpec == DebugInit /\ [][DebugNext]_allVars /\ Fairness

-----------------------------------------------------------------------------

(* A stop for a step comes after exactly the steps last asked for, though   *)
(* other processes ran in between, the escape key came, or another stop cut *)
(* them short; nobody who ran onto a breakpoint runs on before the monitor  *)
(* was entered, nor anybody at all between a stop and the monitor           *)
(* (_run_debug_slice, _debug_break, cmd_step).                              *)
StopsWhereAsked ==
    /\ debug_stop = "step" => owed = 0
    /\ \A r \in unseen : ~InSlice(r)
    /\ debug_stop # "none" => \A r \in Readers : ~InSlice(r)
=============================================================================
