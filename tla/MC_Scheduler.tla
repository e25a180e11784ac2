------------------------------ MODULE MC_Scheduler ------------------------------
(* Finite instances of Scheduler. *)
EXTENDS Scheduler

NoDispositions == {}
MagicOnly      == {[Default EXCEPT !.handler = "user"]}
JustIgnore     == {Ignore}
Minus1         == {-1}

(* Two processes do whatever they can; from the third on all only fork, wait *)
(* and exit.                                                                *)
ManyOnlyWait ==
    next_pid > 3 => \A p \in Procs : /\ task[p].signal \subseteq {SIGCHLD} /\ ~task[p].alarm_at
                                     /\ state[p] # "STOPPED" /\ wait_channel[p] # "pause"
                                     /\ task[p].sigactions[2] = Default

(* Process 2 may ignore signal 2, and is only sent it then; no alarms and   *)
(* stops meanwhile.                                                         *)
TwoIsIgnored ==
    \A p \in Procs : /\ \A s \in Sigs : task[p].sigactions[s] = Ignore => p = 2 /\ s = 2
                     /\ 2 \in task[p].signal => task[p].sigactions[2] = Ignore
                     /\ task[2].sigactions[2] = Ignore =>
                           task[p].signal \subseteq {2, SIGKILL, SIGCHLD} /\ ~task[p].alarm_at /\ state[p] # "STOPPED"
BootBound == ManyOnlyWait /\ TwoIsIgnored
=============================================================================
