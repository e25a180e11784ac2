------------------------------- MODULE MC_Streams -------------------------------
(* A finite instance of Streams: two processes with three descriptors each, *)
(* which pipe, fork, dup, close and exit, on one pipe of two bytes.         *)
EXTENDS Streams

(* Two descriptors for each process, none of them on the terminal: enough   *)
(* for both ends in both processes, or for an end that is held twice.       *)
FewDescriptors ==
    /\ \A p \in Pids : close_on_exec[p] = {} /\ fds[p][2] = None
    /\ \A f \in Files : file[f].obj # Device
=============================================================================
