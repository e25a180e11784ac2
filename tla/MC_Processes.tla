------------------------------ MODULE MC_Processes ------------------------------
(* Finite instances of Processes; the dispositions a cfg may choose from.   *)
EXTENDS Processes

Handler == [Default EXCEPT !.handler = "user"]

Masking == [Handler EXCEPT !.mask = {10, 14} \cap Sigs]
Libc    == [Masking EXCEPT !.magic = FALSE]

NoDispositions == {}
MagicOnly      == {Masking}
MagicAndLibc   == {Masking, Libc}
Minus1         == {-1}
WaitGroups     == {0, -1, -2}
KillGroups     == {0, -1}

FramesBound == \A p \in Pid : Len(task[p].stack) <= 2 /\ Len(task[p].sigframes) <= 2
=============================================================================
