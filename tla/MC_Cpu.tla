--------------------------------- MODULE MC_Cpu ---------------------------------
(* A finite instance of Cpu: a memory of 40 bytes with words of two, a      *)
(* program of three bytes of text and two of data and a script for it, and   *)
(* operands of three bits.                                                  *)
EXTENDS Cpu

Program == <<1>>
Script  == <<3>>

TwoFiles ==
    Program :> [kind |-> "aout", executable |-> TRUE, valid |-> TRUE,
                text |-> <<1, 5, 2>>, data |-> <<3>>, bss |-> 1] @@
    Script  :> [kind |-> "script", interp |-> Program, arg |-> <<4>>]

OnePrefix == {2}
Lengths   == [b \in Byte \ OnePrefix |-> IF b = 1 THEN 2 ELSE 1]
TwoCalls  == {[path |-> Script,  argv |-> <<>>, envp |-> << <<4, 3>> >>],
              [path |-> Program, argv |-> <<Program, <<5, 5>>>>, envp |-> <<>>]}
SomeData  == {<<2>>, <<1, 0>>}

ProcSymmetry == Permutations(Procs)

(* While two processes run, none of them calls brk or execve, and only one  *)
(* has anything in its cache, or both have the same.                        *)
Both == \A p \in Procs : Running(p)
CallsComeBeforeFork ==
    Both /\ Both' => \A p \in Procs : /\ LowEnd(space[p])' = LowEnd(space[p]) /\ space[p].brk' = space[p].brk
                                      /\ given[p].stores' >= given[p].stores
OneCache ==
    Both => \A p, q \in Procs : p # q =>
        \/ space[p].icache = space[q].icache
        \/ \A i \in DOMAIN space[p].icache : space[p].icache[i] = None
        \/ \A i \in DOMAIN space[q].icache : space[q].icache[i] = None

(* What is computed in registers does not depend on memory: the one is      *)
(* explored while the other is as in the beginning, but for the direction.  *)
Resting  == lo = 0 /\ hi = 0 /\ flags \subseteq {"DF"}
Unloaded == \E p \in Procs : Live(p) /\ ~Running(p)

MCNext ==
    \/ Resting /\ InMemory /\ CallsComeBeforeFork /\ OneCache' /\ HeapBelowStack' /\ ShortInstructions'
    \/ Resting /\ ~Both /\ Direction /\ UNCHANGED memVars
    \/ Unloaded /\ Compute
MCSpec == Init /\ [][MCNext]_vars
=============================================================================
