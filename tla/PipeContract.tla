------------------------------ MODULE PipeContract ------------------------------
(***************************************************************************)
(* What a pipe promises to the processes that share it: bytes come out in  *)
(* the order they went in, at most Capacity of them wait, end of file is   *)
(* reported over an empty queue only, and once a writer was told that      *)
(* nobody reads any more (EPIPE) no byte is accepted again.  A pipe that   *)
(* nobody holds is forgotten.  Streams implements this.                    *)
(***************************************************************************)
EXTENDS Naturals, Sequences

CONSTANTS Pipes, Capacity, Byte

VARIABLES queue,   \* queue[pp]: the bytes that were accepted and not yet taken
          refused  \* the pipes on which a writer was refused with EPIPE

vars == <<queue, refused>>

(* A write puts some bytes, never more than there is room for. *)
Put(pp) ==
    /\ pp \notin refused
    /\ \E n \in 1 .. Capacity - Len(queue[pp]) : \E bytes \in [1 .. n -> Byte] :
          queue' = [queue EXCEPT ![pp] = @ \o bytes]
    /\ UNCHANGED refused

(* A read takes some bytes from the front. *)
Take(pp) ==
    /\ \E n \in 1 .. Len(queue[pp]) :
          queue' = [queue EXCEPT ![pp] = SubSeq(@, n + 1, Len(@))]
    /\ UNCHANGED refused

Refuse(pp) == refused' = refused \cup {pp} /\ UNCHANGED queue

(* The last holders leave, of one pipe or (an exit) of several. *)
Forget ==
    \E gone \in SUBSET Pipes :
        /\ queue' = [pp \in Pipes |-> IF pp \in gone THEN <<>> ELSE queue[pp]]
        /\ refused' = refused \ gone

Init == queue = [pp \in Pipes |-> <<>>] /\ refused = {}

Next == (\E pp \in Pipes : Put(pp) \/ Take(pp) \/ Refuse(pp)) \/ Forget

Spec == Init /\ [][Next]_vars
=============================================================================
