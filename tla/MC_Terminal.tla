------------------------------ MODULE MC_Terminal ------------------------------
(* Finite instances of Terminal. *)
EXTENDS Debugger

Raw       == [isig |-> FALSE, canon |-> FALSE]

(* Two processes under the debugger; a person's keys for one process, in    *)
(* one mode and in two; and input that ends, for two processes.             *)
Debugging == [kind |-> "console", readers |-> Readers, keys |-> {"escape", "c", "newline"}, modes |-> {},
              monitor |-> TRUE]
SetupsMC == {Debugging,
             [kind |-> "console", readers |-> {"r1"}, keys |-> {"a", "newline", "erase", "kill", "eof", "intr"}, modes |-> {Cooked}, monitor |-> FALSE],
             [kind |-> "console", readers |-> {"r1"}, keys |-> {"x", "c", "escape"}, modes |-> {Cooked, Raw}, monitor |-> FALSE],
             [kind |-> "pipe", readers |-> Readers, keys |-> {"a", "newline"}, modes |-> {}, monitor |-> FALSE],
             [kind |-> "thread", readers |-> Readers, keys |-> {"a", "newline"}, modes |-> {}, monitor |-> FALSE]}

JustDebugging == {Debugging}
Nobody        == {}

JustKeys == {[kind |-> "console", readers |-> {"r1"}, keys |-> {"intr"}, modes |-> {}, monitor |-> FALSE]}

(* Whoever debugs types a line, or the escape key and c once.               *)
DebugKeys    == setup \in Debugged => typed \in {<<>>, <<"newline">>, <<"escape">>, <<"escape", "c">>}
LogBound     == Len(log) <= MaxTyped
=============================================================================
