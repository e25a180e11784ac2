-------------------------------- MODULE Terminal --------------------------------
(***************************************************************************)
(* The terminal: the keys of a person, or the bytes of a pipe, on their    *)
(* way through HostTerminal and the line discipline (TTY, ktty.py) to the  *)
(* processes that read, with the escape key of the emulator and the turns  *)
(* of the scheduling loop that pump.                                       *)
(*                                                                         *)
(* A byte is named by its place in `typed`.  Echo and output are left out, *)
(* and so are VQUIT (as VINTR), VEOL, NOFLSH and changes of the characters *)
(* themselves.                                                             *)
(***************************************************************************)
EXTENDS Integers, FiniteSets, SequencesExt

CONSTANTS Readers,  \* processes that have the terminal open
          Setups,   \* the back end, who reads, what comes in, what TCSETS* sets; see Setup
          MaxTyped  \* bound: keys typed in all

(* "a" is any other character; behind the escape key it sends that key.     *)
Key  == {"a", "x", "c", "newline", "return", "erase", "kill", "eof", "intr", "susp", "escape"}
Mode == [isig : BOOLEAN, canon : BOOLEAN]   \* ISIG, ICANON
(* The back ends are a console, a pipe read with select, and a pipe read by *)
(* a thread (on Windows).  monitor: --monitor or --debug was given.         *)
Setup == [kind : {"console", "pipe", "thread"}, readers : SUBSET Readers, keys : SUBSET Key,
          modes : SUBSET Mode, monitor : BOOLEAN]
Cooked == [isig |-> TRUE, canon |-> TRUE]

ASSUME TerminalAssumption ==
    /\ Setups \subseteq Setup /\ MaxTyped \in Nat /\ Readers \cap {"loop", "none"} = {}

VARIABLES setup,     \* the one of Setups this is about
          typed,     \* every byte that was typed or written to the pipe
          closed,    \* the pipe has no writer any more
          buffered,  \* how many bytes the reading thread has put into _thread_buf so far
          polled,    \* how many bytes the emulator has taken
          eof,       \* HostTerminal._eof
          tty,       \* TTY: line, ready (places in typed), eof_pending, _escape_armed, termios
          pump,      \* who is in TTY.pump, and the bytes it has taken and not fed yet
          turn,      \* whose turn it is in Kernel.run: "loop", "slice", "stopped"
          reader,    \* what a process does: "runs", "reads" (a read is to be redone), "sleeps"
          quit_requested, monitor_pending,
          log,       \* history: what came to the line discipline, and under which termios
          delivered  \* history: what the processes have read

hostVars == <<setup, typed, closed, buffered, polled, eof>>
vars == <<hostVars, tty, pump, turn, reader, quit_requested, monitor_pending, log, delivered>>

NoPump == [by |-> "none", batch |-> <<>>]

Init ==
    /\ setup \in Setups /\ typed = <<>> /\ closed = FALSE
    /\ buffered = 0 /\ polled = 0 /\ eof = FALSE
    /\ tty = [line |-> <<>>, ready |-> <<>>, eof_pending |-> FALSE, armed |-> FALSE, termios |-> Cooked]
    /\ pump = NoPump /\ turn = "loop"
    /\ reader = [r \in Readers |-> "runs"]
    /\ quit_requested = FALSE /\ monitor_pending = setup.monitor
    /\ log = <<>> /\ delivered = <<>>

-----------------------------------------------------------------------------
(* The line discipline: TTY._feed_cooked for one byte, key at place k. *)

(* Mutant: the line that is being edited survives.                          *)
Flushed_Ready(t) == [t EXCEPT !.ready = <<>>]

Flushed(t) == [t EXCEPT !.line = <<>>, !.ready = <<>>]

Commit(t, bytes) == [t EXCEPT !.ready = @ \o t.line \o bytes, !.line = <<>>]

(* TTY.post_signal is never set by the emulator: a key that is to send a    *)
(* signal does nothing but flush.                                           *)
FeedCooked(t, k, key) ==
    IF t.termios.isig /\ key = "intr" THEN Flushed(t)
    ELSE IF t.termios.isig /\ key = "susp" THEN t
    ELSE IF ~t.termios.canon THEN [t EXCEPT !.ready = Append(@, k)]
    ELSE CASE key = "erase" -> [t EXCEPT !.line = IF @ = <<>> THEN @ ELSE Front(@)]
           [] key = "kill"  -> [t EXCEPT !.line = <<>>]
           [] key = "eof"   -> IF t.line = <<>> THEN [t EXCEPT !.eof_pending = TRUE] ELSE Commit(t, <<>>)
           [] key \in {"newline", "return"} -> Commit(t, <<k>>)
           [] OTHER -> [t EXCEPT !.line = Append(@, k)]

(* _strip_escapes and on_escape, on everything they change.                 *)
Feed(s, k) ==
    LET key == typed[k]
        Cook(t, c) == [s EXCEPT !.tty = FeedCooked([t EXCEPT !.armed = FALSE], k, c),
                                !.log = Append(@, [key |-> c, place |-> k, termios |-> t.termios])]
    IN  IF ~s.tty.armed
        THEN IF key = "escape" THEN [s EXCEPT !.tty.armed = TRUE] ELSE Cook(s.tty, key)
        ELSE IF key \in {"escape", "a"} THEN Cook(s.tty, "escape")
        ELSE [s EXCEPT !.tty.armed = FALSE, !.quit = @ \/ key = "x", !.monitor = @ \/ key = "c"]

(* The bytes of a batch, one after the other.                               *)
FedInto(s, batch) ==
    LET after[n \in 0 .. Len(batch)] == IF n = 0 THEN s ELSE Feed(after[n - 1], batch[n])
    IN  after[Len(batch)]

(* Mutant: the escape key counts only when its command comes with it.       *)
Fed_Forgets(batch) ==
    FedInto([tty |-> [tty EXCEPT !.armed = FALSE], quit |-> quit_requested,
             monitor |-> monitor_pending, log |-> log], batch)

Fed(batch) ==
    FedInto([tty |-> tty, quit |-> quit_requested, monitor |-> monitor_pending, log |-> log], batch)

-----------------------------------------------------------------------------
(* The host. *)

Type(key) ==
    /\ ~closed /\ Len(typed) < MaxTyped
    /\ typed' = Append(typed, key)
    /\ UNCHANGED <<setup, closed, buffered, polled, eof>>

CloseInput ==
    /\ setup.kind # "console" /\ ~closed
    /\ closed' = TRUE
    /\ UNCHANGED <<setup, typed, buffered, polled, eof>>

(* The reading thread, beside everything else. *)
ThreadReads ==
    /\ setup.kind = "thread" /\ ~eof
    /\ IF buffered < Len(typed) THEN buffered' = buffered + 1 /\ UNCHANGED eof
       ELSE closed /\ eof' = TRUE /\ UNCHANGED buffered
    /\ UNCHANGED <<setup, typed, closed, polled>>

Host == (CloseInput \/ (\E key \in setup.keys : Type(key)) \/ ThreadReads)
        /\ UNCHANGED <<tty, pump, turn, reader, quit_requested, monitor_pending, log, delivered>>

(* at_eof, between the poll and the feed.                                   *)
(* Mutant: what the thread has put into its buffer is forgotten.            *)
AtEof_Unread == setup.kind # "console" /\ eof

AtEof == setup.kind # "console" /\ eof /\ (setup.kind = "thread" => buffered = polled)

-----------------------------------------------------------------------------
(* TTY.pump in two steps, as the thread may come between: poll_input ...    *)
Available == IF setup.kind = "thread" THEN buffered ELSE Len(typed)

Poll(by) ==
    /\ pump = NoPump
    /\ pump' = [by |-> by, batch |-> [i \in 1 .. Available - polled |-> polled + i]]
    /\ polled' = Available
    /\ eof' = (eof \/ (setup.kind = "pipe" /\ closed /\ polled = Available))
    /\ UNCHANGED <<setup, typed, closed, buffered, tty, turn, quit_requested, monitor_pending, log, delivered>>

(* ... and feed, or the look at the end of the input.                       *)
Settled ==
    LET s == Fed(pump.batch)
    IN  IF pump.batch # <<>> THEN s
        ELSE [s EXCEPT !.tty.eof_pending = @ \/ (AtEof /\ tty.ready = <<>>)]

(* Mutant: only data wake.                                                  *)
Wakes_Data(t) == t.ready # <<>>

Wakes(t) == t.ready # <<>> \/ t.eof_pending

(* One round of Kernel.run: the monitor, the pump, _wake_waiters. *)
Stop ==
    /\ turn = "loop" /\ pump = NoPump /\ quit_requested
    /\ turn' = "stopped"
    /\ UNCHANGED <<hostVars, tty, pump, reader, quit_requested, monitor_pending, log, delivered>>

Monitor ==
    /\ turn = "loop" /\ pump = NoPump /\ ~quit_requested /\ monitor_pending
    /\ monitor_pending' = FALSE
    /\ quit_requested' \in BOOLEAN
    /\ UNCHANGED <<hostVars, tty, pump, turn, reader, log, delivered>>

LoopPolls ==
    /\ turn = "loop" /\ ~quit_requested /\ ~monitor_pending
    /\ Poll("loop") /\ UNCHANGED reader

LoopWakes ==
    /\ pump.by = "loop"
    /\ LET s == Settled
       IN  /\ tty' = s.tty /\ quit_requested' = s.quit /\ monitor_pending' = s.monitor /\ log' = s.log
           /\ reader' = [r \in Readers |-> IF reader[r] = "sleeps" /\ Wakes(s.tty) THEN "reads" ELSE reader[r]]
    /\ pump' = NoPump /\ turn' = "slice"
    /\ UNCHANGED <<hostVars, delivered>>

SliceEnds ==
    /\ turn = "slice" /\ pump = NoPump
    /\ turn' = "loop"
    /\ UNCHANGED <<hostVars, tty, pump, reader, quit_requested, monitor_pending, log, delivered>>

-----------------------------------------------------------------------------
(* The calls of a process. *)

(* sys_read, for at most n bytes. *)
ReadPolls(r) ==
    /\ turn = "slice" /\ reader[r] \in {"runs", "reads"}
    /\ Poll(r) /\ UNCHANGED reader

ReadResult(r, n) ==
    /\ pump.by = r
    /\ LET s == Settled
           t == s.tty
           m == IF n < Len(t.ready) THEN n ELSE Len(t.ready)
       IN  /\ tty' = [t EXCEPT !.ready = SubSeq(@, m + 1, Len(@)), !.eof_pending = @ /\ t.ready # <<>>]
           /\ delivered' = delivered \o SubSeq(t.ready, 1, m)
           /\ reader' = [reader EXCEPT ![r] = IF Wakes(t) THEN "runs" ELSE "sleeps"]
           /\ quit_requested' = s.quit /\ log' = s.log
    /\ pump' = NoPump
    /\ UNCHANGED <<hostVars, turn>>

ReadReturns(r, n) == ReadResult(r, n) /\ monitor_pending' = Settled.monitor

(* TCSETS and TCSETSF.                                                      *)
SetTermios(r, m, flush) ==
    /\ turn = "slice" /\ pump = NoPump /\ reader[r] = "runs"
    /\ LET t == IF flush THEN Flushed(tty) ELSE tty
       IN  tty' = [t EXCEPT !.termios = m]
    /\ log' = IF flush THEN Append(log, [key |-> "flush", place |-> 0, termios |-> m]) ELSE log
    /\ UNCHANGED <<hostVars, pump, turn, reader, quit_requested, monitor_pending, delivered>>

(* A signal from somewhere else ends the sleep.                             *)
Interrupt(r) ==
    /\ turn = "slice" /\ pump = NoPump /\ reader[r] = "sleeps"
    /\ reader' = [reader EXCEPT ![r] = "runs"]
    /\ UNCHANGED <<hostVars, tty, pump, turn, quit_requested, monitor_pending, log, delivered>>

Process(r) == \/ ReadPolls(r) \/ \E n \in 1 .. 2 : ReadReturns(r, n)
              \/ \E m \in setup.modes, flush \in BOOLEAN : SetTermios(r, m, flush)
              \/ Interrupt(r)

Next == Host \/ Stop \/ Monitor \/ LoopPolls \/ LoopWakes \/ SliceEnds \/ \E r \in setup.readers : Process(r)

(* The thread runs, the loop goes round and a call is carried through; a     *)
(* slice ends with its instruction budget, and a woken process gets its turn. *)
Loop == Stop \/ Monitor \/ LoopPolls \/ LoopWakes \/ \E r \in Readers, n \in 1 .. 2 : ReadReturns(r, n)

Fairness ==
    /\ WF_vars(ThreadReads /\ Host) /\ WF_vars(Loop) /\ SF_vars(SliceEnds)
    /\ \A r \in Readers : SF_vars(reader[r] = "reads" /\ ReadPolls(r))

Spec == Init /\ [][Next]_vars /\ Fairness

-----------------------------------------------------------------------------
(* What a typed text means, told from the whole history at once.            *)

Role(e) == IF e.key = "flush" \/ (e.termios.isig /\ e.key = "intr") THEN "flush"
           ELSE IF e.termios.isig /\ e.key = "susp" THEN "nothing"
           ELSE IF ~e.termios.canon                 THEN "raw"
           ELSE IF e.key \in {"newline", "return"}  THEN "end"
           ELSE IF e.key \in {"erase", "kill", "eof"} THEN e.key
           ELSE "char"

(* The character i is rubbed out: at some j of its line a kill stands, or   *)
(* there were more erasures since i than characters.                        *)
RubbedOut(i) ==
    LET role == [j \in DOMAIN log |-> Role(log[j])]
        Count(what, j) == Cardinality({l \in i + 1 .. j : role[l] = what})
    IN  \E j \in i + 1 .. Len(log) :
            /\ \A l \in i .. j - 1 : role[l] \notin {"flush", "raw", "end", "eof", "kill"}
            /\ role[j] = "kill" \/ Count("erase", j) > Count("char", j)

Meant   == {i \in DOMAIN log : \/ Role(log[i]) \in {"raw", "end"}
                               \/ Role(log[i]) = "char" /\ ~RubbedOut(i)}
Kept    == {i \in Meant : \A j \in i + 1 .. Len(log) : Role(log[j]) # "flush"}
Places(S) == {log[i].place : i \in S}

(* Programs leave canonical mode between two lines.  (In the middle of one, *)
(* what was typed of it comes behind what is typed after it.)               *)
BetweenLines == ~tty.termios.canon => tty.line = <<>>

(* What programs get is what was typed and not rubbed out or flushed, in    *)
(* that order, each byte once: through the two buffers of TTY, whatever the *)
(* mode, and whoever reads.                                                 *)
ReadsWhatWasTyped ==
    LET all == delivered \o tty.ready \o tty.line
    IN  /\ \A i, j \in DOMAIN all : i < j => all[i] < all[j]
        /\ Range(delivered) \subseteq Places(Meant)
        /\ Range(tty.ready \o tty.line) = Places(Kept) \ Range(delivered)

(* The end of a pipe is seen after everything that was in it (at_eof), also *)
(* when the thread that reads it comes between the poll and the look.       *)
EofIsLast ==
    tty.eof_pending /\ (\A k \in 1 .. polled : typed[k] # "eof") =>
        closed /\ polled = Len(typed) /\ tty.ready = <<>>

(* Nobody sleeps for ever on input that is used up, however many wait: one  *)
(* flag (eof_pending) serves them all.                                      *)
ExhaustedInputReturns ==
    \A r \in Readers : closed /\ reader[r] = "sleeps" ~> reader[r] = "runs" \/ turn = "stopped"

(* The key k is the command behind an escape key: it follows an odd number  *)
(* of them.                                                                 *)
IsCommand(k) ==
    \E j \in 1 .. k - 1 :
        /\ \A l \in j .. k - 1 : typed[l] = "escape"
        /\ j = 1 \/ typed[j - 1] # "escape"
        /\ (k - j) % 2 = 1

(* The escape key and x end the emulator, in any mode, in one piece or two, *)
(* whether anybody reads or not ("also when bash has raw mode").            *)
EscapeHeeded == (\E k \in DOMAIN typed : typed[k] = "x" /\ IsCommand(k)) ~> turn = "stopped"

(* The interrupt key ends the sleep of whoever reads: it "is sent to the    *)
(* foreground process group".                                               *)
InterruptEndsSleep ==
    \A r \in Readers :
        reader[r] = "sleeps" /\ log # <<>> /\ Last(log).key = "intr" /\ Last(log).termios.isig
            ~> reader[r] # "sleeps" \/ turn = "stopped"
=============================================================================
