---------------------------- MODULE Terminal_proofs ----------------------------
(***************************************************************************)
(* Proofs about Terminal and Debugger, for any set-ups, any readers, any   *)
(* number of keys, any addresses, breakpoints and step counts: the end of  *)
(* a pipe is seen after everything that was in it; programs read what was  *)
(* typed and not rubbed out or flushed, once and in that order; a stop is  *)
(* made where it was asked for, and nobody runs between a stop and the     *)
(* monitor.                                                                *)
(***************************************************************************)
EXTENDS Debugger, Counting, SequenceTheorems, FiniteSetTheorems, TLAPS

-----------------------------------------------------------------------------
(* Feeding.                                                                 *)

Fields    == {"line", "ready", "eof_pending", "armed", "termios"}
Shape(t)  == DOMAIN t = Fields
Fed1(s)   == DOMAIN s = {"tty", "quit", "monitor", "log"} /\ Shape(s.tty)

(* u tells the same of the end of the input as s does, under condition.     *)
SameEnd(s, u, condition) ==
    Fed1(u) /\ (condition => u.tty.eof_pending = s.tty.eof_pending)

(* A key that is not VEOF says nothing about the end.                       *)
LEMMA CookedEnd ==
    ASSUME NEW t, Shape(t), NEW k, NEW key
    PROVE  /\ Shape(FeedCooked(t, k, key))
           /\ key # "eof" => FeedCooked(t, k, key).eof_pending = t.eof_pending
<1> DEFINE line == IF t.line = <<>> THEN t.line ELSE Front(t.line)
           erased == [t EXCEPT !.line = line]
           killed == [t EXCEPT !.line = <<>>]
           raw    == [t EXCEPT !.ready = Append(t.ready, k)]
           longer == [t EXCEPT !.line = Append(t.line, k)]
           ended  == [t EXCEPT !.eof_pending = TRUE]
           Same(u) == Shape(u) /\ u.eof_pending = t.eof_pending
<1>1. Same(Flushed(t))
  BY DEF Flushed, Shape, Fields
<1>2. \A bytes : Same(Commit(t, bytes))
  BY DEF Commit, Shape, Fields
<1>3. \A x : Same([t EXCEPT !.line = x]) /\ Same([t EXCEPT !.ready = x])
  BY DEF Shape, Fields
<1>4. Same(erased) /\ Same(killed) /\ Same(raw) /\ Same(longer) /\ Same(t)
  <2> HIDE DEF Same
  <2>1. Same(t)
    BY DEF Same
  <2> QED BY <1>3, <2>1
<1>5. Shape(ended)
  BY DEF Shape, Fields
<1>6. \/ FeedCooked(t, k, key) \in {Flushed(t), t, raw, erased, killed, Commit(t, <<k>>), longer}
      \/ key = "eof" /\ FeedCooked(t, k, key) \in {ended, Commit(t, <<>>)}
  BY DEF FeedCooked
<1> HIDE DEF erased, killed, raw, longer, ended
<1> QED BY <1>1, <1>2, <1>4, <1>5, <1>6

(* One byte.                                                                *)
LEMMA FeedEnd ==
    ASSUME NEW s, Fed1(s), NEW k
    PROVE  SameEnd(s, Feed(s, k), typed[k] # "eof")
<1> DEFINE key == typed[k]
           bare == [s.tty EXCEPT !.armed = FALSE]
           Cook(c) == [s EXCEPT !.tty = FeedCooked(bare, k, c),
                                !.log = Append(s.log, [key |-> c, place |-> k, termios |-> s.tty.termios])]
           gone == [s EXCEPT !.tty.armed = FALSE, !.quit = @ \/ key = "x", !.monitor = @ \/ key = "c"]
           held == [s EXCEPT !.tty.armed = TRUE]
<1>1. Feed(s, k) \in {Cook("escape"), gone, held, Cook(key)}
  BY DEF Feed
<1>2. Shape(bare) /\ bare.eof_pending = s.tty.eof_pending
  BY DEF Fed1, Shape, Fields
<1> HIDE DEF bare
<1>3. ASSUME NEW c PROVE SameEnd(s, Cook(c), c # "eof")
  <2>1. /\ Shape(FeedCooked(bare, k, c))
        /\ c # "eof" => FeedCooked(bare, k, c).eof_pending = s.tty.eof_pending
    BY <1>2, CookedEnd
  <2> QED BY <2>1 DEF SameEnd, Fed1
<1>4. SameEnd(s, gone, TRUE) /\ SameEnd(s, held, TRUE)
  BY DEF SameEnd, Fed1, Shape, Fields
<1> HIDE DEF Cook, gone, held
<1>5. SameEnd(s, Cook("escape"), "escape" # "eof") /\ SameEnd(s, Cook(key), key # "eof")
  BY <1>3
<1> QED BY <1>1, <1>4, <1>5 DEF SameEnd

(* Any number of bytes: the recursion of FedInto, as far as n bytes.        *)
FedUpTo(s, batch, n, f) ==
    f = [i \in 0 .. n |-> IF i = 0 THEN s ELSE Feed(f[i - 1], batch[i])]

(* FedInto is the last value of its recursive function.                     *)
LEMMA FedIntoUnfolds ==
    ASSUME NEW s, NEW batch \in Seq(Nat)
    PROVE  \E f : FedUpTo(s, batch, Len(batch), f) /\ FedInto(s, batch) = f[Len(batch)]
<1> DEFINE N == Len(batch)
           S == {n \in 0 .. N : \E f : FedUpTo(s, batch, n, f)}
<1>1. N \in Nat
  BY LenProperties
<1>2. 0 \in S
  <2> DEFINE f == [i \in 0 .. 0 |-> s]
  <2>1. \A i \in 0 .. 0 : i = 0
    OBVIOUS
  <2>2. FedUpTo(s, batch, 0, f)
    BY <2>1 DEF FedUpTo
  <2> HIDE DEF f
  <2> QED BY <1>1, <2>2
<1>3. ASSUME NEW n \in 0 .. N, n \in S, n < N PROVE n + 1 \in S
  <2>1. PICK f : FedUpTo(s, batch, n, f)
    BY <1>3
  <2> DEFINE g == [i \in 0 .. n + 1 |-> IF i <= n THEN f[i] ELSE Feed(f[n], batch[n + 1])]
             h == [i \in 0 .. n + 1 |-> IF i = 0 THEN s ELSE Feed(g[i - 1], batch[i])]
  <2>2. ASSUME NEW i \in 0 .. n + 1 PROVE g[i] = IF i = 0 THEN s ELSE Feed(g[i - 1], batch[i])
    <3>1. CASE i <= n
      <4>1. i \in 0 .. n /\ g[i] = f[i] /\ f[i] = IF i = 0 THEN s ELSE Feed(f[i - 1], batch[i])
        BY <3>1, <2>1 DEF FedUpTo
      <4>2. i # 0 => i - 1 \in 0 .. n + 1 /\ i - 1 <= n
        BY <3>1
      <4> QED BY <4>1, <4>2
    <3>2. CASE i = n + 1
      <4>1. i # 0 /\ ~(i <= n) /\ i - 1 = n /\ n \in 0 .. n + 1 /\ n <= n
        BY <3>2
      <4> QED BY <4>1, <3>2
    <3> QED BY <3>1, <3>2
  <2>3. g = h
    BY <2>2
  <2>4. FedUpTo(s, batch, n + 1, g)
    BY <2>3 DEF FedUpTo
  <2> HIDE DEF g
  <2> QED BY <2>4, <1>3, <1>1
<1>4. N \in S
  <2> HIDE DEF S, N
  <2>1. \A n \in 0 .. N : n \in S
    BY <1>1, <1>2, <1>3, CountUp
  <2> QED BY <1>1, <2>1
<1> DEFINE after == CHOOSE f : FedUpTo(s, batch, N, f)
<1>5. FedUpTo(s, batch, N, after)
  BY <1>4
<1>6. FedInto(s, batch) = after[N]
  BY DEF FedInto, FedUpTo
<1> QED BY <1>5, <1>6

(* A batch without the end-of-file key leaves the flag as it was            *)
(* (HostTerminal, TTY.feed).                                                *)
LEMMA FedIntoEnd ==
    ASSUME NEW s, Fed1(s), NEW batch \in Seq(Nat)
    PROVE  /\ SameEnd(s, FedInto(s, batch), \A i \in DOMAIN batch : typed[batch[i]] # "eof")
           /\ batch = <<>> => FedInto(s, batch) = s
<1> DEFINE N == Len(batch)
           plain == \A i \in DOMAIN batch : typed[batch[i]] # "eof"
<1>1. N \in Nat /\ DOMAIN batch = 1 .. N /\ (batch = <<>> => N = 0)
  BY LenProperties
<1>2. PICK f : FedUpTo(s, batch, N, f) /\ FedInto(s, batch) = f[N]
  BY FedIntoUnfolds
<1> HIDE DEF N
<1> DEFINE S == {n \in 0 .. N : SameEnd(s, f[n], plain)}
<1>3. \A i \in 0 .. N : f[i] = IF i = 0 THEN s ELSE Feed(f[i - 1], batch[i])
  BY <1>2 DEF FedUpTo
<1>4. f[0] = s /\ 0 \in S
  BY <1>1, <1>3 DEF SameEnd
<1>5. ASSUME NEW n \in 0 .. N, n \in S, n < N PROVE n + 1 \in S
  <2>1. n + 1 \in 0 .. N /\ n + 1 # 0 /\ (n + 1) - 1 = n /\ n + 1 \in DOMAIN batch
    BY <1>1, <1>5
  <2>2. f[n + 1] = Feed(f[n], batch[n + 1])
    BY <1>3, <2>1
  <2>3. SameEnd(f[n], Feed(f[n], batch[n + 1]), typed[batch[n + 1]] # "eof")
    BY <1>5, FeedEnd DEF SameEnd
  <2>4. plain => typed[batch[n + 1]] # "eof"
    BY <2>1
  <2> HIDE DEF plain
  <2> QED BY <1>5, <2>1, <2>2, <2>3, <2>4 DEF SameEnd
<1>6. N \in S
  <2> HIDE DEF S
  <2>1. \A n \in 0 .. N : n \in S
    BY <1>1, <1>4, <1>5, CountUp
  <2> QED BY <1>1, <2>1
<1> QED BY <1>1, <1>2, <1>4, <1>6

-----------------------------------------------------------------------------
(* The end of the input.                                                    *)

(* What the host knows of the end, and what the emulator has of the input.  *)
HostTypes ==
    /\ setup \in Setup /\ typed \in Seq(Key)
    /\ polled \in Nat /\ buffered \in Nat
    /\ buffered <= Len(typed) /\ polled <= Available
    /\ pump.batch \in Seq(Nat)
    /\ \A i \in DOMAIN pump.batch : pump.batch[i] \in 1 .. polled
    /\ Shape(tty)

(* The host has met the end of the input.                                   *)
EndMet ==
    setup.kind # "console" /\ eof =>
        closed /\ (IF setup.kind = "thread" THEN buffered = Len(typed) ELSE polled = Len(typed))

(* eof_pending, when no key set it: everything was in the buffers and read. *)
NoEofKey == \A k \in 1 .. polled : typed[k] # "eof"
AtTheEnd ==
    tty.eof_pending /\ NoEofKey =>
        closed /\ polled = Len(typed) /\ tty.ready = <<>> /\ pump.batch = <<>>

EInv == HostTypes /\ EndMet /\ AtTheEnd

(* What the host, the emulator and the keys are made of.                    *)
LEMMA HostFacts ==
    ASSUME HostTypes
    PROVE  /\ setup.kind \in {"console", "pipe", "thread"} /\ setup.keys \subseteq Key
           /\ setup.modes \subseteq Mode
           /\ Len(typed) \in Nat /\ DOMAIN typed = 1 .. Len(typed)
           /\ Available \in Nat /\ Available <= Len(typed)
BY LenProperties DEF HostTypes, Setup, Available

(* A person types, a writer closes the pipe, the thread reads.              *)
LEMMA HostStep ==
    ASSUME EInv, Host
    PROVE  EInv'
<1>0. HostTypes /\ EndMet /\ AtTheEnd
  BY DEF EInv
<1>1. UNCHANGED <<setup, polled, tty, pump>>
  BY DEF Host, CloseInput, Type, ThreadReads
<1>2. CASE CloseInput
  <2>1. UNCHANGED <<typed, buffered, eof>> /\ closed'
    BY <1>2 DEF CloseInput
  <2> QED BY <1>0, <1>1, <2>1 DEF EInv, HostTypes, Available, EndMet, AtTheEnd, NoEofKey
<1>3. ASSUME NEW key \in setup.keys, Type(key) PROVE EInv'
  <2>1. UNCHANGED <<closed, buffered, eof>> /\ ~closed /\ typed' = Append(typed, key)
    BY <1>3 DEF Type
  <2>2. /\ typed' \in Seq(Key) /\ Len(typed') = Len(typed) + 1
        /\ \A k \in 1 .. Len(typed) : typed'[k] = typed[k]
    BY <1>0, <2>1, HostFacts, AppendProperties DEF HostTypes
  <2>3. HostTypes'
    BY <1>0, <1>1, <2>1, <2>2, HostFacts DEF HostTypes, Available
  <2>4. NoEofKey' => NoEofKey
    <3>1. \A k \in 1 .. polled : k \in 1 .. Len(typed)
      BY <1>0, HostFacts DEF HostTypes
    <3> QED BY <1>1, <2>2, <3>1 DEF NoEofKey
  <2> QED BY <1>0, <1>1, <2>1, <2>3, <2>4 DEF EInv, EndMet, AtTheEnd
<1>4. CASE ThreadReads
  <2>1. UNCHANGED <<typed, closed>> /\ setup.kind = "thread" /\ ~eof
        /\ \/ buffered < Len(typed) /\ buffered' = buffered + 1 /\ UNCHANGED eof
           \/ ~(buffered < Len(typed)) /\ closed /\ eof' /\ UNCHANGED buffered
    BY <1>4 DEF ThreadReads
  <2>2. HostTypes'
    BY <1>0, <1>1, <2>1, HostFacts DEF HostTypes, Available
  <2>3. EndMet'
    <3>1. ~(buffered < Len(typed)) => buffered = Len(typed)
      BY <1>0, HostFacts DEF HostTypes
    <3> QED BY <1>0, <1>1, <2>1, <3>1 DEF EndMet
  <2>4. AtTheEnd'
    BY <1>0, <1>1, <2>1 DEF AtTheEnd, NoEofKey
  <2> QED BY <2>2, <2>3, <2>4 DEF EInv
<1> QED BY <1>2, <1>3, <1>4 DEF Host

(* The emulator polls.                                                      *)
LEMMA PollStep ==
    ASSUME EInv, NEW by, Poll(by)
    PROVE  EInv'
<1>0. HostTypes /\ EndMet /\ AtTheEnd
  BY DEF EInv
<1> DEFINE batch == [i \in 1 .. Available - polled |-> polled + i]
<1>1. /\ pump'.batch = batch
      /\ polled' = Available
      /\ eof' = (eof \/ (setup.kind = "pipe" /\ closed /\ polled = Available))
      /\ UNCHANGED <<setup, typed, closed, buffered, tty>>
  BY DEF Poll
<1>2. /\ Available' = Available /\ Available \in Nat /\ polled \in Nat /\ polled <= Available
      /\ Available <= Len(typed) /\ Len(typed) \in Nat /\ Available - polled \in Nat
  BY <1>0, <1>1, HostFacts DEF HostTypes, Available
<1>3. batch \in Seq(Nat) /\ DOMAIN batch = 1 .. Available - polled
      /\ \A i \in DOMAIN batch : batch[i] \in 1 .. Available
  <2>1. \A i \in 1 .. Available - polled : polled + i \in Nat /\ polled + i \in 1 .. Available
    BY <1>2
  <2> QED BY <1>2, <2>1, IsASeq
<1>4. polled = Available => batch = <<>>
  BY <1>2, <1>3
<1> HIDE DEF batch
<1>5. HostTypes'
  BY <1>0, <1>1, <1>2, <1>3 DEF HostTypes
<1>6. EndMet'
  <2>1. setup.kind \in {"console", "pipe", "thread"}
    BY <1>0, HostFacts
  <2>2. setup.kind # "thread" => Available = Len(typed)
    BY DEF Available
  <2> QED BY <1>0, <1>1, <1>2, <2>1, <2>2 DEF EndMet
<1>7. AtTheEnd'
  <2>1. NoEofKey' => NoEofKey
    BY <1>1, <1>2 DEF NoEofKey
  <2> QED BY <1>0, <1>1, <1>2, <1>4, <2>1 DEF AtTheEnd
<1> QED BY <1>5, <1>6, <1>7 DEF EInv

(* What was polled is fed, or the end of the input is looked at.            *)
LEMMA SettledEnd ==
    ASSUME EInv
    PROVE  /\ Fed1(Settled)
           /\ Settled.tty.eof_pending /\ NoEofKey =>
                  closed /\ polled = Len(typed) /\ Settled.tty.ready = <<>>
<1>0. HostTypes /\ EndMet /\ AtTheEnd
  BY DEF EInv
<1> DEFINE s == [tty |-> tty, quit |-> quit_requested, monitor |-> monitor_pending, log |-> log]
           f == FedInto(s, pump.batch)
           u == [f EXCEPT !.tty.eof_pending = @ \/ (AtEof /\ tty.ready = <<>>)]
<1>1. Fed1(s) /\ s.tty = tty
  BY <1>0 DEF HostTypes, Fed1
<1>2. Fed(pump.batch) = f
  BY DEF Fed
<1> HIDE DEF s
<1>3. /\ SameEnd(s, f, \A i \in DOMAIN pump.batch : typed[pump.batch[i]] # "eof")
      /\ pump.batch = <<>> => f = s
  BY <1>0, <1>1, FedIntoEnd DEF HostTypes
<1>4. Settled = IF pump.batch # <<>> THEN f ELSE u
  BY <1>2 DEF Settled
<1> HIDE DEF f
<1>5. CASE pump.batch # <<>>
  <2>1. NoEofKey => \A i \in DOMAIN pump.batch : typed[pump.batch[i]] # "eof"
    BY <1>0 DEF HostTypes, NoEofKey
  <2>2. NoEofKey => f.tty.eof_pending = tty.eof_pending
    BY <1>1, <1>3, <2>1 DEF SameEnd
  <2> QED BY <1>0, <1>3, <1>4, <1>5, <2>2 DEF SameEnd, AtTheEnd
<1>6. CASE pump.batch = <<>>
  <2>1. /\ Fed1(u) /\ u.tty.ready = tty.ready
        /\ u.tty.eof_pending = (tty.eof_pending \/ (AtEof /\ tty.ready = <<>>))
    BY <1>1, <1>3, <1>6 DEF Fed1, Shape, Fields
  <2>2. AtEof => closed /\ polled = Len(typed)
    BY <1>0 DEF AtEof, EndMet
  <2> HIDE DEF u
  <2> QED BY <1>0, <1>4, <1>6, <2>1, <2>2 DEF AtTheEnd
<1> QED BY <1>5, <1>6

(* The pump ends, in the loop or in a call.                                 *)
LEMMA SettleStep ==
    ASSUME EInv, NEW r, NEW n \in 1 .. 2, LoopWakes \/ ReadResult(r, n)
    PROVE  EInv'
<1>0. HostTypes /\ EndMet /\ AtTheEnd
  BY DEF EInv
<1>1. UNCHANGED hostVars /\ pump' = NoPump
  BY DEF LoopWakes, ReadResult
<1>2. Shape(Settled.tty) /\ pump'.batch = <<>> /\ <<>> \in Seq(Nat) /\ DOMAIN <<>> = {}
  BY <1>1, SettledEnd DEF Fed1, NoPump
<1>3. /\ Shape(tty')
      /\ tty'.eof_pending => Settled.tty.eof_pending
      /\ Settled.tty.ready = <<>> => tty'.ready = <<>>
  <2>1. CASE LoopWakes
    BY <2>1, <1>2 DEF LoopWakes
  <2>2. CASE ReadResult(r, n)
    <3> DEFINE t == Settled.tty
               m == IF n < Len(t.ready) THEN n ELSE Len(t.ready)
    <3>1. tty' = [t EXCEPT !.ready = SubSeq(t.ready, m + 1, Len(t.ready)),
                           !.eof_pending = t.eof_pending /\ t.ready # <<>>]
      BY <2>2 DEF ReadResult
    <3>2. Shape(t)
      BY <1>2
    <3> HIDE DEF t
    <3>3. t.ready = <<>> => SubSeq(t.ready, m + 1, Len(t.ready)) = <<>>
      <4>1. t.ready = <<>> => Len(t.ready) = 0 /\ m + 1 \in Int /\ Len(t.ready) < m + 1
        BY <2>2
      <4> QED BY <4>1, SubSeqEmpty
    <3>4. Shape(tty') /\ (tty'.eof_pending => t.eof_pending) /\ (t.ready = <<>> => tty'.ready = <<>>)
      BY <3>1, <3>2, <3>3 DEF Shape, Fields
    <3> QED BY <3>4 DEF t
  <2> QED BY <2>1, <2>2
<1>4. HostTypes'
  BY <1>0, <1>1, <1>2, <1>3 DEF HostTypes, hostVars, Available
<1>5. EndMet'
  BY <1>0, <1>1 DEF EndMet, hostVars
<1>6. AtTheEnd'
  <2>1. UNCHANGED <<closed, polled, typed, NoEofKey>>
    BY <1>1 DEF NoEofKey, hostVars
  <2> QED BY <1>2, <1>3, <2>1, SettledEnd DEF AtTheEnd
<1> QED BY <1>4, <1>5, <1>6 DEF EInv

(* A process sets the modes.                                                *)
LEMMA TermiosStep ==
    ASSUME EInv, NEW r, NEW m, NEW flush, SetTermios(r, m, flush)
    PROVE  EInv'
<1>0. HostTypes /\ EndMet /\ AtTheEnd
  BY DEF EInv
<1>1. UNCHANGED <<hostVars, pump>>
  BY DEF SetTermios
<1>2. /\ Shape(tty') /\ tty'.eof_pending = tty.eof_pending
      /\ tty.ready = <<>> => tty'.ready = <<>>
  <2> DEFINE t == IF flush THEN Flushed(tty) ELSE tty
  <2>1. tty' = [t EXCEPT !.termios = m]
    BY DEF SetTermios
  <2>2. Shape(t) /\ t.eof_pending = tty.eof_pending /\ (tty.ready = <<>> => t.ready = <<>>)
    <3>1. CASE flush
      <4>1. t = Flushed(tty)
        BY <3>1
      <4> HIDE DEF t
      <4> QED BY <4>1, <1>0 DEF Flushed, HostTypes, Shape, Fields
    <3>2. CASE ~flush
      BY <3>2, <1>0 DEF HostTypes
    <3> QED BY <3>1, <3>2
  <2> HIDE DEF t
  <2> QED BY <2>1, <2>2 DEF Shape, Fields
<1>3. HostTypes'
  BY <1>0, <1>1, <1>2 DEF HostTypes, hostVars, Available
<1> QED BY <1>0, <1>1, <1>2, <1>3 DEF EInv, EndMet, AtTheEnd, NoEofKey, hostVars

(* What touches neither the host nor the terminal.                          *)
LEMMA OtherStep ==
    ASSUME EInv, UNCHANGED <<hostVars, tty, pump>>
    PROVE  EInv'
BY DEF EInv, HostTypes, EndMet, AtTheEnd, NoEofKey, Available, hostVars

(* EInv holds when the emulator starts.                                     *)
LEMMA EndAtFirst ==
    ASSUME Init
    PROVE  EInv
<1>1. setup \in Setup
  BY TerminalAssumption DEF Init
<1>2. /\ typed = <<>> /\ Len(typed) = 0 /\ buffered = 0 /\ polled = 0 /\ ~eof
      /\ pump.batch = <<>> /\ ~tty.eof_pending /\ Shape(tty)
  BY DEF Init, NoPump, Shape, Fields
<1>3. HostTypes
  BY <1>1, <1>2 DEF HostTypes, Available
<1> QED BY <1>2, <1>3 DEF EInv, EndMet, AtTheEnd

(* Every step of the terminal keeps EInv.                                   *)
LEMMA EndKept ==
    ASSUME EInv, Next
    PROVE  EInv'
<1>1. CASE Host
  BY <1>1, HostStep
<1>2. CASE Stop \/ Monitor \/ SliceEnds
  BY <1>2, OtherStep DEF Stop, Monitor, SliceEnds
<1>3. CASE LoopPolls
  BY <1>3, PollStep DEF LoopPolls
<1>4. CASE LoopWakes
  BY <1>4, SettleStep
<1>5. ASSUME NEW r \in setup.readers, Process(r) PROVE EInv'
  <2>1. CASE ReadPolls(r)
    BY <2>1, PollStep DEF ReadPolls
  <2>2. ASSUME NEW n \in 1 .. 2, ReadReturns(r, n) PROVE EInv'
    BY <2>2, SettleStep DEF ReadReturns
  <2>3. ASSUME NEW m \in setup.modes, NEW flush \in BOOLEAN, SetTermios(r, m, flush) PROVE EInv'
    BY <2>3, TermiosStep
  <2>4. CASE Interrupt(r)
    BY <2>4, OtherStep DEF Interrupt
  <2> QED BY <1>5, <2>1, <2>2, <2>3, <2>4 DEF Process
<1> QED BY <1>1, <1>2, <1>3, <1>4, <1>5 DEF Next

(* The end of a pipe is seen after everything that was in it (at_eof),      *)
(* however it is read, by whomever, and wherever the reading thread comes   *)
(* between the poll and the look.                                           *)
THEOREM EndIsLast == Spec => []EofIsLast
<1>1. Init => EInv
  BY EndAtFirst
<1>2. EInv /\ [Next]_vars => EInv'
  <2>1. ASSUME EInv, UNCHANGED vars PROVE EInv'
    BY <2>1, OtherStep DEF vars
  <2> QED BY <2>1, EndKept
<1>3. EInv => EofIsLast
  BY DEF EInv, AtTheEnd, NoEofKey, EofIsLast
<1> QED BY <1>1, <1>2, <1>3, PTL DEF Spec

-----------------------------------------------------------------------------
(* Debugging.                                                               *)
(*                                                                         *)
(* A stop leaves the slice spent and the monitor pending, and both stay so *)
(* until the monitor is entered: the loop does not pump while the monitor  *)
(* is pending, and no slice begins without a pump.  While no stop is       *)
(* pending, the steps still owed are those still requested.  A fast slice  *)
(* looks at neither breakpoints nor steps, but there are none then, as     *)
(* only the monitor makes them.  What the line discipline makes of the     *)
(* bytes does not matter.                                                   *)

DInv ==
    /\ step_request \in Nat
    /\ debug_stop = "none" => owed = step_request /\ unseen = {}
    /\ debug_stop = "step" => owed = 0
    /\ debug_stop # "none" => /\ step_request = 0 /\ monitor_pending /\ pump = NoPump
                              /\ turn = "slice" => budget = "spent"
    /\ turn = "loop" => budget = "none"
    /\ budget = "fast" => breakpoints = {} /\ temp_breakpoints = {} /\ step_request = 0
    /\ setup \notin Debugged => debug_stop = "none" /\ budget = "none"

-----------------------------------------------------------------------------

(* The start of run satisfies the invariant.                                *)
LEMMA DebugInitDInv == DebugInit => DInv
BY DEF DebugInit, DInv

(* Who is in a slice has not stopped.                                       *)
LEMMA NotStopped ==
    ASSUME DInv, NEW r, InSlice(r)
    PROVE  debug_stop = "none" /\ owed = step_request /\ unseen = {}
BY DEF DInv, InSlice

(* An instruction of a slice keeps the invariant: the step it may finish,   *)
(* and the breakpoint it may run onto, stop the slice.                      *)
LEMMA ExecutedDInv ==
    ASSUME DInv, NEW r, NEW new, NEW pending, InSlice(r), Executed(r, new), Pending(pending),
           pump' = NoPump, turn' = turn, setup' = setup
    PROVE  DInv'
<1> DEFINE steps == step_request > 0 /\ Pinned(r)
           left  == IF steps THEN step_request - 1 ELSE step_request
           kind  == IF budget = "fast"               THEN "none"
                    ELSE IF steps /\ left = 0        THEN "step"
                    ELSE IF new \in temp_breakpoints THEN "until"
                    ELSE IF new \in breakpoints      THEN "break"
                    ELSE "none"
<1>1. /\ step_request' = (IF kind = "none" THEN left ELSE 0) /\ debug_stop' = kind
      /\ temp_breakpoints' = IF kind = "until" THEN temp_breakpoints \ {new} ELSE temp_breakpoints
      /\ budget' = IF kind # "none" \/ budget = "one" THEN "spent" ELSE budget
      /\ owed' = IF steps THEN owed - 1 ELSE owed
      /\ unseen' = IF new \in breakpoints \cup temp_breakpoints THEN unseen \cup {r} ELSE unseen \ {r}
      /\ breakpoints' = breakpoints
  BY DEF Executed, Breaks
<1>2. /\ step_request \in Nat /\ owed = step_request /\ debug_stop = "none" /\ unseen = {}
      /\ turn = "slice" /\ budget \in {"fast", "many", "one"} /\ setup \in Debugged
  BY NotStopped DEF DInv, InSlice
<1>3. left \in Nat /\ owed' = left
  BY <1>1, <1>2
<1>4. CASE budget = "fast"
  <2>1. kind = "none" /\ breakpoints = {} /\ temp_breakpoints = {} /\ step_request = 0
    BY <1>4 DEF DInv
  <2> QED BY <1>1, <1>2, <1>3, <1>4, <2>1 DEF DInv
<1>5. CASE budget # "fast"
  <2>1. kind = "step" => left = 0
    BY <1>5
  <2>2. new \in breakpoints \cup temp_breakpoints => kind # "none"
    BY <1>5
  <2>3. budget' # "fast"
    BY <1>1, <1>5
  <2>4. monitor_pending' = (pending \/ debug_stop' # "none")
    BY DEF Pending
  <2> HIDE DEF kind, left, steps
  <2>5. debug_stop' = "none" => owed' = step_request' /\ unseen' = {}
    BY <1>1, <1>2, <1>3, <2>2
  <2>6. debug_stop' # "none" => step_request' = 0 /\ budget' = "spent"
    BY <1>1
  <2>7. step_request' \in Nat
    BY <1>1, <1>3
  <2>8. debug_stop' = "step" => owed' = 0
    BY <1>1, <1>3, <2>1
  <2> QED BY <1>2, <2>3, <2>4, <2>5, <2>6, <2>7, <2>8 DEF DInv
<1> QED BY <1>4, <1>5

(* An exception out of the machine ends the slice, and a step with it.      *)
LEMMA LeavesDInv ==
    ASSUME DInv, NEW r, NEW kind, kind # "none", kind # "step", NEW new, NEW pending,
           InSlice(r), Leaves(r, kind, new), Pending(pending),
           pump' = NoPump, turn' \in {turn, "stopped"}, setup' = setup
    PROVE  DInv'
<1>1. /\ step_request \in Nat /\ owed = step_request /\ debug_stop = "none" /\ unseen = {}
      /\ turn = "slice" /\ setup \in Debugged
  BY NotStopped DEF DInv, InSlice
<1>2. /\ step_request' = (IF debug_stop' = "none" THEN step_request ELSE 0)
      /\ debug_stop' \in {kind, "none"}
      /\ budget' = "spent" /\ owed' = owed /\ unseen' \in {unseen, unseen \ {r}}
  BY DEF Leaves, Breaks
<1>3. monitor_pending' = (pending \/ debug_stop' # "none")
  BY DEF Pending
<1> QED BY <1>1, <1>2, <1>3 DEF DInv

(* The history variable, the breakpoints and the setup are the monitor's.   *)
LEMMA DebuggingStep ==
    ASSUME DInv, Debugs
    PROVE  DInv'
<1>1. CASE (Host \/ Stop) /\ UNCHANGED debugVars
  <2>1. /\ setup' = setup /\ pump' = pump /\ monitor_pending' = monitor_pending
        /\ turn' = turn \/ (turn = "loop" /\ turn' = "stopped")
    BY <1>1 DEF Host, Type, CloseInput, ThreadReads, Stop, hostVars
  <2> QED BY <1>1, <2>1 DEF DInv, debugVars
<1>2. CASE LoopPolls /\ UNCHANGED debugVars
  <2>1. ~monitor_pending /\ turn = "loop" /\ turn' = "loop" /\ setup' = setup
    BY <1>2 DEF LoopPolls, Poll
  <2> QED BY <1>2, <2>1 DEF DInv, debugVars
<1>3. CASE LoopWakes /\ UNCHANGED debugVars
  <2>1. pump # NoPump /\ turn' = "slice" /\ setup' = setup
    BY <1>3 DEF LoopWakes, NoPump, hostVars
  <2> QED BY <1>3, <2>1 DEF DInv, debugVars
<1>4. CASE Interact
  <2>1. /\ turn = "loop" /\ turn' = "loop" /\ setup' = setup /\ pump' = pump
        /\ debug_stop' = "none" /\ unseen' = {} /\ budget' = budget
        /\ \/ step_request' = step_request /\ owed' = IF debug_stop = "none" THEN owed ELSE 0
           \/ step_request' \in 1 .. MaxSteps /\ owed' = step_request'
    BY <1>4 DEF Interact, Monitor, hostVars
  <2>2. step_request' \in Nat /\ owed' = step_request'
    BY <2>1, DebuggerAssumption DEF DInv
  <2> QED BY <2>1, <2>2 DEF DInv
<1>5. CASE DebugSliceEnds
  <2>1. /\ turn' = "loop" /\ budget' = "none" /\ setup' = setup /\ pump' = pump
        /\ monitor_pending' = monitor_pending
        /\ UNCHANGED <<breakpoints, temp_breakpoints, step_request, debug_stop, owed, unseen>>
    BY <1>5 DEF DebugSliceEnds, SliceEnds, hostVars
  <2> QED BY <2>1 DEF DInv
<1>6. ASSUME NEW r \in setup.readers, Pick(r) PROVE DInv'
  <2>1. /\ setup \in Debugged /\ turn = "slice" /\ budget = "none"
        /\ budget' = IF ~Watched THEN "fast" ELSE IF step_request > 0 THEN "one" ELSE "many"
        /\ UNCHANGED <<setup, turn, pump, monitor_pending, breakpoints, temp_breakpoints,
                       step_request, debug_stop, owed, unseen>>
    BY <1>6 DEF Debugs, Pick, vars, hostVars
  <2>2. budget' = "fast" => breakpoints = {} /\ temp_breakpoints = {} /\ step_request = 0
    BY <2>1 DEF Watched, DInv
  <2>3. debug_stop = "none"
    BY <2>1 DEF DInv
  <2> QED BY <2>1, <2>2, <2>3 DEF DInv
<1>7. ASSUME NEW r \in setup.readers, Compute(r) PROVE DInv'
  <2>1. InSlice(r) /\ pump' = NoPump /\ turn' = turn /\ setup' = setup /\ Pending(monitor_pending)
    BY <1>7 DEF Compute, hostVars
  <2>2. PICK new \in Addresses :
          \/ Executed(r, new) \/ \E kind \in {"execve", "sigreturn"} : Leaves(r, kind, new)
    BY <1>7 DEF Compute
  <2>3. CASE Executed(r, new)
    BY <2>1, <2>3, ExecutedDInv
  <2>4. ASSUME NEW kind \in {"execve", "sigreturn"}, Leaves(r, kind, new)
        PROVE  DInv'
    BY <2>1, <2>4, LeavesDInv
  <2> QED BY <2>2, <2>3, <2>4
<1>8. ASSUME NEW r \in setup.readers, Exits(r) PROVE DInv'
  <2>1. /\ InSlice(r) /\ Leaves(r, "exited", eip[r]) /\ Pending(monitor_pending)
        /\ pump' = NoPump /\ turn' \in {turn, "stopped"} /\ setup' = setup
    BY <1>8 DEF Exits, hostVars
  <2> QED BY <2>1, LeavesDInv
<1>9. ASSUME NEW r \in setup.readers, Reads(r) PROVE DInv'
  <2>1. InSlice(r)
    BY <1>9 DEF Reads
  <2>2. CASE ReadPolls(r) /\ UNCHANGED debugVars
    <3>1. setup' = setup /\ turn' = turn
      BY <2>2 DEF ReadPolls, Poll
    <3> QED BY <2>1, <2>2, <3>1, NotStopped DEF DInv, debugVars
  <2>3. ASSUME NEW n \in 1 .. 2, ReadResult(r, n), Pending(Settled.monitor),
               IF reader'[r] = "sleeps" THEN Leaves(r, "blocked", CallAt)
               ELSE \E new \in Addresses : Executed(r, new)
        PROVE  DInv'
    <3>1. pump' = NoPump /\ turn' = turn /\ setup' = setup
      BY <2>3 DEF ReadResult, hostVars
    <3>2. Leaves(r, "blocked", CallAt) \/ \E new \in Addresses : Executed(r, new)
      BY <2>3
    <3> QED BY <2>1, <2>3, <3>1, <3>2, ExecutedDInv, LeavesDInv
  <2> QED BY <1>9, <2>2, <2>3 DEF Reads
<1>10. ASSUME NEW r \in setup.readers, Deliver(r) PROVE DInv'
  <2>1. /\ unseen' = unseen \ {r}
        /\ UNCHANGED <<setup, turn, pump, monitor_pending, breakpoints, temp_breakpoints,
                       step_request, debug_stop, owed, budget>>
    BY <1>10 DEF Deliver, hostVars
  <2> QED BY <2>1 DEF DInv
<1> QED BY <1>1, <1>2, <1>3, <1>4, <1>5, <1>6, <1>7, <1>8, <1>9, <1>10 DEF Debugs

(* The setup stays as it is, and nobody debugs where nobody asked to.       *)
LEMMA UndebuggedStep ==
    ASSUME DInv, setup \notin Debugged, Next, UNCHANGED debugVars
    PROVE  DInv'
<1>1. setup' = setup
  <2>1. ASSUME NEW r \in setup.readers, Process(r) PROVE setup' = setup
    BY <2>1 DEF Process, ReadPolls, Poll, ReadReturns, ReadResult, SetTermios, Interrupt, hostVars
  <2> QED BY <2>1 DEF Next, Host, Type, CloseInput, ThreadReads, Stop, Monitor, LoopPolls, Poll,
                      LoopWakes, SliceEnds, hostVars
<1> QED BY <1>1 DEF DInv, debugVars

(* Every step keeps the invariant.                                          *)
LEMMA DebugNextDInv == DInv /\ [DebugNext]_allVars => DInv'
<1>1. ASSUME DInv, UNCHANGED allVars PROVE DInv'
  BY <1>1 DEF allVars, vars, hostVars, debugVars, DInv
<1> QED BY <1>1, DebuggingStep, UndebuggedStep DEF DebugNext

(* A stop for a step comes after exactly the steps last asked for; nobody   *)
(* who ran onto a breakpoint runs on before the monitor was entered, nor    *)
(* anybody at all between a stop and the monitor.                           *)
THEOREM StopsAreWhereAsked == DebugSpec => []StopsWhereAsked
<1>1. DInv => StopsWhereAsked
  <2> SUFFICES ASSUME DInv PROVE StopsWhereAsked
    OBVIOUS
  <2>1. debug_stop = "step" => owed = 0
    BY DEF DInv
  <2>2. \A r : InSlice(r) => unseen = {} /\ debug_stop = "none"
    BY NotStopped
  <2> QED BY <2>1, <2>2 DEF StopsWhereAsked
<1> QED BY <1>1, DebugInitDInv, DebugNextDInv, PTL DEF DebugSpec

-----------------------------------------------------------------------------
(* The end of the input, with a debugger at work.                           *)

(* So does every step of a slice that a debugger plays.                     *)
LEMMA EndKeptDebugging ==
    ASSUME EInv, Debugs
    PROVE  EInv'
<1>1. CASE Host
  BY <1>1, HostStep
<1>2. CASE Stop \/ Interact \/ DebugSliceEnds
  BY <1>2, OtherStep DEF Stop, Interact, Monitor, DebugSliceEnds, SliceEnds
<1>3. CASE LoopPolls
  BY <1>3, PollStep DEF LoopPolls
<1>4. CASE LoopWakes
  <2>1. 1 \in 1 .. 2
    OBVIOUS
  <2> QED BY <1>4, <2>1, SettleStep
<1>5. ASSUME NEW r \in setup.readers, Pick(r) \/ Compute(r) \/ Exits(r) \/ Deliver(r) PROVE EInv'
  BY <1>5, OtherStep DEF Pick, Compute, Exits, Deliver, vars
<1>6. ASSUME NEW r \in setup.readers, Reads(r) PROVE EInv'
  <2>1. CASE ReadPolls(r)
    BY <2>1, PollStep DEF ReadPolls
  <2>2. ASSUME NEW n \in 1 .. 2, ReadResult(r, n) PROVE EInv'
    BY <2>2, SettleStep
  <2> QED BY <1>6, <2>1, <2>2 DEF Reads
<1> QED BY <1>1, <1>2, <1>3, <1>4, <1>5, <1>6 DEF Debugs

(* The end of a pipe is seen after everything that was in it, also where    *)
(* somebody debugs: slices end anywhere, and processes go away.             *)
THEOREM EndIsLastDebugging == DebugSpec => []EofIsLast
<1>1. DebugInit => EInv
  BY EndAtFirst DEF DebugInit
<1>2. EInv /\ [DebugNext]_allVars => EInv'
  <2>1. ASSUME EInv, UNCHANGED allVars PROVE EInv'
    BY <2>1, OtherStep DEF allVars, vars
  <2> QED BY <2>1, EndKept, EndKeptDebugging DEF DebugNext
<1>3. EInv => EofIsLast
  BY DEF EInv, AtTheEnd, NoEofKey, EofIsLast
<1> QED BY <1>1, <1>2, <1>3, PTL DEF DebugSpec

-----------------------------------------------------------------------------
(* What was typed is read.                                                  *)
(*                                                                          *)
(* Every entry of the log ends a line, lengthens it, shortens it or leaves  *)
(* it alone (its role).  What is meant falls into the characters of the     *)
(* line that is being typed and what came before it; what was delivered     *)
(* and what is ready are of the latter, the line buffer is the former.  An  *)
(* erasure is meant for the last character, which is the one since which    *)
(* there were as many characters as erasures: so the invariant also says    *)
(* how far from the end of the buffer each character is.                    *)

(* What Terminal says of its log, of any log.                               *)

Entry == [key : Key \cup {"flush"}, place : Nat, termios : Mode]
Ends  == {"flush", "raw", "end", "eof", "kill"}

CountIn(lg, what, i, j) == Cardinality({l \in i + 1 .. j : Role(lg[l]) = what})
RubbedIn(lg, i) ==
    \E j \in i + 1 .. Len(lg) :
        /\ \A l \in i .. j - 1 : Role(lg[l]) \notin Ends
        /\ Role(lg[j]) = "kill" \/ CountIn(lg, "erase", i, j) > CountIn(lg, "char", i, j)
MeantIn(lg) == {i \in 1 .. Len(lg) : \/ Role(lg[i]) \in {"raw", "end"}
                                     \/ Role(lg[i]) = "char" /\ ~RubbedIn(lg, i)}
KeptIn(lg) == {i \in MeantIn(lg) : \A j \in i + 1 .. Len(lg) : Role(lg[j]) # "flush"}
PlacesIn(lg, S) == {lg[i].place : i \in S}

(* The characters of the line that is being typed.                          *)
OpenIn(lg) == {i \in 1 .. Len(lg) : /\ Role(lg[i]) = "char"
                                    /\ \A l \in i + 1 .. Len(lg) : Role(lg[l]) \notin Ends}

(* There are eight roles.                                                   *)
LEMMA Roles ==
    ASSUME NEW e
    PROVE  Role(e) \in Ends \cup {"nothing", "erase", "char"}
BY DEF Role, Ends

(* One entry more.                                                          *)
LEMMA Longer ==
    ASSUME NEW lg \in Seq(Entry), NEW e \in Entry
    PROVE  /\ Append(lg, e) \in Seq(Entry) /\ Len(lg) \in Nat
           /\ Len(Append(lg, e)) = Len(lg) + 1
           /\ \A i \in 1 .. Len(lg) : Append(lg, e)[i] = lg[i]
           /\ Append(lg, e)[Len(lg) + 1] = e
BY AppendProperties, LenProperties

(* What it adds to a count.                                                 *)
LEMMA CountAfter ==
    ASSUME NEW lg \in Seq(Entry), NEW e \in Entry, NEW what, NEW i \in 0 .. Len(lg)
    PROVE  /\ \A j \in 0 .. Len(lg) : CountIn(Append(lg, e), what, i, j) = CountIn(lg, what, i, j)
           /\ CountIn(Append(lg, e), what, i, Len(lg) + 1) =
                  CountIn(lg, what, i, Len(lg)) + (IF Role(e) = what THEN 1 ELSE 0)
           /\ CountIn(lg, what, i, Len(lg)) \in Nat
           /\ i = Len(lg) => CountIn(lg, what, i, Len(lg)) = 0
<1> DEFINE longer == Append(lg, e)
           n == Len(lg)
           S(q, j) == {l \in i + 1 .. j : Role(q[l]) = what}
<1>1. n \in Nat /\ longer[n + 1] = e /\ \A l \in 1 .. n : longer[l] = lg[l]
  BY Longer
<1> HIDE DEF longer, n
<1>2. \A j \in 0 .. n : S(longer, j) = S(lg, j)
  <2>1. ASSUME NEW j \in 0 .. n, NEW l \in i + 1 .. j PROVE longer[l] = lg[l]
    <3>1. l \in 1 .. n
      BY <1>1 DEF n
    <3> QED BY <1>1, <3>1
  <2> QED BY <2>1
<1>3. IsFiniteSet(S(lg, n))
  <2>1. IsFiniteSet(i + 1 .. n)
    BY <1>1, FS_Interval DEF n
  <2> QED BY <2>1, FS_Subset
<1>4. S(longer, n + 1) = IF Role(e) = what THEN S(lg, n) \cup {n + 1} ELSE S(lg, n)
  <2>1. \A l \in i + 1 .. n + 1 : l \in 1 .. n \/ l = n + 1
    BY <1>1 DEF n
  <2>2. \A l : l \in i + 1 .. n + 1 <=> l \in i + 1 .. n \/ l = n + 1
    BY <1>1 DEF n
  <2>3. \A l \in i + 1 .. n : longer[l] = lg[l] /\ l # n + 1
    BY <1>1 DEF n
  <2> QED BY <1>1, <2>2, <2>3
<1>5. n + 1 \notin S(lg, n)
  BY <1>1
<1>6. i = n => S(lg, n) = {}
  BY <1>1 DEF n
<1>7. \A q, j : CountIn(q, what, i, j) = Cardinality(S(q, j))
  BY DEF CountIn
<1> HIDE DEF S
<1>8. Cardinality(S(lg, n)) \in Nat
  BY <1>3, FS_CardinalityType
<1>9. Cardinality(S(longer, n + 1)) = Cardinality(S(lg, n)) + (IF Role(e) = what THEN 1 ELSE 0)
  <2>1. Cardinality(S(lg, n) \cup {n + 1}) = Cardinality(S(lg, n)) + 1
    BY <1>3, <1>5, FS_AddElement
  <2> QED BY <1>4, <1>8, <2>1
<1>10. i = n => Cardinality(S(lg, n)) = 0
  BY <1>6, FS_EmptySet
<1> QED BY <1>2, <1>7, <1>8, <1>9, <1>10 DEF longer, n

(* What it rubs out is of the line that is being typed.                     *)
LEMMA RubbedAfter ==
    ASSUME NEW lg \in Seq(Entry), NEW e \in Entry, NEW i \in 1 .. Len(lg), Role(lg[i]) = "char"
    PROVE  RubbedIn(Append(lg, e), i) <=>
               \/ RubbedIn(lg, i)
               \/ /\ i \in OpenIn(lg)
                  /\ \/ Role(e) = "kill"
                     \/ CountIn(Append(lg, e), "erase", i, Len(lg) + 1) >
                            CountIn(Append(lg, e), "char", i, Len(lg) + 1)
<1> DEFINE longer == Append(lg, e)
           n == Len(lg)
           Rubs(q, j) == /\ \A l \in i .. j - 1 : Role(q[l]) \notin Ends
                         /\ Role(q[j]) = "kill" \/ CountIn(q, "erase", i, j) > CountIn(q, "char", i, j)
<1>1. n \in Nat /\ longer[n + 1] = e /\ Len(longer) = n + 1 /\ \A l \in 1 .. n : longer[l] = lg[l]
  BY Longer
<1>2. ASSUME NEW what PROVE \A j \in 0 .. n : CountIn(longer, what, i, j) = CountIn(lg, what, i, j)
  <2>1. i \in 0 .. Len(lg)
    OBVIOUS
  <2>2. \A j \in 0 .. Len(lg) : CountIn(Append(lg, e), what, i, j) = CountIn(lg, what, i, j)
    BY ONLY <2>1, e \in Entry, lg \in Seq(Entry), CountAfter
  <2> QED BY <2>2
<1> HIDE DEF longer, n
<1>3. ASSUME NEW j \in i + 1 .. n PROVE Rubs(longer, j) <=> Rubs(lg, j)
  <2>1. /\ j \in 1 .. n /\ j \in 0 .. n
        /\ \A l \in i .. j - 1 : l \in 1 .. n
    BY <1>1 DEF n
  <2>2. /\ CountIn(longer, "erase", i, j) = CountIn(lg, "erase", i, j)
        /\ CountIn(longer, "char", i, j) = CountIn(lg, "char", i, j)
    BY <1>2, <2>1
  <2> QED BY <1>1, <2>1, <2>2
<1>4. (\A l \in i .. (n + 1) - 1 : Role(longer[l]) \notin Ends) <=> i \in OpenIn(lg)
  <2>1. (n + 1) - 1 = n
    BY <1>1
  <2>2. /\ i \in i .. n
        /\ \A l : l \in i + 1 .. n => l \in i .. n
        /\ \A l : l \in i .. n => l \in 1 .. n /\ (l = i \/ l \in i + 1 .. n)
    BY <1>1 DEF n
  <2>3. "char" \notin Ends
    BY DEF Ends
  <2> QED BY <1>1, <2>1, <2>2, <2>3 DEF OpenIn, n
<1>5. RubbedIn(longer, i) <=> \E j \in i + 1 .. n + 1 : Rubs(longer, j)
  BY <1>1 DEF RubbedIn
<1>6. RubbedIn(lg, i) <=> \E j \in i + 1 .. n : Rubs(lg, j)
  BY DEF RubbedIn, n
<1>7. Rubs(longer, n + 1) <=> /\ i \in OpenIn(lg)
                              /\ \/ Role(e) = "kill"
                                 \/ CountIn(longer, "erase", i, n + 1) > CountIn(longer, "char", i, n + 1)
  BY <1>1, <1>4
<1> HIDE DEF Rubs
<1>8. \A j : j \in i + 1 .. n + 1 <=> j \in i + 1 .. n \/ j = n + 1
  BY <1>1 DEF n
<1> QED BY <1>3, <1>5, <1>6, <1>7, <1>8 DEF longer, n

(* Nothing is rubbed out by itself.                                         *)
LEMMA LastNotRubbed ==
    ASSUME NEW lg \in Seq(Entry)
    PROVE  ~RubbedIn(lg, Len(lg))
BY LenProperties DEF RubbedIn

(* What one entry makes of the line, of what is meant and what is kept.     *)
LEMMA MeantAfter ==
    ASSUME NEW lg \in Seq(Entry), NEW e \in Entry
    PROVE  LET longer == Append(lg, e)
               n == Len(lg)
           IN  /\ OpenIn(longer) = IF Role(e) \in Ends THEN {}
                                   ELSE IF Role(e) = "char" THEN OpenIn(lg) \cup {n + 1} ELSE OpenIn(lg)
               /\ \A i \in 1 .. n :
                     i \in MeantIn(longer) <=>
                         /\ i \in MeantIn(lg)
                         /\ i \in OpenIn(lg) =>
                               /\ Role(e) # "kill"
                               /\ ~(CountIn(longer, "erase", i, n + 1) > CountIn(longer, "char", i, n + 1))
               /\ n + 1 \in MeantIn(longer) <=> Role(e) \in {"raw", "end", "char"}
               /\ MeantIn(longer) \subseteq 1 .. n \cup {n + 1}
               /\ \A i \in 1 .. n : i \in KeptIn(longer) <=> /\ i \in MeantIn(longer) /\ Role(e) # "flush"
                                                             /\ i \in MeantIn(lg) => i \in KeptIn(lg)
               /\ n + 1 \in KeptIn(longer) <=> n + 1 \in MeantIn(longer)
<1> DEFINE longer == Append(lg, e)
           n == Len(lg)
<1>1. /\ n \in Nat /\ longer[n + 1] = e /\ Len(longer) = n + 1 /\ longer \in Seq(Entry)
      /\ \A l \in 1 .. n : longer[l] = lg[l]
  BY Longer
<1>2. ASSUME NEW i \in 1 .. n, Role(lg[i]) = "char"
      PROVE  RubbedIn(longer, i) <=>
               \/ RubbedIn(lg, i)
               \/ /\ i \in OpenIn(lg)
                  /\ \/ Role(e) = "kill"
                     \/ CountIn(longer, "erase", i, n + 1) > CountIn(longer, "char", i, n + 1)
  BY <1>2, RubbedAfter
<1>3. ~RubbedIn(longer, n + 1)
  BY <1>1, LastNotRubbed
<1> HIDE DEF longer
<1>4. \A l : l \in 1 .. n + 1 <=> l \in 1 .. n \/ l = n + 1
  BY <1>1
<1>5. \A i \in 1 .. n : \A l : l \in i + 1 .. n + 1 <=> l \in i + 1 .. n \/ l = n + 1
  BY <1>1
<1>6. \A l : l \notin (n + 1) + 1 .. n + 1
  BY <1>1
<1>7. \A i \in 1 .. n : \A l \in i + 1 .. n : l \in 1 .. n /\ longer[l] = lg[l]
  BY <1>1
<1>8. n + 1 \notin 1 .. n
  BY <1>1
<1>9. OpenIn(longer) = IF Role(e) \in Ends THEN {}
                       ELSE IF Role(e) = "char" THEN OpenIn(lg) \cup {n + 1} ELSE OpenIn(lg)
  <2>1. \A i \in 1 .. n : i \in OpenIn(longer) <=> i \in OpenIn(lg) /\ Role(e) \notin Ends
    <3> TAKE i \in 1 .. n
    <3>1. i \in OpenIn(longer) <=> /\ Role(lg[i]) = "char"
                                   /\ \A l \in i + 1 .. n + 1 : Role(longer[l]) \notin Ends
      BY <1>1, <1>4 DEF OpenIn
    <3>2. (\A l \in i + 1 .. n + 1 : Role(longer[l]) \notin Ends) <=>
              (\A l \in i + 1 .. n : Role(lg[l]) \notin Ends) /\ Role(e) \notin Ends
      BY <1>1, <1>5, <1>7
    <3> QED BY <3>1, <3>2 DEF OpenIn
  <2>2. n + 1 \in OpenIn(longer) <=> Role(e) = "char"
    BY <1>1, <1>4, <1>6 DEF OpenIn
  <2>3. "char" \notin Ends
    BY DEF Ends
  <2>4. OpenIn(longer) \subseteq 1 .. n + 1 /\ OpenIn(lg) \subseteq 1 .. n
    BY <1>1 DEF OpenIn
  <2> HIDE DEF n
  <2> DEFINE all == 1 .. n + 1
             old == 1 .. n
  <2> HIDE DEF all, old
  <2>5. /\ \A l : l \in all <=> l \in old \/ l = n + 1
        /\ \A i \in old : i \in OpenIn(longer) <=> i \in OpenIn(lg) /\ Role(e) \notin Ends
        /\ OpenIn(longer) \subseteq all /\ OpenIn(lg) \subseteq old
    BY <1>4, <2>1, <2>4 DEF all, old
  <2>6. CASE Role(e) \in Ends
    BY <2>2, <2>3, <2>5, <2>6
  <2>7. CASE Role(e) \notin Ends /\ Role(e) = "char"
    BY <2>2, <2>5, <2>7
  <2>8. CASE Role(e) \notin Ends /\ Role(e) # "char"
    <3>1. \A i : i \in OpenIn(longer) <=> i \in OpenIn(lg)
      BY <2>2, <2>5, <2>8
    <3> QED BY <3>1, <2>8
  <2> QED BY <2>6, <2>7, <2>8
<1>10. /\ MeantIn(longer) \subseteq 1 .. n \cup {n + 1}
       /\ n + 1 \in MeantIn(longer) <=> Role(e) \in {"raw", "end", "char"}
  BY <1>1, <1>3, <1>4 DEF MeantIn
<1>11. ASSUME NEW i \in 1 .. n
       PROVE  i \in MeantIn(longer) <=>
                 /\ i \in MeantIn(lg)
                 /\ i \in OpenIn(lg) =>
                       /\ Role(e) # "kill"
                       /\ ~(CountIn(longer, "erase", i, n + 1) > CountIn(longer, "char", i, n + 1))
  <2>1. i \in MeantIn(longer) <=> \/ Role(lg[i]) \in {"raw", "end"}
                                  \/ Role(lg[i]) = "char" /\ ~RubbedIn(longer, i)
    BY <1>1, <1>4 DEF MeantIn
  <2>2. i \in MeantIn(lg) <=> \/ Role(lg[i]) \in {"raw", "end"}
                              \/ Role(lg[i]) = "char" /\ ~RubbedIn(lg, i)
    BY DEF MeantIn
  <2>3. i \in OpenIn(lg) => Role(lg[i]) = "char"
    BY DEF OpenIn
  <2> QED BY <1>2, <2>1, <2>2, <2>3
<1>12. ASSUME NEW i \in 1 .. n
       PROVE  i \in KeptIn(longer) <=> /\ i \in MeantIn(longer) /\ Role(e) # "flush"
                                       /\ i \in MeantIn(lg) => i \in KeptIn(lg)
  <2>1. i \in KeptIn(longer) <=> i \in MeantIn(longer) /\ \A l \in i + 1 .. n + 1 : Role(longer[l]) # "flush"
    BY <1>1 DEF KeptIn
  <2>2. (\A l \in i + 1 .. n + 1 : Role(longer[l]) # "flush") <=>
            (\A l \in i + 1 .. n : Role(lg[l]) # "flush") /\ Role(e) # "flush"
    BY <1>1, <1>5, <1>7
  <2>3. i \in KeptIn(lg) <=> i \in MeantIn(lg) /\ \A l \in i + 1 .. n : Role(lg[l]) # "flush"
    BY DEF KeptIn
  <2>4. i \in MeantIn(longer) => i \in MeantIn(lg)
    BY <1>11
  <2> QED BY <2>1, <2>2, <2>3, <2>4
<1>13. n + 1 \in KeptIn(longer) <=> n + 1 \in MeantIn(longer)
  BY <1>1, <1>6 DEF KeptIn
<1> QED BY <1>9, <1>10, <1>11, <1>12, <1>13 DEF longer

-----------------------------------------------------------------------------
(* Rising sequences.                                                        *)

Rises(q)    == \A i, j \in DOMAIN q : i < j => q[i] < q[j]
Below(S, T) == \A x \in S, y \in T : x < y

(* One behind the other.                                                    *)
LEMMA RisesConcat ==
    ASSUME NEW a \in Seq(Nat), NEW b \in Seq(Nat), Rises(a), Rises(b), Below(Range(a), Range(b))
    PROVE  a \o b \in Seq(Nat) /\ Rises(a \o b) /\ Range(a \o b) = Range(a) \cup Range(b)
<1> DEFINE c == a \o b
           n == Len(a)
           m == Len(b)
<1>1. /\ c \in Seq(Nat) /\ n \in Nat /\ m \in Nat /\ Len(c) = n + m
      /\ DOMAIN a = 1 .. n /\ DOMAIN b = 1 .. m /\ DOMAIN c = 1 .. n + m
      /\ \A i \in 1 .. n + m : c[i] = IF i <= n THEN a[i] ELSE b[i - n]
  BY ConcatProperties, LenProperties
<1> HIDE DEF c, n, m
<1>2. /\ \A i \in 1 .. n : i \in 1 .. n + m /\ i <= n /\ c[i] = a[i] /\ c[i] \in Range(a)
      /\ \A i \in 1 .. m : n + i \in 1 .. n + m /\ ~(n + i <= n) /\ c[n + i] = b[i]
      /\ \A i \in 1 .. n + m : ~(i <= n) => i - n \in 1 .. m /\ c[i] = b[i - n] /\ c[i] \in Range(b)
  <2>1. ASSUME NEW i \in 1 .. n
        PROVE  i \in 1 .. n + m /\ i <= n /\ c[i] = a[i] /\ c[i] \in Range(a)
    <3>1. i \in 1 .. n + m /\ i <= n
      BY <1>1
    <3> QED BY <1>1, <3>1 DEF Range
  <2>2. ASSUME NEW i \in 1 .. m
        PROVE  n + i \in 1 .. n + m /\ ~(n + i <= n) /\ c[n + i] = b[i]
    <3>1. n + i \in 1 .. n + m /\ ~(n + i <= n) /\ (n + i) - n = i
      BY <1>1
    <3> QED BY <1>1, <3>1
  <2>3. ASSUME NEW i \in 1 .. n + m, ~(i <= n)
        PROVE  i - n \in 1 .. m /\ c[i] = b[i - n] /\ c[i] \in Range(b)
    <3>1. i - n \in 1 .. m
      BY <1>1, <2>3
    <3> QED BY <1>1, <2>3, <3>1 DEF Range
  <2> QED BY <2>1, <2>2, <2>3
<1>3. Rises(c)
  <2> SUFFICES ASSUME NEW i \in 1 .. n + m, NEW j \in 1 .. n + m, i < j PROVE c[i] < c[j]
    BY <1>1 DEF Rises
  <2>1. CASE j <= n
    <3>1. i \in 1 .. n /\ j \in 1 .. n
      BY <2>1, <1>1
    <3> QED BY <1>1, <1>2, <3>1 DEF Rises
  <2>2. CASE ~(i <= n)
    <3>1. i \in Nat /\ j \in Nat /\ i < j
      BY <1>1
    <3>2. ~(j <= n) /\ i - n < j - n
      BY <2>2, <3>1, <1>1
    <3>3. i - n \in 1 .. m /\ j - n \in 1 .. m /\ c[i] = b[i - n] /\ c[j] = b[j - n]
      BY <2>2, <3>2, <1>2
    <3> QED BY <1>1, <3>2, <3>3 DEF Rises
  <2>3. CASE i <= n /\ ~(j <= n)
    <3>1. i \in 1 .. n
      BY <2>3, <1>1
    <3> QED BY <1>2, <3>1, <2>3 DEF Below
  <2> QED BY <2>1, <2>2, <2>3, <1>1
<1>4. Range(c) = Range(a) \cup Range(b)
  <2>1. ASSUME NEW x \in Range(c) PROVE x \in Range(a) \cup Range(b)
    <3>1. PICK i \in 1 .. n + m : x = c[i]
      BY <1>1 DEF Range
    <3>2. i <= n => i \in 1 .. n
      BY <1>1
    <3> QED BY <1>2, <3>1, <3>2
  <2>2. Range(a) \subseteq Range(c) /\ Range(b) \subseteq Range(c)
    BY <1>1, <1>2 DEF Range
  <2> QED BY <2>1, <2>2
<1> QED BY <1>1, <1>3, <1>4 DEF c

(* One number more.                                                         *)
LEMMA RisesAppend ==
    ASSUME NEW a \in Seq(Nat), NEW k \in Nat, Rises(a), Below(Range(a), {k})
    PROVE  Append(a, k) \in Seq(Nat) /\ Rises(Append(a, k)) /\ Range(Append(a, k)) = Range(a) \cup {k}
<1> DEFINE b == <<k>>
<1>1. b \in Seq(Nat) /\ Rises(b) /\ Range(b) = {k}
  BY DEF Rises, Range
<1>2. Append(a, k) = a \o b
  BY AppendIsConcat
<1> HIDE DEF b
<1> QED BY <1>1, <1>2, RisesConcat

(* A sequence cut in two.                                                   *)
LEMMA RisesSplit ==
    ASSUME NEW a \in Seq(Nat), Rises(a), NEW m \in 0 .. Len(a)
    PROVE  LET b == SubSeq(a, 1, m)
               c == SubSeq(a, m + 1, Len(a))
           IN  /\ b \in Seq(Nat) /\ Rises(b) /\ Len(b) = m /\ (\A i \in 1 .. m : b[i] = a[i])
               /\ c \in Seq(Nat) /\ Rises(c)
               /\ Range(a) = Range(b) \cup Range(c) /\ Below(Range(b), Range(c))
<1> DEFINE b == SubSeq(a, 1, m)
           c == SubSeq(a, m + 1, Len(a))
           n == Len(a)
<1>1. n \in Nat /\ DOMAIN a = 1 .. n /\ a \in [1 .. n -> Nat] /\ m \in 0 .. n
  BY LenProperties
<1>2. b \in Seq(Nat) /\ Len(b) = m /\ DOMAIN b = 1 .. m /\ \A i \in 1 .. m : b[i] = a[i]
  <2>1. /\ b \in Seq(Nat) /\ Len(b) = IF 1 <= m THEN m - 1 + 1 ELSE 0
        /\ \A i \in 1 .. m - 1 + 1 : b[i] = a[1 + i - 1]
    BY <1>1, SubSeqProperties
  <2>2. DOMAIN b = 1 .. Len(b)
    BY <2>1, LenProperties
  <2> HIDE DEF b
  <2>3. Len(b) = m /\ m - 1 + 1 = m
    BY <1>1, <2>1
  <2>4. \A i \in 1 .. m : 1 + i - 1 = i
    OBVIOUS
  <2> QED BY <2>1, <2>2, <2>3, <2>4
<1>3. c \in Seq(Nat) /\ DOMAIN c = 1 .. n - m /\ \A i \in 1 .. n - m : c[i] = a[m + i]
  <2>1. /\ c \in Seq(Nat) /\ Len(c) = IF m + 1 <= n THEN n - (m + 1) + 1 ELSE 0
        /\ \A i \in 1 .. n - (m + 1) + 1 : c[i] = a[(m + 1) + i - 1]
    BY <1>1, SubSeqProperties
  <2>2. DOMAIN c = 1 .. Len(c)
    BY <2>1, LenProperties
  <2> HIDE DEF c, n
  <2>3. Len(c) = n - m /\ n - (m + 1) + 1 = n - m
    BY <1>1, <2>1
  <2>4. \A i \in 1 .. n - m : (m + 1) + i - 1 = m + i
    BY <1>1
  <2> QED BY <2>1, <2>2, <2>3, <2>4
<1> HIDE DEF b, c, n
<1>4. /\ \A i \in 1 .. m : i \in 1 .. n
      /\ \A i \in 1 .. n - m : m + i \in 1 .. n
      /\ \A i \in 1 .. n : ~(i <= m) => i - m \in 1 .. n - m /\ m + (i - m) = i
  BY <1>1
<1>5. Rises(b) /\ Rises(c)
  <2>1. \A i, j \in 1 .. n - m : i < j => m + i < m + j
    BY <1>1
  <2>2. \A i, j \in 1 .. n : i < j => a[i] < a[j]
    BY <1>1 DEF Rises
  <2>3. \A i, j \in 1 .. m : i < j => b[i] < b[j]
    BY <1>2, <1>4, <2>2
  <2>4. \A i, j \in 1 .. n - m : i < j => c[i] < c[j]
    BY <1>3, <1>4, <2>1, <2>2
  <2> QED BY <1>2, <1>3, <2>3, <2>4 DEF Rises
<1>6. Below(Range(b), Range(c))
  <2> SUFFICES ASSUME NEW i \in 1 .. m, NEW j \in 1 .. n - m PROVE b[i] < c[j]
    BY <1>2, <1>3 DEF Below, Range
  <2>1. i < m + j
    BY <1>1
  <2> QED BY <1>1, <1>2, <1>3, <1>4, <2>1 DEF Rises
<1>7. Range(a) = Range(b) \cup Range(c)
  <2>1. ASSUME NEW x \in Range(a) PROVE x \in Range(b) \cup Range(c)
    <3>1. PICK i \in 1 .. n : x = a[i]
      BY <1>1 DEF Range
    <3>2. CASE i <= m
      <4>1. i \in 1 .. m
        BY <3>2, <1>1
      <4> QED BY <1>2, <3>1, <4>1 DEF Range
    <3>3. CASE ~(i <= m)
      <4>1. i - m \in DOMAIN c /\ c[i - m] = a[i]
        BY <1>3, <1>4, <3>3
      <4> QED BY <3>1, <4>1 DEF Range
    <3> QED BY <3>2, <3>3
  <2>2. Range(b) \subseteq Range(a) /\ Range(c) \subseteq Range(a)
    BY <1>1, <1>2, <1>3, <1>4 DEF Range
  <2> QED BY <2>1, <2>2
<1> QED BY <1>2, <1>3, <1>5, <1>6, <1>7 DEF b, c

(* Without its last number.                                                 *)
LEMMA RisesFront ==
    ASSUME NEW a \in Seq(Nat), Rises(a), a # <<>>
    PROVE  /\ Len(a) \in Nat \ {0} /\ a[Len(a)] \in Range(a)
           /\ Front(a) \in Seq(Nat) /\ Rises(Front(a)) /\ Len(Front(a)) = Len(a) - 1
           /\ \A i \in 1 .. Len(a) - 1 : Front(a)[i] = a[i]
           /\ Range(Front(a)) = Range(a) \ {a[Len(a)]}
<1> DEFINE n == Len(a)
<1>1. n \in Nat \ {0} /\ DOMAIN a = 1 .. n /\ n \in 1 .. n /\ n - 1 \in 0 .. n /\ a \in [1 .. n -> Nat]
  BY LenProperties, EmptySeq
<1>2. Front(a) = SubSeq(a, 1, n - 1)
  BY DEF Front
<1> HIDE DEF n
<1>3. /\ Front(a) \in Seq(Nat) /\ Rises(Front(a)) /\ Len(Front(a)) = n - 1
      /\ \A i \in 1 .. n - 1 : Front(a)[i] = a[i]
  <2>1. n - 1 \in 0 .. Len(a)
    BY <1>1
  <2> QED BY <1>2, <2>1, RisesSplit
<1>4. DOMAIN Front(a) = 1 .. n - 1
  BY <1>3, LenProperties
<1>5. Range(Front(a)) = Range(a) \ {a[n]}
  <2>1. \A i \in 1 .. n - 1 : i \in 1 .. n /\ i < n /\ a[i] < a[n] /\ a[i] \in Nat /\ a[n] \in Nat
    BY <1>1 DEF Rises
  <2>2. \A i \in 1 .. n : i \in 1 .. n - 1 \/ i = n
    BY <1>1
  <2>3. \A i \in 1 .. n - 1 : a[i] # a[n]
    BY <2>1
  <2> QED BY <1>1, <1>3, <1>4, <2>1, <2>2, <2>3 DEF Range
<1> QED BY <1>1, <1>3, <1>5 DEF n, Range

-----------------------------------------------------------------------------
(* The log and the buffers.                                                 *)

(* What is meant of the line that is being typed, of what is before it, and *)
(* of that, since the last flush.                                           *)
LineIn(lg) == MeantIn(lg) \cap OpenIn(lg)
PastIn(lg) == MeantIn(lg) \ OpenIn(lg)
RestIn(lg) == KeptIn(lg) \ OpenIn(lg)

(* Of these, the line after one entry more; and what the entry adds.        *)
StillIn(lg, e) ==
    {i \in LineIn(lg) :
        /\ Role(e) # "kill"
        /\ ~(CountIn(Append(lg, e), "erase", i, Len(lg) + 1) > CountIn(Append(lg, e), "char", i, Len(lg) + 1))}
NewIn(lg, e) == IF Role(e) \in {"raw", "end", "char"} THEN {Len(lg) + 1} ELSE {}

(* The line is taken as it stands, or goes on.                              *)
LEMMA PartsAfter ==
    ASSUME NEW lg \in Seq(Entry), NEW e \in Entry
    PROVE  LET longer == Append(lg, e)
               more   == StillIn(lg, e) \cup NewIn(lg, e)
           IN  IF Role(e) \in Ends
               THEN /\ LineIn(longer) = {} /\ PastIn(longer) = PastIn(lg) \cup more
                    /\ RestIn(longer) = IF Role(e) = "flush" THEN {} ELSE RestIn(lg) \cup more
               ELSE LineIn(longer) = more /\ PastIn(longer) = PastIn(lg) /\ RestIn(longer) = RestIn(lg)
<1> DEFINE longer == Append(lg, e)
           n == Len(lg)
           rubs(i) == CountIn(longer, "erase", i, n + 1) > CountIn(longer, "char", i, n + 1)
           old == 1 .. n
           new == n + 1
<1>1. /\ OpenIn(longer) = IF Role(e) \in Ends THEN {}
                          ELSE IF Role(e) = "char" THEN OpenIn(lg) \cup {new} ELSE OpenIn(lg)
      /\ \A i \in old : i \in MeantIn(longer) <=>
                           /\ i \in MeantIn(lg)
                           /\ i \in OpenIn(lg) => Role(e) # "kill" /\ ~rubs(i)
      /\ new \in MeantIn(longer) <=> Role(e) \in {"raw", "end", "char"}
      /\ MeantIn(longer) \subseteq old \cup {new}
      /\ \A i \in old : i \in KeptIn(longer) <=> /\ i \in MeantIn(longer) /\ Role(e) # "flush"
                                                 /\ i \in MeantIn(lg) => i \in KeptIn(lg)
      /\ new \in KeptIn(longer) <=> new \in MeantIn(longer)
  BY MeantAfter
<1>2. new \notin old
  BY LenProperties
<1>3. /\ MeantIn(lg) \subseteq old /\ OpenIn(lg) \subseteq old /\ KeptIn(lg) \subseteq MeantIn(lg)
      /\ KeptIn(longer) \subseteq MeantIn(longer)
  BY DEF MeantIn, OpenIn, KeptIn
<1>4. \A i \in LineIn(lg) : i \in KeptIn(lg)
  BY DEF LineIn, OpenIn, KeptIn, Ends
<1>5. /\ \A i : i \in StillIn(lg, e) <=> i \in LineIn(lg) /\ Role(e) # "kill" /\ ~rubs(i)
      /\ \A i : i \in NewIn(lg, e) <=> i = new /\ Role(e) \in {"raw", "end", "char"}
  BY DEF StillIn, NewIn
<1>6. /\ "flush" \in Ends /\ "raw" \in Ends /\ "end" \in Ends /\ "char" \notin Ends /\ "kill" \in Ends
      /\ "flush" # "raw" /\ "flush" # "end"
  BY DEF Ends
<1> HIDE DEF longer, n, rubs, old, new
<1>7. CASE Role(e) \in Ends
  <2>1. LineIn(longer) = {}
    BY <1>1, <1>7 DEF LineIn
  <2>2. \A i : i \in PastIn(longer) <=> i \in PastIn(lg) \/ i \in StillIn(lg, e) \/ i \in NewIn(lg, e)
    BY <1>1, <1>2, <1>3, <1>5, <1>6, <1>7 DEF PastIn, LineIn
  <2>3. Role(e) = "flush" => RestIn(longer) = {}
    BY <1>1, <1>3, <1>7 DEF RestIn
  <2>4. Role(e) # "flush" =>
          \A i : i \in RestIn(longer) <=> i \in RestIn(lg) \/ i \in StillIn(lg, e) \/ i \in NewIn(lg, e)
    BY <1>1, <1>2, <1>3, <1>4, <1>5, <1>6, <1>7 DEF RestIn, LineIn
  <2> QED BY <1>7, <2>1, <2>2, <2>3, <2>4 DEF longer
<1>8. CASE Role(e) \notin Ends
  <2>1. \A i : i \in LineIn(longer) <=> i \in StillIn(lg, e) \/ i \in NewIn(lg, e)
    BY <1>1, <1>2, <1>3, <1>5, <1>6, <1>8 DEF LineIn
  <2>2. \A i : i \in PastIn(longer) <=> i \in PastIn(lg)
    BY <1>1, <1>2, <1>3, <1>5, <1>6, <1>8 DEF PastIn
  <2>3. \A i : i \in RestIn(longer) <=> i \in RestIn(lg)
    BY <1>1, <1>2, <1>3, <1>5, <1>6, <1>8 DEF RestIn
  <2>4. /\ LineIn(longer) = StillIn(lg, e) \cup NewIn(lg, e)
        /\ PastIn(longer) = PastIn(lg) /\ RestIn(longer) = RestIn(lg)
    BY <2>1, <2>2, <2>3
  <2> QED BY <1>8, <2>4 DEF longer
<1> QED BY <1>7, <1>8

(* Bytes come in the order of their places, up to top.                      *)
Ordered(lg, top) ==
    /\ lg \in Seq(Entry) /\ top \in Nat
    /\ \A i \in 1 .. Len(lg) : Role(lg[i]) # "flush" => lg[i].place <= top
    /\ \A i, j \in 1 .. Len(lg) :
          i < j /\ Role(lg[i]) # "flush" /\ Role(lg[j]) # "flush" => lg[i].place < lg[j].place

(* What was delivered (d), is ready (r) or in the line (l) is what the log  *)
(* tells; a character of the line is as far from its end as there were more *)
(* characters than erasures since.                                          *)
Told(lg, d, r, l, top) ==
    /\ Ordered(lg, top)
    /\ d \in Seq(Nat) /\ r \in Seq(Nat) /\ l \in Seq(Nat)
    /\ Rises(d) /\ Rises(r) /\ Rises(l) /\ Below(Range(d), Range(r))
    /\ Range(d) \subseteq PlacesIn(lg, PastIn(lg))
    /\ Range(r) = PlacesIn(lg, RestIn(lg)) \ Range(d)
    /\ Range(l) = PlacesIn(lg, LineIn(lg))
    /\ \A i \in LineIn(lg), k \in 1 .. Len(l) :
          lg[i].place = l[k] =>
              CountIn(lg, "char", i, Len(lg)) - CountIn(lg, "erase", i, Len(lg)) = Len(l) - k

(* The line comes after everything before it.                               *)
LEMMA LineIsLast ==
    ASSUME NEW lg, NEW top, Ordered(lg, top)
    PROVE  /\ Below(PlacesIn(lg, PastIn(lg)), PlacesIn(lg, LineIn(lg)))
           /\ RestIn(lg) \subseteq PastIn(lg)
           /\ \A S : S \subseteq MeantIn(lg) => \A x \in PlacesIn(lg, S) : x \in Nat /\ x <= top
           /\ \A i, j \in MeantIn(lg) : lg[i].place = lg[j].place => i = j
<1>1. lg \in Seq(Entry) /\ Len(lg) \in Nat /\ \A i \in 1 .. Len(lg) : lg[i].place \in Nat
  <2>1. lg \in Seq(Entry)
    BY DEF Ordered
  <2>2. Len(lg) \in Nat /\ \A i \in 1 .. Len(lg) : lg[i] \in Entry
    BY <2>1, LenProperties
  <2>3. \A x \in Entry : x.place \in Nat
    BY DEF Entry
  <2> QED BY <2>1, <2>2, <2>3
<1>2. \A i \in MeantIn(lg) : i \in 1 .. Len(lg) /\ Role(lg[i]) # "flush"
  BY DEF MeantIn
<1>3. ASSUME NEW i \in PastIn(lg), NEW j \in LineIn(lg) PROVE lg[i].place < lg[j].place
  <2>1. /\ i \in 1 .. Len(lg) /\ j \in 1 .. Len(lg) /\ i # j
        /\ i \in MeantIn(lg) /\ i \notin OpenIn(lg) /\ j \in MeantIn(lg) /\ j \in OpenIn(lg)
    BY <1>2 DEF PastIn, LineIn
  <2>2. i < j
    <3> SUFFICES ASSUME i > j PROVE FALSE
      BY <2>1
    <3>1. \A l \in j + 1 .. Len(lg) : Role(lg[l]) \notin Ends
      BY <2>1 DEF OpenIn
    <3>2. i \in j + 1 .. Len(lg) /\ \A l \in i + 1 .. Len(lg) : l \in j + 1 .. Len(lg)
      BY <2>1, <1>1
    <3>3. Role(lg[i]) = "char"
      BY <2>1, <3>1, <3>2 DEF MeantIn, Ends
    <3> QED BY <2>1, <3>1, <3>2, <3>3 DEF OpenIn
  <2> QED BY <1>2, <2>1, <2>2 DEF Ordered
<1>4. RestIn(lg) \subseteq PastIn(lg)
  BY DEF RestIn, PastIn, KeptIn
<1>5. ASSUME NEW i \in MeantIn(lg), NEW j \in MeantIn(lg), lg[i].place = lg[j].place PROVE i = j
  <2>1. i \in 1 .. Len(lg) /\ j \in 1 .. Len(lg) /\ lg[i].place \in Nat /\ lg[j].place \in Nat
    BY <1>1, <1>2
  <2>2. ~(i < j) /\ ~(j < i)
    BY <1>2, <1>5, <2>1 DEF Ordered
  <2> QED BY <2>1, <2>2
<1> QED BY <1>1, <1>2, <1>3, <1>4, <1>5 DEF Below, PlacesIn, Ordered

(* Who is left in the line: everybody, but for the last one at an erasure.  *)
LEMMA StillIs ==
    ASSUME NEW lg, NEW d, NEW r, NEW l, NEW top, Told(lg, d, r, l, top), NEW e \in Entry
    PROVE  StillIn(lg, e) = IF Role(e) = "kill" THEN {}
                            ELSE IF Role(e) = "erase" THEN {i \in LineIn(lg) : lg[i].place # l[Len(l)]}
                            ELSE LineIn(lg)
<1> DEFINE n == Len(lg)
           longer == Append(lg, e)
           rubs(i) == CountIn(longer, "erase", i, n + 1) > CountIn(longer, "char", i, n + 1)
           m == Len(l)
<1>1. /\ lg \in Seq(Entry) /\ n \in Nat /\ l \in Seq(Nat) /\ m \in Nat /\ DOMAIN l = 1 .. m
      /\ \A i \in LineIn(lg) : i \in 0 .. n
      /\ \A j \in 1 .. m : l[j] \in Nat
  BY LenProperties DEF Told, Ordered, LineIn, MeantIn
<1>2. ASSUME NEW i \in LineIn(lg)
      PROVE  rubs(i) <=> Role(e) = "erase" /\ lg[i].place = l[m]
  <2>1. PICK k \in 1 .. m : lg[i].place = l[k]
    <3>1. lg[i].place \in Range(l)
      BY DEF Told, PlacesIn
    <3> QED BY <1>1, <3>1 DEF Range
  <2>2. lg[i].place = l[m] <=> k = m
    <3> HIDE DEF m
    <3>1. m \in 1 .. m /\ (k # m => k < m)
      BY <1>1
    <3>2. k < m => l[k] < l[m]
      BY <1>1, <3>1 DEF Told, Rises
    <3>3. l[k] \in Nat /\ l[m] \in Nat
      BY <1>1, <3>1
    <3> QED BY <2>1, <3>1, <3>2, <3>3
  <2> DEFINE chars == CountIn(lg, "char", i, n)
             erasures == CountIn(lg, "erase", i, n)
  <2>3. chars - erasures = m - k
    BY <2>1 DEF Told
  <2>4. /\ CountIn(longer, "erase", i, n + 1) = erasures + (IF Role(e) = "erase" THEN 1 ELSE 0)
        /\ erasures \in Nat
    BY ONLY <1>1, e \in Entry, i \in LineIn(lg), CountAfter
  <2>5. /\ CountIn(longer, "char", i, n + 1) = chars + (IF Role(e) = "char" THEN 1 ELSE 0)
        /\ chars \in Nat
    BY ONLY <1>1, e \in Entry, i \in LineIn(lg), CountAfter
  <2> HIDE DEF chars, erasures, n, longer, m
  <2>6. CASE Role(e) = "erase"
    BY <1>1, <2>2, <2>3, <2>4, <2>5, <2>6
  <2>7. CASE Role(e) = "char"
    BY <1>1, <2>3, <2>4, <2>5, <2>7
  <2>8. CASE Role(e) # "erase" /\ Role(e) # "char"
    BY <1>1, <2>3, <2>4, <2>5, <2>8
  <2> QED BY <2>6, <2>7, <2>8
<1>3. \A i : i \in StillIn(lg, e) <=> i \in LineIn(lg) /\ Role(e) # "kill" /\ ~rubs(i)
  BY DEF StillIn
<1> HIDE DEF rubs
<1>4. CASE Role(e) = "kill"
  BY <1>3, <1>4
<1>5. CASE Role(e) = "erase"
  BY <1>2, <1>3, <1>5
<1>6. CASE Role(e) # "kill" /\ Role(e) # "erase"
  <2>1. \A i : i \in StillIn(lg, e) <=> i \in LineIn(lg)
    BY <1>2, <1>3, <1>6
  <2> QED BY <1>6, <2>1
<1> QED BY <1>4, <1>5, <1>6

-----------------------------------------------------------------------------
(* One entry more, of which the line discipline makes a change.             *)

Comes(e, top, later) ==
    /\ e \in Entry /\ later \in Nat /\ top <= later
    /\ Role(e) # "flush" => top < e.place /\ e.place <= later

NewPlace(e) == IF Role(e) \in {"raw", "end", "char"} THEN {e.place} ELSE {}

(* The places of a longer log.                                              *)
LEMMA PlacesAfter ==
    ASSUME NEW lg, NEW top, Ordered(lg, top), NEW e, NEW later, Comes(e, top, later)
    PROVE  /\ Ordered(Append(lg, e), later)
           /\ \A S : S \subseteq 1 .. Len(lg) => PlacesIn(Append(lg, e), S) = PlacesIn(lg, S)
           /\ \A S : S \subseteq 1 .. Len(lg) =>
                 PlacesIn(Append(lg, e), S \cup NewIn(lg, e)) = PlacesIn(lg, S) \cup NewPlace(e)
<1> DEFINE longer == Append(lg, e)
           n == Len(lg)
<1>1. /\ lg \in Seq(Entry) /\ longer \in Seq(Entry) /\ n \in Nat /\ Len(longer) = n + 1
      /\ longer[n + 1] = e /\ \A i \in 1 .. n : longer[i] = lg[i]
  BY Longer DEF Ordered, Comes
<1>2. /\ \A i \in 1 .. n : lg[i].place \in Nat
      /\ e.place \in Nat
  <2>1. \A i \in 1 .. n : lg[i] \in Entry
    BY <1>1, LenProperties
  <2>2. \A x \in Entry : x.place \in Nat
    BY DEF Entry
  <2> QED BY <2>1, <2>2 DEF Comes
<1>3. \A i \in 1 .. n + 1 : i \in 1 .. n \/ i = n + 1
  BY <1>1
<1>4. \A i \in 1 .. n : ~(n + 1 < i)
  BY <1>1
<1> HIDE DEF longer
<1>5. Ordered(longer, later)
  <2>1. ASSUME NEW i \in 1 .. n + 1, Role(longer[i]) # "flush" PROVE longer[i].place <= later
    <3>1. CASE i \in 1 .. n
      BY <1>1, <1>2, <2>1, <3>1 DEF Ordered, Comes
    <3> QED BY <1>1, <1>3, <2>1, <3>1 DEF Comes
  <2>2. ASSUME NEW i \in 1 .. n + 1, NEW j \in 1 .. n + 1, i < j,
               Role(longer[i]) # "flush", Role(longer[j]) # "flush"
        PROVE  longer[i].place < longer[j].place
    <3>1. CASE i \in 1 .. n /\ j \in 1 .. n
      BY <1>1, <2>2, <3>1 DEF Ordered
    <3>2. CASE i \in 1 .. n /\ j = n + 1
      BY <1>1, <1>2, <2>2, <3>2 DEF Ordered, Comes
    <3> QED BY <1>1, <1>3, <1>4, <2>2, <3>1, <3>2
  <2> HIDE DEF n
  <2> QED BY <1>1, <2>1, <2>2 DEF Ordered, Comes
<1>6. \A S : S \subseteq 1 .. n => PlacesIn(longer, S) = PlacesIn(lg, S)
  BY <1>1 DEF PlacesIn
<1>7. ASSUME NEW S, S \subseteq 1 .. n
      PROVE  PlacesIn(longer, S \cup NewIn(lg, e)) = PlacesIn(lg, S) \cup NewPlace(e)
  <2>1. CASE Role(e) \in {"raw", "end", "char"}
    <3>1. NewIn(lg, e) = {n + 1}
      BY <2>1 DEF NewIn
    <3>2. PlacesIn(longer, S \cup {n + 1}) = PlacesIn(longer, S) \cup {e.place}
      BY <1>1 DEF PlacesIn
    <3> QED BY <1>6, <1>7, <2>1, <3>1, <3>2 DEF NewPlace
  <2>2. CASE Role(e) \notin {"raw", "end", "char"}
    <3>1. NewIn(lg, e) = {}
      BY <2>2 DEF NewIn
    <3> QED BY <1>6, <1>7, <2>2, <3>1 DEF NewPlace
  <2> QED BY <2>1, <2>2
<1> QED BY <1>5, <1>6, <1>7 DEF longer

(* What is still of the line, and what comes, is behind what was before.    *)
MorePlaces(lg, e) == PlacesIn(lg, StillIn(lg, e)) \cup NewPlace(e)

LEMMA MoreIsLast ==
    ASSUME NEW lg, NEW d, NEW r, NEW l, NEW top, Told(lg, d, r, l, top), NEW e, NEW later, Comes(e, top, later)
    PROVE  /\ Below(Range(d), MorePlaces(lg, e)) /\ Below(Range(r), MorePlaces(lg, e))
           /\ PlacesIn(Append(lg, e), StillIn(lg, e) \cup NewIn(lg, e)) = MorePlaces(lg, e)
           /\ PlacesIn(Append(lg, e), PastIn(lg)) = PlacesIn(lg, PastIn(lg))
           /\ PlacesIn(Append(lg, e), RestIn(lg)) = PlacesIn(lg, RestIn(lg))
           /\ Range(d) \subseteq Nat /\ Range(r) \subseteq Nat /\ Range(l) \subseteq Nat
           /\ e.place \in Nat
<1>1. Ordered(lg, top)
  BY DEF Told
<1>2. /\ Below(PlacesIn(lg, PastIn(lg)), PlacesIn(lg, LineIn(lg)))
      /\ RestIn(lg) \subseteq PastIn(lg)
      /\ \A S : S \subseteq MeantIn(lg) => \A x \in PlacesIn(lg, S) : x \in Nat /\ x <= top
  BY <1>1, LineIsLast
<1>3. /\ PastIn(lg) \subseteq MeantIn(lg) /\ PastIn(lg) \subseteq 1 .. Len(lg) /\ RestIn(lg) \subseteq 1 .. Len(lg)
      /\ StillIn(lg, e) \subseteq 1 .. Len(lg) /\ StillIn(lg, e) \subseteq LineIn(lg)
  BY DEF PastIn, RestIn, StillIn, LineIn, KeptIn, MeantIn
<1>4. /\ PlacesIn(Append(lg, e), PastIn(lg)) = PlacesIn(lg, PastIn(lg))
      /\ PlacesIn(Append(lg, e), RestIn(lg)) = PlacesIn(lg, RestIn(lg))
      /\ PlacesIn(Append(lg, e), StillIn(lg, e) \cup NewIn(lg, e)) = PlacesIn(lg, StillIn(lg, e)) \cup NewPlace(e)
  BY <1>1, <1>3, PlacesAfter
<1>5. Range(d) \subseteq PlacesIn(lg, PastIn(lg)) /\ Range(r) \subseteq PlacesIn(lg, PastIn(lg))
  BY <1>2 DEF Told, PlacesIn
<1>6. PlacesIn(lg, StillIn(lg, e)) \subseteq PlacesIn(lg, LineIn(lg))
  BY <1>3 DEF PlacesIn
<1>7. \A x \in PlacesIn(lg, PastIn(lg)) : x \in Nat /\ x <= top
  BY <1>2, <1>3
<1>8. Role(e) # "flush" => \A x \in PlacesIn(lg, PastIn(lg)) : x < e.place
  <2>1. top \in Nat /\ e.place \in Nat
    BY <1>1 DEF Ordered, Comes, Entry
  <2> QED BY <1>7, <2>1 DEF Comes
<1>9. Range(d) \subseteq Nat /\ Range(r) \subseteq Nat /\ Range(l) \subseteq Nat /\ e.place \in Nat
  <2>1. ASSUME NEW q \in Seq(Nat) PROVE Range(q) \subseteq Nat
    BY LenProperties DEF Range
  <2> QED BY <2>1 DEF Told, Comes, Entry
<1>10. Below(PlacesIn(lg, PastIn(lg)), MorePlaces(lg, e))
  BY <1>2, <1>6, <1>8 DEF Below, MorePlaces, NewPlace
<1> QED BY <1>4, <1>5, <1>9, <1>10 DEF Below, MorePlaces

(* The line is taken: by a byte that ends it, or by nobody.                 *)
LEMMA LineTaken ==
    ASSUME NEW lg, NEW d, NEW r, NEW l, NEW top, Told(lg, d, r, l, top), NEW e, NEW later, Comes(e, top, later),
           Role(e) \in Ends \ {"flush"}, NEW m \in Seq(Nat), Rises(m), Range(m) = MorePlaces(lg, e)
    PROVE  Told(Append(lg, e), d, r \o m, <<>>, later)
<1> DEFINE longer == Append(lg, e)
           more == StillIn(lg, e) \cup NewIn(lg, e)
<1>1. /\ lg \in Seq(Entry) /\ e \in Entry /\ d \in Seq(Nat) /\ r \in Seq(Nat)
      /\ Rises(d) /\ Rises(r) /\ Below(Range(d), Range(r))
      /\ Range(d) \subseteq PlacesIn(lg, PastIn(lg))
      /\ Range(r) = PlacesIn(lg, RestIn(lg)) \ Range(d)
      /\ Ordered(lg, top)
  BY DEF Told, Ordered, Comes
<1>2. /\ LineIn(longer) = {} /\ PastIn(longer) = PastIn(lg) \cup more
      /\ RestIn(longer) = RestIn(lg) \cup more
  BY <1>1, PartsAfter
<1>3. /\ Below(Range(d), Range(m)) /\ Below(Range(r), Range(m))
      /\ PlacesIn(longer, more) = Range(m)
      /\ PlacesIn(longer, PastIn(lg)) = PlacesIn(lg, PastIn(lg))
      /\ PlacesIn(longer, RestIn(lg)) = PlacesIn(lg, RestIn(lg))
      /\ Range(d) \subseteq Nat
  BY MoreIsLast
<1>4. r \o m \in Seq(Nat) /\ Rises(r \o m) /\ Range(r \o m) = Range(r) \cup Range(m)
  BY <1>1, <1>3, RisesConcat
<1>5. Ordered(longer, later)
  BY <1>1, PlacesAfter
<1>6. \A S, T : PlacesIn(longer, S \cup T) = PlacesIn(longer, S) \cup PlacesIn(longer, T)
  BY DEF PlacesIn
<1>7. <<>> \in Seq(Nat) /\ Rises(<<>>) /\ Range(<<>>) = {} /\ PlacesIn(longer, {}) = {}
  BY DEF Rises, Range, PlacesIn
<1> HIDE DEF longer, more
<1>8. /\ PlacesIn(longer, PastIn(longer)) = PlacesIn(lg, PastIn(lg)) \cup Range(m)
      /\ PlacesIn(longer, RestIn(longer)) = PlacesIn(lg, RestIn(lg)) \cup Range(m)
  BY <1>2, <1>3, <1>6
<1>9. \A x \in Range(m) : x \notin Range(d)
  BY <1>3 DEF Below
<1>10. Range(r \o m) = PlacesIn(longer, RestIn(longer)) \ Range(d)
  BY <1>1, <1>4, <1>8, <1>9
<1>11. Below(Range(d), Range(r \o m))
  BY <1>1, <1>3, <1>4 DEF Below
<1> QED BY <1>1, <1>2, <1>4, <1>5, <1>7, <1>8, <1>10, <1>11 DEF Told, longer

(* Everything that nobody has read is flushed.                              *)
LEMMA LineFlushed ==
    ASSUME NEW lg, NEW d, NEW r, NEW l, NEW top, Told(lg, d, r, l, top), NEW e, NEW later, Comes(e, top, later),
           Role(e) = "flush"
    PROVE  Told(Append(lg, e), d, <<>>, <<>>, later)
<1> DEFINE longer == Append(lg, e)
           more == StillIn(lg, e) \cup NewIn(lg, e)
<1>1. /\ lg \in Seq(Entry) /\ e \in Entry /\ d \in Seq(Nat) /\ Rises(d)
      /\ Range(d) \subseteq PlacesIn(lg, PastIn(lg)) /\ Ordered(lg, top)
  BY DEF Told, Ordered, Comes
<1>2. LineIn(longer) = {} /\ PastIn(longer) = PastIn(lg) \cup more /\ RestIn(longer) = {}
  <2>1. Role(e) \in Ends
    BY DEF Ends
  <2> QED BY <1>1, <2>1, PartsAfter
<1>3. PlacesIn(longer, PastIn(lg)) = PlacesIn(lg, PastIn(lg))
  BY MoreIsLast
<1>4. Ordered(longer, later)
  BY <1>1, PlacesAfter
<1>5. /\ <<>> \in Seq(Nat) /\ Rises(<<>>) /\ Range(<<>>) = {} /\ PlacesIn(longer, {}) = {}
      /\ PlacesIn(longer, PastIn(lg)) \subseteq PlacesIn(longer, PastIn(lg) \cup more)
  <2>1. <<>> \in Seq(Nat) /\ Rises(<<>>) /\ Range(<<>>) = {}
    BY DEF Rises, Range
  <2> HIDE DEF longer, more
  <2>2. /\ PlacesIn(longer, {}) = {}
        /\ PlacesIn(longer, PastIn(lg)) \subseteq PlacesIn(longer, PastIn(lg) \cup more)
    BY DEF PlacesIn
  <2> QED BY <2>1, <2>2
<1> HIDE DEF longer, more
<1>6. Range(d) \subseteq PlacesIn(longer, PastIn(longer))
  BY <1>1, <1>2, <1>3, <1>5
<1>7. Below(Range(d), Range(<<>>))
  BY <1>5 DEF Below
<1> QED BY <1>1, <1>2, <1>4, <1>5, <1>6, <1>7 DEF Told, longer

(* The line goes on.                                                        *)
LEMMA LineGoesOn ==
    ASSUME NEW lg, NEW d, NEW r, NEW l, NEW top, Told(lg, d, r, l, top), NEW e, NEW later, Comes(e, top, later),
           Role(e) \notin Ends, NEW m \in Seq(Nat), Rises(m), Range(m) = MorePlaces(lg, e),
           \A i \in StillIn(lg, e) \cup NewIn(lg, e), k \in 1 .. Len(m) :
              Append(lg, e)[i].place = m[k] =>
                  CountIn(Append(lg, e), "char", i, Len(lg) + 1) -
                      CountIn(Append(lg, e), "erase", i, Len(lg) + 1) = Len(m) - k
    PROVE  Told(Append(lg, e), d, r, m, later)
<1> DEFINE longer == Append(lg, e)
           more == StillIn(lg, e) \cup NewIn(lg, e)
<1>1. /\ lg \in Seq(Entry) /\ e \in Entry /\ d \in Seq(Nat) /\ r \in Seq(Nat)
      /\ Rises(d) /\ Rises(r) /\ Below(Range(d), Range(r))
      /\ Range(d) \subseteq PlacesIn(lg, PastIn(lg))
      /\ Range(r) = PlacesIn(lg, RestIn(lg)) \ Range(d)
      /\ Ordered(lg, top)
  BY DEF Told, Ordered, Comes
<1>2. LineIn(longer) = more /\ PastIn(longer) = PastIn(lg) /\ RestIn(longer) = RestIn(lg)
  BY <1>1, PartsAfter
<1>3. /\ PlacesIn(longer, more) = Range(m)
      /\ PlacesIn(longer, PastIn(lg)) = PlacesIn(lg, PastIn(lg))
      /\ PlacesIn(longer, RestIn(lg)) = PlacesIn(lg, RestIn(lg))
  BY MoreIsLast
<1>4. Ordered(longer, later)
  BY <1>1, PlacesAfter
<1>5. Len(longer) = Len(lg) + 1
  BY <1>1, Longer
<1>6. \A i \in LineIn(longer), k \in 1 .. Len(m) :
         longer[i].place = m[k] =>
             CountIn(longer, "char", i, Len(longer)) - CountIn(longer, "erase", i, Len(longer)) = Len(m) - k
  BY <1>2, <1>5
<1> HIDE DEF longer, more
<1> QED BY <1>1, <1>2, <1>3, <1>4, <1>6 DEF Told, longer

(* What a line of such a log is.                                            *)
LEMMA LineFacts ==
    ASSUME NEW lg, NEW d, NEW r, NEW l, NEW top, Told(lg, d, r, l, top), NEW e, NEW later, Comes(e, top, later)
    PROVE  /\ lg \in Seq(Entry) /\ e \in Entry /\ e.place \in Nat /\ Len(lg) \in Nat
           /\ d \in Seq(Nat) /\ r \in Seq(Nat) /\ l \in Seq(Nat) /\ Len(l) \in Nat /\ DOMAIN l = 1 .. Len(l)
           /\ Rises(l) /\ Range(l) = PlacesIn(lg, LineIn(lg)) /\ Range(l) \subseteq Nat
           /\ Role(e) # "flush" => Below(Range(l), {e.place})
           /\ \A i \in LineIn(lg) : i \in 1 .. Len(lg) /\ i \in 0 .. Len(lg)
<1>1. /\ lg \in Seq(Entry) /\ e \in Entry /\ d \in Seq(Nat) /\ r \in Seq(Nat) /\ l \in Seq(Nat)
      /\ Rises(l) /\ Range(l) = PlacesIn(lg, LineIn(lg)) /\ Ordered(lg, top) /\ top \in Nat
      /\ Role(e) # "flush" => top < e.place
  BY DEF Told, Ordered, Comes
<1>2. e.place \in Nat /\ Range(l) \subseteq Nat
  BY MoreIsLast
<1>3. \A x \in PlacesIn(lg, LineIn(lg)) : x \in Nat /\ x <= top
  <2>1. LineIn(lg) \subseteq MeantIn(lg)
    BY DEF LineIn
  <2> QED BY <1>1, <2>1, LineIsLast
<1>4. Role(e) # "flush" => Below(Range(l), {e.place})
  BY <1>1, <1>2, <1>3 DEF Below
<1>5. Len(lg) \in Nat /\ Len(l) \in Nat /\ DOMAIN l = 1 .. Len(l)
  BY <1>1, LenProperties
<1>6. \A i \in LineIn(lg) : i \in 1 .. Len(lg)
  BY DEF LineIn, MeantIn
<1>7. \A i \in 1 .. Len(lg) : i \in 0 .. Len(lg)
  BY <1>5
<1> QED BY <1>1, <1>2, <1>4, <1>5, <1>6, <1>7

(* At a byte itself, nothing was counted since.                             *)
LEMMA NoneCounted ==
    ASSUME NEW lg, NEW what, NEW i \in Nat
    PROVE  CountIn(lg, what, i, i) = 0
<1>1. {l \in i + 1 .. i : Role(lg[l]) = what} = {}
  OBVIOUS
<1> QED BY <1>1, FS_EmptySet DEF CountIn

(* ^Z, of which nothing becomes.                                            *)
LEMMA ToldNothing ==
    ASSUME NEW lg, NEW d, NEW r, NEW l, NEW top, Told(lg, d, r, l, top), NEW e, NEW later, Comes(e, top, later),
           Role(e) = "nothing"
    PROVE  Told(Append(lg, e), d, r, l, later)
<1>0. /\ lg \in Seq(Entry) /\ e \in Entry /\ l \in Seq(Nat) /\ Rises(l) /\ Range(l) = PlacesIn(lg, LineIn(lg))
      /\ \A i \in LineIn(lg) : i \in 1 .. Len(lg) /\ i \in 0 .. Len(lg)
  BY LineFacts
<1>1. /\ lg \in Seq(Entry) /\ e \in Entry /\ l \in Seq(Nat) /\ Rises(l) /\ Range(l) = PlacesIn(lg, LineIn(lg))
      /\ \A i \in LineIn(lg) : i \in 0 .. Len(lg) /\ Append(lg, e)[i] = lg[i]
  BY <1>0, Longer
<1>2. StillIn(lg, e) = LineIn(lg) /\ NewIn(lg, e) = {} /\ NewPlace(e) = {}
  BY <1>1, StillIs DEF NewIn, NewPlace
<1>3. Role(e) \notin Ends
  BY DEF Ends
<1>4. ASSUME NEW i \in LineIn(lg), NEW k \in 1 .. Len(l), Append(lg, e)[i].place = l[k]
      PROVE  CountIn(Append(lg, e), "char", i, Len(lg) + 1) -
                 CountIn(Append(lg, e), "erase", i, Len(lg) + 1) = Len(l) - k
  <2>1. CountIn(lg, "char", i, Len(lg)) - CountIn(lg, "erase", i, Len(lg)) = Len(l) - k
    BY <1>1, <1>4 DEF Told
  <2>2. /\ CountIn(Append(lg, e), "char", i, Len(lg) + 1) = CountIn(lg, "char", i, Len(lg)) + 0
        /\ CountIn(lg, "char", i, Len(lg)) \in Nat
    BY ONLY <1>1, i \in LineIn(lg), Role(e) = "nothing", CountAfter
  <2>3. /\ CountIn(Append(lg, e), "erase", i, Len(lg) + 1) = CountIn(lg, "erase", i, Len(lg)) + 0
        /\ CountIn(lg, "erase", i, Len(lg)) \in Nat
    BY ONLY <1>1, i \in LineIn(lg), Role(e) = "nothing", CountAfter
  <2> QED BY <2>1, <2>2, <2>3
<1>5. Range(l) = MorePlaces(lg, e)
  BY <1>1, <1>2 DEF MorePlaces
<1> QED BY <1>1, <1>2, <1>3, <1>4, <1>5, LineGoesOn

(* A character.                                                             *)
LEMMA ToldChar ==
    ASSUME NEW lg, NEW d, NEW r, NEW l, NEW top, Told(lg, d, r, l, top), NEW e, NEW later, Comes(e, top, later),
           Role(e) = "char"
    PROVE  Told(Append(lg, e), d, r, Append(l, e.place), later)
<1> DEFINE m == Append(l, e.place)
           longer == Append(lg, e)
           n == Len(lg)
           size == Len(l)
<1>1. /\ lg \in Seq(Entry) /\ e \in Entry /\ l \in Seq(Nat) /\ Rises(l) /\ Range(l) = PlacesIn(lg, LineIn(lg))
      /\ \A i \in LineIn(lg) : i \in 1 .. n /\ i \in 0 .. n
      /\ n \in Nat /\ size \in Nat /\ DOMAIN l = 1 .. size /\ Range(l) \subseteq Nat /\ e.place \in Nat
      /\ Below(Range(l), {e.place})
  BY LineFacts
<1>0. /\ longer \in Seq(Entry) /\ Len(longer) = n + 1 /\ longer[n + 1] = e
      /\ \A i \in LineIn(lg) : longer[i] = lg[i]
  BY <1>1, Longer
<1>2. StillIn(lg, e) = LineIn(lg) /\ NewIn(lg, e) = {n + 1} /\ NewPlace(e) = {e.place}
  BY <1>1, StillIs DEF NewIn, NewPlace
<1>3. Role(e) \notin Ends
  BY DEF Ends
<1>4. /\ m \in Seq(Nat) /\ Rises(m) /\ Range(m) = Range(l) \cup {e.place}
      /\ Len(m) = size + 1 /\ m[size + 1] = e.place /\ \A k \in 1 .. size : m[k] = l[k]
  BY <1>1, RisesAppend, AppendProperties
<1>5. Range(m) = MorePlaces(lg, e)
  BY <1>1, <1>2, <1>4 DEF MorePlaces
<1>6. \A k \in 1 .. size : l[k] < e.place
  BY <1>1 DEF Below, Range
<1> HIDE DEF m, size
<1>7. ASSUME NEW i \in LineIn(lg), NEW k \in 1 .. size + 1, longer[i].place = m[k]
      PROVE  CountIn(longer, "char", i, n + 1) - CountIn(longer, "erase", i, n + 1) = (size + 1) - k
  <2>1. k \in 1 .. size
    <3>1. lg[i].place \in Range(l)
      BY <1>1 DEF PlacesIn
    <3>2. lg[i].place # e.place
      BY <3>1, <1>1 DEF Below
    <3> QED BY <1>0, <1>1, <1>4, <1>7, <3>2
  <2>2. CountIn(lg, "char", i, n) - CountIn(lg, "erase", i, n) = size - k
    BY <1>0, <1>1, <1>4, <1>7, <2>1 DEF Told, size
  <2>3. CountIn(longer, "char", i, n + 1) = CountIn(lg, "char", i, n) + 1 /\ CountIn(lg, "char", i, n) \in Nat
    BY ONLY <1>1, i \in LineIn(lg), Role(e) = "char", CountAfter
  <2>4. CountIn(longer, "erase", i, n + 1) = CountIn(lg, "erase", i, n) + 0 /\ CountIn(lg, "erase", i, n) \in Nat
    BY ONLY <1>1, i \in LineIn(lg), Role(e) = "char", CountAfter
  <2> HIDE DEF n, longer
  <2> QED BY <1>1, <2>1, <2>2, <2>3, <2>4
<1>8. ASSUME NEW k \in 1 .. size + 1, longer[n + 1].place = m[k]
      PROVE  CountIn(longer, "char", n + 1, n + 1) - CountIn(longer, "erase", n + 1, n + 1) = (size + 1) - k
  <2>1. k = size + 1
    <3>1. k \in 1 .. size => m[k] < e.place
      BY <1>4, <1>6
    <3>2. k \in 1 .. size \/ k = size + 1
      BY <1>1 DEF size
    <3> QED BY <1>0, <1>1, <1>8, <3>1, <3>2
  <2>2. longer \in Seq(Entry) /\ Len(longer) = n + 1 /\ n + 1 \in 0 .. n + 1
    BY <1>0, <1>1
  <2>3. CountIn(longer, "char", n + 1, n + 1) = 0
    BY <2>2, NoneCounted
  <2>4. CountIn(longer, "erase", n + 1, n + 1) = 0
    BY <2>2, NoneCounted
  <2> QED BY <1>1, <2>1, <2>3, <2>4
<1>9. \A i \in StillIn(lg, e) \cup NewIn(lg, e), k \in 1 .. Len(m) :
         longer[i].place = m[k] =>
             CountIn(longer, "char", i, n + 1) - CountIn(longer, "erase", i, n + 1) = Len(m) - k
  BY <1>2, <1>4, <1>7, <1>8
<1> QED BY <1>3, <1>4, <1>5, <1>9, LineGoesOn DEF m

(* The erase key, of a line and of none.                                    *)
LEMMA ToldErase ==
    ASSUME NEW lg, NEW d, NEW r, NEW l, NEW top, Told(lg, d, r, l, top), NEW e, NEW later, Comes(e, top, later),
           Role(e) = "erase"
    PROVE  Told(Append(lg, e), d, r, IF l = <<>> THEN l ELSE Front(l), later)
<1> DEFINE m == IF l = <<>> THEN l ELSE Front(l)
           longer == Append(lg, e)
           n == Len(lg)
           size == Len(l)
<1>1. /\ lg \in Seq(Entry) /\ e \in Entry /\ l \in Seq(Nat) /\ Rises(l) /\ Range(l) = PlacesIn(lg, LineIn(lg))
      /\ \A i \in LineIn(lg) : i \in 1 .. n /\ i \in 0 .. n
      /\ n \in Nat /\ size \in Nat /\ DOMAIN l = 1 .. size
  BY LineFacts
<1>0. \A i \in LineIn(lg) : longer[i] = lg[i]
  BY <1>1, Longer
<1>2. StillIn(lg, e) = {i \in LineIn(lg) : lg[i].place # l[size]} /\ NewIn(lg, e) = {} /\ NewPlace(e) = {}
  BY <1>1, StillIs DEF NewIn, NewPlace
<1>3. Role(e) \notin Ends
  BY DEF Ends
<1>4. CASE l = <<>>
  <2>1. LineIn(lg) = {} /\ Range(l) = {}
    <3>1. Range(l) = {}
      BY <1>4 DEF Range
    <3> QED BY <1>1, <3>1 DEF PlacesIn
  <2>2. StillIn(lg, e) = {} /\ MorePlaces(lg, e) = {}
    BY <1>2, <2>1 DEF MorePlaces, PlacesIn
  <2>3. m = l
    BY <1>4
  <2> QED BY <1>1, <1>2, <1>3, <2>1, <2>2, <2>3, LineGoesOn
<1>5. CASE l # <<>>
  <2>1. /\ m \in Seq(Nat) /\ Rises(m) /\ Len(m) = size - 1 /\ size \in Nat \ {0}
        /\ \A k \in 1 .. size - 1 : m[k] = l[k]
        /\ Range(m) = Range(l) \ {l[size]}
    BY <1>1, <1>5, RisesFront
  <2>2. Range(m) = MorePlaces(lg, e)
    BY <1>1, <1>2, <2>1 DEF MorePlaces, PlacesIn
  <2> HIDE DEF m, size
  <2>3. ASSUME NEW i \in StillIn(lg, e), NEW k \in 1 .. size - 1, longer[i].place = m[k]
        PROVE  CountIn(longer, "char", i, n + 1) - CountIn(longer, "erase", i, n + 1) = (size - 1) - k
    <3>1. i \in LineIn(lg) /\ k \in 1 .. size /\ lg[i].place = l[k]
      <4>1. i \in LineIn(lg) /\ k \in 1 .. size
        BY <1>2, <2>1
      <4> QED BY <1>0, <2>1, <2>3, <4>1
    <3>2. CountIn(lg, "char", i, n) - CountIn(lg, "erase", i, n) = size - k
      BY <3>1 DEF Told, size
    <3>3. CountIn(longer, "char", i, n + 1) = CountIn(lg, "char", i, n) + 0 /\ CountIn(lg, "char", i, n) \in Nat
      BY ONLY <1>1, <3>1, Role(e) = "erase", CountAfter
    <3>4. CountIn(longer, "erase", i, n + 1) = CountIn(lg, "erase", i, n) + 1 /\ CountIn(lg, "erase", i, n) \in Nat
      BY ONLY <1>1, <3>1, Role(e) = "erase", CountAfter
    <3> HIDE DEF n, longer
    <3> QED BY <1>1, <3>1, <3>2, <3>3, <3>4
  <2>4. \A i \in StillIn(lg, e) \cup NewIn(lg, e), k \in 1 .. Len(m) :
           longer[i].place = m[k] =>
               CountIn(longer, "char", i, n + 1) - CountIn(longer, "erase", i, n + 1) = Len(m) - k
    BY <1>2, <2>1, <2>3
  <2> QED BY <1>3, <2>1, <2>2, <2>4, LineGoesOn DEF m
<1> QED BY <1>4, <1>5

(* The keys that end a line, and a byte as it comes.                        *)
LEMMA ToldEnds ==
    ASSUME NEW lg, NEW d, NEW r, NEW l, NEW top, Told(lg, d, r, l, top), NEW e, NEW later, Comes(e, top, later)
    PROVE  /\ Role(e) = "kill" => Told(Append(lg, e), d, r, <<>>, later)
           /\ Role(e) = "eof" => Told(Append(lg, e), d, (r \o l) \o <<>>, <<>>, later)
           /\ Role(e) = "end" => Told(Append(lg, e), d, (r \o l) \o <<e.place>>, <<>>, later)
           /\ Role(e) = "raw" /\ l = <<>> => Told(Append(lg, e), d, Append(r, e.place), <<>>, later)
<1>1. /\ e \in Entry /\ r \in Seq(Nat) /\ l \in Seq(Nat) /\ Rises(l) /\ Range(l) = PlacesIn(lg, LineIn(lg))
      /\ e.place \in Nat
      /\ Role(e) # "flush" => Below(Range(l), {e.place})
  BY ONLY Told(lg, d, r, l, top), Comes(e, top, later), LineFacts
<1>2. Role(e) # "erase" /\ Role(e) # "kill" => StillIn(lg, e) = LineIn(lg)
  BY <1>1, StillIs
<1>3. Role(e) = "kill" => StillIn(lg, e) = {}
  BY <1>1, StillIs
<1>4. <<>> \in Seq(Nat) /\ Rises(<<>>) /\ Range(<<>>) = {} /\ PlacesIn(lg, {}) = {} /\ r \o <<>> = r
  BY <1>1, ConcatEmptySeq DEF Rises, Range, PlacesIn
<1>5. CASE Role(e) = "kill"
  <2>1. Range(<<>>) = MorePlaces(lg, e)
    BY <1>3, <1>4, <1>5 DEF MorePlaces, NewPlace
  <2>2. Role(e) \in Ends \ {"flush"}
    BY <1>5 DEF Ends
  <2>3. Told(Append(lg, e), d, r \o <<>>, <<>>, later)
    BY <1>4, <2>1, <2>2, LineTaken
  <2> QED BY <1>4, <1>5, <2>3
<1>6. CASE Role(e) = "eof"
  <2>1. Range(l) = MorePlaces(lg, e)
    BY <1>1, <1>2, <1>6 DEF MorePlaces, NewPlace
  <2>2. Role(e) \in Ends \ {"flush"}
    BY <1>6 DEF Ends
  <2>3. Told(Append(lg, e), d, r \o l, <<>>, later)
    BY <1>1, <2>1, <2>2, LineTaken
  <2>4. (r \o l) \o <<>> = r \o l
    BY <1>1, ConcatProperties, ConcatEmptySeq
  <2> QED BY <1>6, <2>3, <2>4
<1>7. CASE Role(e) \in {"end", "raw"}
  <2>1. /\ Append(l, e.place) \in Seq(Nat) /\ Rises(Append(l, e.place))
        /\ Range(Append(l, e.place)) = Range(l) \cup {e.place}
    <3>1. Role(e) # "flush" /\ e.place \in Nat /\ Below(Range(l), {e.place})
      BY <1>1, <1>7
    <3> QED BY <1>1, <3>1, RisesAppend
  <2>2. Range(Append(l, e.place)) = MorePlaces(lg, e)
    BY <1>1, <1>2, <1>7, <2>1 DEF MorePlaces, NewPlace
  <2>3. Role(e) \in Ends \ {"flush"}
    BY <1>7 DEF Ends
  <2>4. Told(Append(lg, e), d, r \o Append(l, e.place), <<>>, later)
    BY <2>1, <2>2, <2>3, LineTaken
  <2>5. r \o Append(l, e.place) = (r \o l) \o <<e.place>>
    <3>1. Append(l, e.place) = l \o <<e.place>> /\ <<e.place>> \in Seq(Nat)
      <4>1. e.place \in Nat
        BY <1>1
      <4> QED BY <1>1, <4>1, AppendIsConcat
    <3> QED BY <1>1, <3>1, ConcatAssociative
  <2>6. l = <<>> => (r \o l) \o <<e.place>> = Append(r, e.place)
    BY <1>1, <1>4, AppendIsConcat
  <2> QED BY <1>7, <2>4, <2>5, <2>6
<1> QED BY <1>5, <1>6, <1>7

-----------------------------------------------------------------------------
(* From a byte to a batch.                                                  *)

(* What comes later changes nothing of what was.                            *)
LEMMA ToldLater ==
    ASSUME NEW lg, NEW d, NEW r, NEW l, NEW top, Told(lg, d, r, l, top), NEW later \in Nat, top <= later
    PROVE  Told(lg, d, r, l, later)
<1>1. Ordered(lg, later)
  <2>1. lg \in Seq(Entry) /\ top \in Nat
    BY DEF Told, Ordered
  <2>2. \A i \in 1 .. Len(lg) : lg[i].place \in Nat
    <3>1. \A i \in 1 .. Len(lg) : lg[i] \in Entry
      BY <2>1, LenProperties
    <3>2. \A x \in Entry : x.place \in Nat
      BY DEF Entry
    <3> QED BY <3>1, <3>2
  <2> QED BY <2>1, <2>2 DEF Told, Ordered
<1> QED BY <1>1 DEF Told

(* A read takes the first bytes that are ready.                             *)
LEMMA ToldRead ==
    ASSUME NEW lg, NEW d, NEW r, NEW l, NEW top, Told(lg, d, r, l, top), NEW m \in 0 .. Len(r)
    PROVE  Told(lg, d \o SubSeq(r, 1, m), SubSeq(r, m + 1, Len(r)), l, top)
<1> DEFINE b == SubSeq(r, 1, m)
           c == SubSeq(r, m + 1, Len(r))
<1>1. /\ d \in Seq(Nat) /\ r \in Seq(Nat) /\ Rises(d) /\ Rises(r) /\ Below(Range(d), Range(r))
      /\ Range(d) \subseteq PlacesIn(lg, PastIn(lg))
      /\ Range(r) = PlacesIn(lg, RestIn(lg)) \ Range(d)
      /\ Ordered(lg, top)
  BY DEF Told
<1>2. /\ b \in Seq(Nat) /\ Rises(b) /\ c \in Seq(Nat) /\ Rises(c)
      /\ Range(r) = Range(b) \cup Range(c) /\ Below(Range(b), Range(c))
  BY <1>1, RisesSplit
<1>3. Range(r) \subseteq Nat
  BY <1>1, LenProperties DEF Range
<1> HIDE DEF b, c
<1>4. Below(Range(d), Range(b))
  BY <1>1, <1>2 DEF Below
<1>5. d \o b \in Seq(Nat) /\ Rises(d \o b) /\ Range(d \o b) = Range(d) \cup Range(b)
  BY <1>1, <1>2, <1>4, RisesConcat
<1>6. Below(Range(d \o b), Range(c))
  BY <1>1, <1>2, <1>5 DEF Below
<1>7. Range(d \o b) \subseteq PlacesIn(lg, PastIn(lg))
  <2>1. PlacesIn(lg, RestIn(lg)) \subseteq PlacesIn(lg, PastIn(lg))
    BY <1>1, LineIsLast DEF PlacesIn
  <2> QED BY <1>1, <1>2, <1>5, <2>1
<1>8. Range(c) = PlacesIn(lg, RestIn(lg)) \ Range(d \o b)
  <2>1. \A x \in Range(c) : x \notin Range(b)
    BY <1>2, <1>3 DEF Below
  <2> QED BY <1>1, <1>2, <1>5, <2>1
<1> QED BY <1>1, <1>2, <1>5, <1>6, <1>7, <1>8 DEF Told, b, c

(* What the line discipline does with a byte, by its role.                  *)
LEMMA CookedRole ==
    ASSUME NEW t, Shape(t), NEW k, NEW key \in Key
    PROVE  LET e == [key |-> key, place |-> k, termios |-> t.termios]
               u == FeedCooked(t, k, key)
           IN  /\ u.termios = t.termios
               /\ \/ Role(e) = "flush" /\ u.ready = <<>> /\ u.line = <<>>
                  \/ Role(e) = "nothing" /\ u.ready = t.ready /\ u.line = t.line
                  \/ Role(e) = "raw" /\ ~t.termios.canon /\ u.ready = Append(t.ready, k) /\ u.line = t.line
                  \/ /\ Role(e) = "erase" /\ t.termios.canon /\ u.ready = t.ready
                     /\ u.line = IF t.line = <<>> THEN t.line ELSE Front(t.line)
                  \/ Role(e) = "kill" /\ u.ready = t.ready /\ u.line = <<>>
                  \/ Role(e) = "eof" /\ t.line = <<>> /\ u.ready = t.ready /\ u.line = t.line
                  \/ Role(e) = "eof" /\ u.ready = (t.ready \o t.line) \o <<>> /\ u.line = <<>>
                  \/ Role(e) = "end" /\ u.ready = (t.ready \o t.line) \o <<k>> /\ u.line = <<>>
                  \/ Role(e) = "char" /\ t.termios.canon /\ u.ready = t.ready /\ u.line = Append(t.line, k)
<1> DEFINE e == [key |-> key, place |-> k, termios |-> t.termios]
           u == FeedCooked(t, k, key)
           line == IF t.line = <<>> THEN t.line ELSE Front(t.line)
           isig == t.termios.isig
           canon == t.termios.canon
<1>1. /\ \A x : [t EXCEPT !.line = x].line = x /\ [t EXCEPT !.line = x].ready = t.ready
                /\ [t EXCEPT !.line = x].termios = t.termios
      /\ \A x : [t EXCEPT !.ready = x].line = t.line /\ [t EXCEPT !.ready = x].ready = x
                /\ [t EXCEPT !.ready = x].termios = t.termios
      /\ [t EXCEPT !.eof_pending = TRUE].line = t.line /\ [t EXCEPT !.eof_pending = TRUE].ready = t.ready
      /\ [t EXCEPT !.eof_pending = TRUE].termios = t.termios
      /\ Flushed(t).line = <<>> /\ Flushed(t).ready = <<>> /\ Flushed(t).termios = t.termios
      /\ \A x : Commit(t, x).line = <<>> /\ Commit(t, x).ready = (t.ready \o t.line) \o x
                /\ Commit(t, x).termios = t.termios
  BY DEF Shape, Fields, Flushed, Commit
<1>2. e.key = key /\ e.termios = t.termios /\ key # "flush"
  BY DEF Key
<1> HIDE DEF e
<1>3. CASE isig /\ key = "intr"
  <2>1. Role(e) = "flush" /\ u = Flushed(t)
    BY <1>2, <1>3 DEF Role, FeedCooked
  <2> QED BY <1>1, <2>1 DEF e
<1>4. CASE ~(isig /\ key = "intr") /\ isig /\ key = "susp"
  <2>1. Role(e) = "nothing" /\ u = t
    BY <1>2, <1>4 DEF Role, FeedCooked
  <2> QED BY <2>1 DEF e
<1>5. CASE ~(isig /\ key = "intr") /\ ~(isig /\ key = "susp") /\ ~canon
  <2>1. Role(e) = "raw" /\ u = [t EXCEPT !.ready = Append(t.ready, k)]
    BY <1>2, <1>5 DEF Role, FeedCooked
  <2> QED BY <1>1, <1>5, <2>1 DEF e
<1>6. CASE ~(isig /\ key = "intr") /\ ~(isig /\ key = "susp") /\ canon
  <2>1. CASE key = "erase"
    <3>1. Role(e) = "erase" /\ u = [t EXCEPT !.line = line]
      BY <1>2, <1>6, <2>1 DEF Role, FeedCooked
    <3> QED BY <1>1, <1>6, <3>1 DEF e
  <2>2. CASE key = "kill"
    <3>1. Role(e) = "kill" /\ u = [t EXCEPT !.line = <<>>]
      BY <1>2, <1>6, <2>2 DEF Role, FeedCooked
    <3> QED BY <1>1, <3>1 DEF e
  <2>3. CASE key = "eof"
    <3>1. /\ Role(e) = "eof"
          /\ u = IF t.line = <<>> THEN [t EXCEPT !.eof_pending = TRUE] ELSE Commit(t, <<>>)
      BY <1>2, <1>6, <2>3 DEF Role, FeedCooked
    <3>2. CASE t.line = <<>>
      BY <1>1, <3>1, <3>2 DEF e
    <3>3. CASE t.line # <<>>
      <4>1. /\ Commit(t, <<>>).ready = (t.ready \o t.line) \o <<>> /\ Commit(t, <<>>).line = <<>>
            /\ Commit(t, <<>>).termios = t.termios
        BY <1>1
      <4>2. u.ready = (t.ready \o t.line) \o <<>> /\ u.line = <<>> /\ u.termios = t.termios
        BY <3>1, <3>3, <4>1
      <4> QED BY <3>1, <4>2 DEF e
    <3> QED BY <3>2, <3>3
  <2>4. CASE key \in {"newline", "return"}
    <3>1. Role(e) = "end" /\ u = Commit(t, <<k>>)
      BY <1>2, <1>6, <2>4 DEF Role, FeedCooked
    <3>2. /\ Commit(t, <<k>>).ready = (t.ready \o t.line) \o <<k>> /\ Commit(t, <<k>>).line = <<>>
          /\ Commit(t, <<k>>).termios = t.termios
      BY <1>1
    <3>3. u.ready = (t.ready \o t.line) \o <<k>> /\ u.line = <<>> /\ u.termios = t.termios
      BY <3>1, <3>2
    <3> QED BY <3>1, <3>3 DEF e
  <2>5. CASE key \notin {"erase", "kill", "eof", "newline", "return"}
    <3>1. Role(e) = "char" /\ u = [t EXCEPT !.line = Append(t.line, k)]
      BY <1>2, <1>6, <2>5 DEF Role, FeedCooked
    <3> QED BY <1>1, <1>6, <3>1 DEF e
  <2> QED BY <2>1, <2>2, <2>3, <2>4, <2>5
<1> QED BY <1>3, <1>4, <1>5, <1>6

(* What was fed of the input up to place top is told.                       *)
FedTold(s, d, top) ==
    /\ Fed1(s) /\ s.tty.termios \in Mode
    /\ ~s.tty.termios.canon => s.tty.line = <<>>
    /\ Told(s.log, d, s.tty.ready, s.tty.line, top)

(* The line discipline on one byte.                                         *)
LEMMA CookedTold ==
    ASSUME NEW t, Shape(t), NEW k \in Nat, NEW key \in Key, t.termios \in Mode,
           ~t.termios.canon => t.line = <<>>,
           NEW lg, NEW d, NEW top, Told(lg, d, t.ready, t.line, top), top < k
    PROVE  LET e == [key |-> key, place |-> k, termios |-> t.termios]
               u == FeedCooked(t, k, key)
           IN  /\ Told(Append(lg, e), d, u.ready, u.line, k)
               /\ u.termios = t.termios /\ (~t.termios.canon => u.line = <<>>)
<1> DEFINE e == [key |-> key, place |-> k, termios |-> t.termios]
           u == FeedCooked(t, k, key)
<1>1. Comes(e, top, k) /\ e.place = k
  <2>1. top \in Nat
    BY DEF Told, Ordered
  <2> QED BY <2>1 DEF Comes, Entry
<1>2. /\ u.termios = t.termios
      /\ \/ Role(e) = "flush" /\ u.ready = <<>> /\ u.line = <<>>
         \/ Role(e) = "nothing" /\ u.ready = t.ready /\ u.line = t.line
         \/ Role(e) = "raw" /\ ~t.termios.canon /\ u.ready = Append(t.ready, k) /\ u.line = t.line
         \/ /\ Role(e) = "erase" /\ t.termios.canon /\ u.ready = t.ready
            /\ u.line = IF t.line = <<>> THEN t.line ELSE Front(t.line)
         \/ Role(e) = "kill" /\ u.ready = t.ready /\ u.line = <<>>
         \/ Role(e) = "eof" /\ t.line = <<>> /\ u.ready = t.ready /\ u.line = t.line
         \/ Role(e) = "eof" /\ u.ready = (t.ready \o t.line) \o <<>> /\ u.line = <<>>
         \/ Role(e) = "end" /\ u.ready = (t.ready \o t.line) \o <<k>> /\ u.line = <<>>
         \/ Role(e) = "char" /\ t.termios.canon /\ u.ready = t.ready /\ u.line = Append(t.line, k)
  BY CookedRole
<1> HIDE DEF e, u
<1> DEFINE r == t.ready
           l == t.line
           longer == Append(lg, e)
<1>3. Told(lg, d, r, l, top)
  OBVIOUS
<1> HIDE DEF r, l
<1>4. Role(e) = "flush" => Told(longer, d, <<>>, <<>>, k)
  BY <1>1, <1>3, LineFlushed
<1>5. Role(e) = "nothing" => Told(longer, d, r, l, k)
  BY <1>1, <1>3, ToldNothing
<1>6. Role(e) = "erase" => Told(longer, d, r, IF l = <<>> THEN l ELSE Front(l), k)
  BY <1>1, <1>3, ToldErase
<1>7. Role(e) = "char" => Told(longer, d, r, Append(l, k), k)
  <2>1. Role(e) = "char" => Told(longer, d, r, Append(l, e.place), k)
    BY <1>1, <1>3, ToldChar
  <2> QED BY <1>1, <2>1
<1>8. /\ Role(e) = "kill" => Told(longer, d, r, <<>>, k)
      /\ Role(e) = "eof" => Told(longer, d, (r \o l) \o <<>>, <<>>, k)
      /\ Role(e) = "end" => Told(longer, d, (r \o l) \o <<e.place>>, <<>>, k)
      /\ Role(e) = "raw" /\ l = <<>> => Told(longer, d, Append(r, e.place), <<>>, k)
  BY <1>1, <1>3, ToldEnds
<1>9. l = <<>> => (r \o l) \o <<>> = r
  <2>1. r \in Seq(Nat)
    BY <1>3 DEF Told
  <2> QED BY <2>1, ConcatEmptySeq
<1>10. /\ ~t.termios.canon => l = <<>>
       /\ r = t.ready /\ l = t.line
  BY DEF r, l
<1> HIDE DEF longer
<1>11. Told(longer, d, u.ready, u.line, k)
  <2>1. CASE Role(e) = "flush"
    BY <1>2, <1>4, <2>1
  <2>2. CASE Role(e) = "nothing"
    BY <1>2, <1>5, <1>10, <2>2
  <2>3. CASE Role(e) = "raw"
    BY <1>1, <1>2, <1>8, <1>10, <2>3
  <2>4. CASE Role(e) = "erase"
    BY <1>2, <1>6, <1>10, <2>4
  <2>5. CASE Role(e) = "kill"
    BY <1>2, <1>8, <1>10, <2>5
  <2>6. CASE Role(e) = "eof"
    BY <1>2, <1>8, <1>9, <1>10, <2>6
  <2>7. CASE Role(e) = "end"
    BY <1>1, <1>2, <1>8, <1>10, <2>7
  <2>8. CASE Role(e) = "char"
    BY <1>2, <1>7, <1>10, <2>8
  <2> QED BY <1>2, <2>1, <2>2, <2>3, <2>4, <2>5, <2>6, <2>7, <2>8
<1>12. ~t.termios.canon => u.line = <<>>
  BY <1>2
<1> QED BY <1>2, <1>11, <1>12 DEF e, u, longer

(* One byte of the input (_strip_escapes, on_escape).                       *)
LEMMA FeedTold ==
    ASSUME NEW s, NEW d, NEW top, FedTold(s, d, top), NEW k \in Nat, top < k, typed[k] \in Key
    PROVE  FedTold(Feed(s, k), d, k)
<1> DEFINE key == typed[k]
           bare == [s.tty EXCEPT !.armed = FALSE]
           Cook(c) == [s EXCEPT !.tty = FeedCooked(bare, k, c),
                                !.log = Append(s.log, [key |-> c, place |-> k, termios |-> s.tty.termios])]
           gone == [s EXCEPT !.tty.armed = FALSE, !.quit = @ \/ key = "x", !.monitor = @ \/ key = "c"]
           held == [s EXCEPT !.tty.armed = TRUE]
<1>1. Feed(s, k) \in {Cook("escape"), gone, held, Cook(key)}
  BY DEF Feed
<1>2. /\ Fed1(s) /\ s.tty.termios \in Mode
      /\ ~s.tty.termios.canon => s.tty.line = <<>>
      /\ Told(s.log, d, s.tty.ready, s.tty.line, top)
  BY DEF FedTold
<1>3. /\ Shape(bare) /\ bare.ready = s.tty.ready /\ bare.line = s.tty.line /\ bare.termios = s.tty.termios
  BY <1>2 DEF Fed1, Shape, Fields
<1> HIDE DEF bare
<1>4. ASSUME NEW c \in Key PROVE FedTold(Cook(c), d, k)
  <2> DEFINE e == [key |-> c, place |-> k, termios |-> bare.termios]
             u == FeedCooked(bare, k, c)
  <2>1. /\ Told(Append(s.log, e), d, u.ready, u.line, k)
        /\ u.termios = bare.termios /\ (~bare.termios.canon => u.line = <<>>)
    BY <1>2, <1>3, CookedTold
  <2>2. Shape(u)
    BY <1>3, CookedEnd
  <2>3. /\ Fed1(Cook(c)) /\ Cook(c).tty = u /\ Cook(c).log = Append(s.log, e)
    BY <1>2, <1>3, <2>2 DEF Fed1
  <2> HIDE DEF u, e, Cook
  <2> QED BY <1>2, <1>3, <2>1, <2>3 DEF FedTold
<1>5. ASSUME NEW x \in {gone, held} PROVE FedTold(x, d, k)
  <2>1. /\ Fed1(x) /\ x.tty.termios = s.tty.termios /\ x.tty.line = s.tty.line /\ x.tty.ready = s.tty.ready
        /\ x.log = s.log
    <3> DEFINE Same(y) == /\ Fed1(y) /\ y.tty.termios = s.tty.termios /\ y.tty.line = s.tty.line
                          /\ y.tty.ready = s.tty.ready /\ y.log = s.log
    <3>1. Same(gone)
      BY <1>2 DEF Fed1, Shape, Fields
    <3>2. Same(held)
      BY <1>2 DEF Fed1, Shape, Fields
    <3> HIDE DEF Same, gone, held
    <3>3. Same(x)
      BY <1>5, <3>1, <3>2
    <3> QED BY <3>3 DEF Same
  <2>2. Told(s.log, d, s.tty.ready, s.tty.line, k)
    <3>1. top \in Nat
      BY <1>2 DEF Told, Ordered
    <3> QED BY <1>2, <3>1, ToldLater
  <2> HIDE DEF gone, held
  <2> QED BY <1>2, <2>1, <2>2 DEF FedTold
<1>6. "escape" \in Key /\ key \in Key
  BY DEF Key
<1> HIDE DEF Cook, gone, held
<1> QED BY <1>1, <1>4, <1>5, <1>6

(* Any number of bytes, that come one after the other.                      *)
LEMMA FedIntoTold ==
    ASSUME NEW s, NEW d, NEW top \in Nat, FedTold(s, d, top), NEW batch \in Seq(Nat),
           \A i \in 1 .. Len(batch) : batch[i] = top + i /\ typed[batch[i]] \in Key
    PROVE  FedTold(FedInto(s, batch), d, top + Len(batch))
<1> DEFINE N == Len(batch)
<1>1. N \in Nat
  BY LenProperties
<1>2. PICK f : FedUpTo(s, batch, N, f) /\ FedInto(s, batch) = f[N]
  BY FedIntoUnfolds
<1>3. \A i \in 1 .. N : batch[i] = top + i /\ typed[batch[i]] \in Key
  OBVIOUS
<1> HIDE DEF N
<1> DEFINE S == {n \in 0 .. N : FedTold(f[n], d, top + n)}
<1>4. \A i \in 0 .. N : f[i] = IF i = 0 THEN s ELSE Feed(f[i - 1], batch[i])
  BY <1>2 DEF FedUpTo
<1>5. 0 \in S
  <2>1. f[0] = s /\ top + 0 = top /\ 0 \in 0 .. N
    BY <1>1, <1>4
  <2> QED BY <2>1
<1>6. ASSUME NEW n \in 0 .. N, n \in S, n < N PROVE n + 1 \in S
  <2>1. /\ n + 1 \in 0 .. N /\ n + 1 # 0 /\ (n + 1) - 1 = n /\ n + 1 \in 1 .. N
        /\ top + n < top + (n + 1) /\ top + (n + 1) \in Nat
    BY <1>1, <1>6
  <2>2. f[n + 1] = Feed(f[n], batch[n + 1])
    BY <1>4, <2>1
  <2>3. batch[n + 1] = top + (n + 1) /\ typed[batch[n + 1]] \in Key
    BY <1>3, <2>1
  <2>4. FedTold(Feed(f[n], top + (n + 1)), d, top + (n + 1))
    BY <1>6, <2>1, <2>3, FeedTold
  <2> QED BY <2>1, <2>2, <2>3, <2>4
<1>7. N \in S
  <2> HIDE DEF S
  <2>1. \A n \in 0 .. N : n \in S
    BY <1>1, <1>5, <1>6, CountUp
  <2> QED BY <1>1, <2>1
<1> QED BY <1>2, <1>7 DEF N

-----------------------------------------------------------------------------
(* The terminal.                                                            *)

(* What is in the batch comes next, and everything before it is told.       *)
Fed0 == polled - Len(pump.batch)
ReadInv ==
    /\ EInv
    /\ Fed0 \in Nat /\ \A i \in 1 .. Len(pump.batch) : pump.batch[i] = Fed0 + i
    /\ tty.termios \in Mode
    /\ Told(log, delivered, tty.ready, tty.line, Fed0)

(* After a pump everything that was polled is told.                         *)
LEMMA SettledTold ==
    ASSUME ReadInv, BetweenLines
    PROVE  FedTold(Settled, delivered, polled)
<1> DEFINE s == [tty |-> tty, quit |-> quit_requested, monitor |-> monitor_pending, log |-> log]
           f == FedInto(s, pump.batch)
           u == [f EXCEPT !.tty.eof_pending = @ \/ (AtEof /\ tty.ready = <<>>)]
<1>1. Fed1(s) /\ s.tty = tty /\ s.log = log
  BY DEF ReadInv, EInv, HostTypes, Fed1
<1>2. Fed(pump.batch) = f
  BY DEF Fed
<1> HIDE DEF s
<1>3. FedTold(s, delivered, Fed0)
  BY <1>1 DEF FedTold, ReadInv, BetweenLines
<1>4. /\ pump.batch \in Seq(Nat) /\ Fed0 \in Nat /\ Fed0 + Len(pump.batch) = polled
      /\ \A i \in 1 .. Len(pump.batch) : pump.batch[i] = Fed0 + i /\ typed[pump.batch[i]] \in Key
  <2>1. /\ pump.batch \in Seq(Nat) /\ polled \in Nat /\ polled <= Available
        /\ \A i \in DOMAIN pump.batch : pump.batch[i] \in 1 .. polled
        /\ typed \in Seq(Key)
    BY DEF ReadInv, EInv, HostTypes
  <2>2. Len(pump.batch) \in Nat /\ DOMAIN pump.batch = 1 .. Len(pump.batch)
    BY <2>1, LenProperties
  <2>3. Available \in Nat /\ Available <= Len(typed) /\ Len(typed) \in Nat
    BY HostFacts DEF ReadInv, EInv
  <2>4. \A k \in 1 .. Len(typed) : typed[k] \in Key
    BY <2>1, LenProperties
  <2>5. \A k \in 1 .. polled : k \in 1 .. Len(typed)
    BY <2>1, <2>3
  <2>6. Fed0 \in Nat /\ \A i \in 1 .. Len(pump.batch) : pump.batch[i] = Fed0 + i
    BY DEF ReadInv
  <2>7. \A i \in 1 .. Len(pump.batch) : typed[pump.batch[i]] \in Key
    BY <2>1, <2>2, <2>4, <2>5
  <2>8. Fed0 + Len(pump.batch) = polled
    BY <2>1, <2>2 DEF Fed0
  <2> QED BY <2>1, <2>6, <2>7, <2>8
<1>5. FedTold(f, delivered, polled)
  BY <1>3, <1>4, FedIntoTold
<1>6. Settled = IF pump.batch # <<>> THEN f ELSE u
  BY <1>2 DEF Settled
<1> HIDE DEF f
<1>7. FedTold(u, delivered, polled)
  <2>1. /\ Fed1(u) /\ u.tty.ready = f.tty.ready /\ u.tty.line = f.tty.line /\ u.tty.termios = f.tty.termios
        /\ u.log = f.log
    BY <1>5 DEF FedTold, Fed1, Shape, Fields
  <2> HIDE DEF u
  <2> QED BY <1>5, <2>1 DEF FedTold
<1> QED BY <1>5, <1>6, <1>7

(* Nothing is told while the host works, or a poll takes a batch.           *)
LEMMA ReadKeptByOthers ==
    ASSUME ReadInv, EInv', UNCHANGED <<polled, pump, tty, log, delivered>>
    PROVE  ReadInv'
BY DEF ReadInv, Fed0

(* A poll takes a batch that begins where the last one ended.               *)
LEMMA ReadKeptByPoll ==
    ASSUME ReadInv, EInv', NEW by, Poll(by)
    PROVE  ReadInv'
<1> DEFINE batch == [i \in 1 .. Available - polled |-> polled + i]
<1>1. /\ pump = NoPump /\ pump'.batch = batch /\ polled' = Available
      /\ UNCHANGED <<tty, log, delivered>>
  BY DEF Poll
<1>2. polled \in Nat /\ Available \in Nat /\ polled <= Available
  BY HostFacts DEF ReadInv, EInv, HostTypes
<1>3. Len(batch) = Available - polled /\ \A i \in 1 .. Len(batch) : batch[i] = polled + i
  BY <1>2
<1>4. Len(pump.batch) = 0
  BY <1>1 DEF NoPump
<1> HIDE DEF batch
<1>5. Fed0 = polled /\ Fed0' = polled
  BY <1>1, <1>2, <1>3, <1>4 DEF Fed0
<1> QED BY <1>1, <1>2, <1>3, <1>5 DEF ReadInv

(* A pump ends: in the loop, or in a call, which takes what it can.         *)
LEMMA ReadKeptByPump ==
    ASSUME ReadInv, BetweenLines, EInv', NEW r, NEW n \in 1 .. 2, LoopWakes \/ ReadResult(r, n)
    PROVE  ReadInv'
<1> DEFINE t == Settled.tty
<1>1. /\ Shape(t) /\ t.termios \in Mode
      /\ Told(Settled.log, delivered, t.ready, t.line, polled)
  BY SettledTold DEF FedTold, Fed1
<1>2. polled' = polled /\ pump' = NoPump /\ polled \in Nat
  BY DEF LoopWakes, ReadResult, hostVars, ReadInv, EInv, HostTypes
<1>3. Fed0' = polled /\ Fed0' \in Nat /\ \A i \in 1 .. Len(pump'.batch) : pump'.batch[i] = Fed0' + i
  <2>1. pump'.batch = <<>> /\ Len(<<>>) = 0
    BY <1>2 DEF NoPump
  <2> QED BY <1>2, <2>1 DEF Fed0
<1>4. CASE LoopWakes
  <2>1. tty' = t /\ log' = Settled.log /\ delivered' = delivered
    BY <1>4 DEF LoopWakes
  <2> HIDE DEF t
  <2> QED BY <1>1, <1>3, <2>1 DEF ReadInv
<1>5. CASE ReadResult(r, n)
  <2> DEFINE m == IF n < Len(t.ready) THEN n ELSE Len(t.ready)
  <2>1. /\ tty' = [t EXCEPT !.ready = SubSeq(t.ready, m + 1, Len(t.ready)),
                            !.eof_pending = t.eof_pending /\ t.ready # <<>>]
        /\ log' = Settled.log /\ delivered' = delivered \o SubSeq(t.ready, 1, m)
    BY <1>5 DEF ReadResult
  <2> HIDE DEF t
  <2>2. m \in 0 .. Len(t.ready)
    <3>1. t.ready \in Seq(Nat)
      BY <1>1 DEF Told
    <3>2. Len(t.ready) \in Nat
      BY <3>1, LenProperties
    <3> QED BY <3>2
  <2> HIDE DEF m
  <2>3. tty'.termios = t.termios /\ tty'.line = t.line /\ tty'.ready = SubSeq(t.ready, m + 1, Len(t.ready))
    BY <1>1, <2>1 DEF Shape, Fields
  <2>4. Told(Settled.log, delivered \o SubSeq(t.ready, 1, m), SubSeq(t.ready, m + 1, Len(t.ready)), t.line, polled)
    BY <1>1, <2>2, ToldRead
  <2> QED BY <1>1, <1>3, <2>1, <2>3, <2>4 DEF ReadInv
<1> QED BY <1>4, <1>5

(* A process sets the modes, and may flush.                                 *)
LEMMA ReadKeptByTermios ==
    ASSUME ReadInv, EInv', NEW r, NEW m \in Mode, NEW flush, SetTermios(r, m, flush)
    PROVE  ReadInv'
<1>1. UNCHANGED <<polled, pump, delivered>> /\ Fed0' = Fed0 /\ Shape(tty)
  BY DEF SetTermios, hostVars, Fed0, ReadInv, EInv, HostTypes
<1>2. Told(log, delivered, tty.ready, tty.line, Fed0)
  BY DEF ReadInv
<1>3. CASE flush
  <2> DEFINE e == [key |-> "flush", place |-> 0, termios |-> m]
  <2>1. log' = Append(log, e) /\ tty' = [Flushed(tty) EXCEPT !.termios = m]
    BY <1>3 DEF SetTermios
  <2>2. tty'.termios = m /\ tty'.ready = <<>> /\ tty'.line = <<>>
    BY <1>1, <2>1 DEF Flushed, Shape, Fields
  <2>3. Role(e) = "flush"
    BY DEF Role
  <2>4. Comes(e, Fed0, Fed0)
    BY <2>3 DEF Comes, Entry, ReadInv
  <2> HIDE DEF e
  <2>5. Told(Append(log, e), delivered, <<>>, <<>>, Fed0)
    BY <1>2, <2>3, <2>4, LineFlushed
  <2> QED BY <1>1, <2>1, <2>2, <2>5 DEF ReadInv
<1>4. CASE ~flush
  <2>1. log' = log /\ tty' = [tty EXCEPT !.termios = m]
    BY <1>4 DEF SetTermios
  <2>2. tty'.termios = m /\ tty'.ready = tty.ready /\ tty'.line = tty.line
    BY <1>1, <2>1 DEF Shape, Fields
  <2> QED BY <1>1, <2>1, <2>2 DEF ReadInv
<1> QED BY <1>3, <1>4

(* What Terminal says of its log is what was said here of any log.          *)
LEMMA LogSays ==
    ASSUME log \in Seq(Entry)
    PROVE  Meant = MeantIn(log) /\ Kept = KeptIn(log) /\ \A S : Places(S) = PlacesIn(log, S)
<1>1. Len(log) \in Nat /\ DOMAIN log = 1 .. Len(log)
  BY LenProperties
<1>2. ASSUME NEW i \in 1 .. Len(log) PROVE RubbedOut(i) <=> RubbedIn(log, i)
  <2> DEFINE role == [j \in DOMAIN log |-> Role(log[j])]
             Count(what, j) == Cardinality({l \in i + 1 .. j : role[l] = what})
  <2>1. \A j \in 1 .. Len(log) : role[j] = Role(log[j])
    BY <1>1
  <2>2. RubbedOut(i) <=>
            \E j \in i + 1 .. Len(log) :
                /\ \A l \in i .. j - 1 : role[l] \notin Ends
                /\ role[j] = "kill" \/ Count("erase", j) > Count("char", j)
    BY DEF RubbedOut, Ends
  <2> HIDE DEF role
  <2>3. ASSUME NEW j \in i + 1 .. Len(log)
        PROVE  /\ \A l \in i .. j - 1 : role[l] = Role(log[l])
               /\ role[j] = Role(log[j])
               /\ \A what : Count(what, j) = CountIn(log, what, i, j)
    <3>1. j \in 1 .. Len(log) /\ (\A l \in i .. j - 1 : l \in 1 .. Len(log))
          /\ \A l \in i + 1 .. j : l \in 1 .. Len(log)
      BY <1>1
    <3>2. ASSUME NEW what PROVE {l \in i + 1 .. j : role[l] = what} = {l \in i + 1 .. j : Role(log[l]) = what}
      BY <2>1, <3>1
    <3> QED BY <2>1, <3>1, <3>2 DEF CountIn
  <2> HIDE DEF Count
  <2> QED BY <2>2, <2>3 DEF RubbedIn
<1>3. Meant = MeantIn(log)
  BY <1>1, <1>2 DEF Meant, MeantIn
<1> QED BY <1>3 DEF Kept, KeptIn, Places, PlacesIn

(* What is told is what was typed.                                          *)
LEMMA ToldIsTyped ==
    ASSUME ReadInv
    PROVE  ReadsWhatWasTyped
<1> DEFINE d == delivered
           r == tty.ready
           l == tty.line
<1>1. /\ Ordered(log, Fed0) /\ log \in Seq(Entry)
      /\ d \in Seq(Nat) /\ r \in Seq(Nat) /\ l \in Seq(Nat)
      /\ Rises(d) /\ Rises(r) /\ Rises(l) /\ Below(Range(d), Range(r))
      /\ Range(d) \subseteq PlacesIn(log, PastIn(log))
      /\ Range(r) = PlacesIn(log, RestIn(log)) \ Range(d)
      /\ Range(l) = PlacesIn(log, LineIn(log))
  BY DEF ReadInv, Told, Ordered
<1>2. /\ Below(PlacesIn(log, PastIn(log)), PlacesIn(log, LineIn(log)))
      /\ RestIn(log) \subseteq PastIn(log)
      /\ \A S : S \subseteq MeantIn(log) => \A x \in PlacesIn(log, S) : x \in Nat
  BY <1>1, LineIsLast
<1>3. PlacesIn(log, RestIn(log)) \subseteq PlacesIn(log, PastIn(log))
  BY <1>2 DEF PlacesIn
<1> HIDE DEF d, r, l
<1>4. Below(Range(d), Range(l)) /\ Below(Range(r), Range(l))
  BY <1>1, <1>2, <1>3 DEF Below
<1>5. d \o r \in Seq(Nat) /\ Rises(d \o r) /\ Range(d \o r) = Range(d) \cup Range(r)
  BY <1>1, RisesConcat
<1>6. Rises((d \o r) \o l)
  <2>1. Below(Range(d \o r), Range(l))
    BY <1>4, <1>5 DEF Below
  <2> QED BY <1>1, <1>5, <2>1, RisesConcat
<1>7. Range(r \o l) = Range(r) \cup Range(l)
  BY <1>1, <1>4, RisesConcat
<1>8. PastIn(log) \subseteq MeantIn(log) /\ LineIn(log) \subseteq MeantIn(log)
  BY DEF PastIn, LineIn
<1>9. KeptIn(log) = RestIn(log) \cup LineIn(log)
  <2>1. \A i \in LineIn(log) : i \in KeptIn(log)
    BY DEF LineIn, OpenIn, KeptIn, Ends
  <2>2. \A i \in KeptIn(log) : i \in MeantIn(log)
    BY DEF KeptIn
  <2>3. \A i : i \in KeptIn(log) <=> i \in RestIn(log) \/ i \in LineIn(log)
    BY <2>1, <2>2 DEF RestIn, LineIn
  <2> QED BY <2>3
<1>10. PlacesIn(log, KeptIn(log)) = PlacesIn(log, RestIn(log)) \cup PlacesIn(log, LineIn(log))
  BY <1>9 DEF PlacesIn
<1>11. PlacesIn(log, LineIn(log)) \cap Range(d) = {}
  <2>1. \A x \in PlacesIn(log, LineIn(log)) : x \in Nat
    BY <1>2, <1>8
  <2> QED BY <1>1, <1>4, <2>1 DEF Below
<1>12. Range(d) \subseteq PlacesIn(log, MeantIn(log))
  BY <1>1, <1>8 DEF PlacesIn
<1>13. Range(r \o l) = PlacesIn(log, KeptIn(log)) \ Range(d)
  BY <1>1, <1>7, <1>10, <1>11
<1>14. Places(Meant) = PlacesIn(log, MeantIn(log)) /\ Places(Kept) = PlacesIn(log, KeptIn(log))
  BY <1>1, LogSays
<1> QED BY <1>6, <1>12, <1>13, <1>14 DEF ReadsWhatWasTyped, Rises, d, r, l

(* Nothing was typed, and nothing is told, when the emulator starts.        *)
LEMMA ReadAtFirst ==
    ASSUME Init
    PROVE  ReadInv
<1>1. EInv
  BY EndAtFirst
<1>2. /\ polled = 0 /\ pump.batch = <<>> /\ tty.termios = Cooked /\ tty.ready = <<>> /\ tty.line = <<>>
      /\ log = <<>> /\ delivered = <<>>
  BY DEF Init, NoPump
<1>3. Fed0 = 0
  <2>1. Len(pump.batch) = 0
    BY <1>2
  <2>2. polled = 0
    BY <1>2
  <2> QED BY ONLY <2>1, <2>2 DEF Fed0
<1>4. Told(<<>>, <<>>, <<>>, <<>>, 0)
  <2>1. Ordered(<<>>, 0)
    BY DEF Ordered
  <2>2. LineIn(<<>>) = {} /\ RestIn(<<>>) = {}
    BY DEF LineIn, RestIn, KeptIn, MeantIn
  <2>3. Range(<<>>) = {}
    BY DEF Range
  <2> QED BY <2>1, <2>2, <2>3 DEF Told, Rises, Below, PlacesIn
<1>5. Cooked \in Mode
  BY DEF Cooked, Mode
<1> QED BY <1>1, <1>2, <1>3, <1>4, <1>5 DEF ReadInv

(* Every step keeps it that begins between two lines or in canonical mode.  *)
LEMMA ReadKept ==
    ASSUME ReadInv, BetweenLines, Next
    PROVE  ReadInv'
<1>1. EInv'
  BY EndKept DEF ReadInv
<1>2. CASE Host \/ Stop \/ Monitor \/ SliceEnds
  <2>1. UNCHANGED <<pump, tty, log, delivered>>
    BY <1>2 DEF Host, Stop, Monitor, SliceEnds
  <2>2. polled' = polled
    BY <1>2 DEF Host, CloseInput, Type, ThreadReads, Stop, Monitor, SliceEnds, hostVars
  <2> QED BY <1>1, <2>1, <2>2, ReadKeptByOthers
<1>3. CASE LoopPolls
  BY <1>1, <1>3, ReadKeptByPoll DEF LoopPolls
<1>4. CASE LoopWakes
  <2>1. 1 \in 1 .. 2
    OBVIOUS
  <2> QED BY <1>1, <1>4, <2>1, ReadKeptByPump
<1>5. ASSUME NEW r \in setup.readers, Process(r) PROVE ReadInv'
  <2>1. CASE ReadPolls(r)
    BY <1>1, <2>1, ReadKeptByPoll DEF ReadPolls
  <2>2. ASSUME NEW n \in 1 .. 2, ReadReturns(r, n) PROVE ReadInv'
    BY <1>1, <2>2, ReadKeptByPump DEF ReadReturns
  <2>3. ASSUME NEW m \in setup.modes, NEW flush \in BOOLEAN, SetTermios(r, m, flush) PROVE ReadInv'
    <3>1. m \in Mode
      BY DEF ReadInv, EInv, HostTypes, Setup
    <3> QED BY <1>1, <2>3, <3>1, ReadKeptByTermios
  <2>4. CASE Interrupt(r)
    BY <1>1, <2>4, ReadKeptByOthers DEF Interrupt, hostVars
  <2> QED BY <1>5, <2>1, <2>2, <2>3, <2>4 DEF Process
<1> QED BY <1>2, <1>3, <1>4, <1>5 DEF Next

(* What programs get is what was typed and not rubbed out or flushed, in    *)
(* that order, each byte once: through the line buffer and the bytes that   *)
(* are ready (TTY._feed_cooked, TTY.read), whatever the mode, whoever reads *)
(* and however the bytes fall into batches.  A program that leaves          *)
(* canonical mode in the middle of a line has the line begun come behind    *)
(* what is typed next (TCSETS in TTY.ioctl leaves both buffers): hence the  *)
(* condition.                                                               *)
THEOREM TypedIsRead == Spec /\ []BetweenLines => []ReadsWhatWasTyped
<1>1. Init => ReadInv
  BY ReadAtFirst
<1>2. ReadInv /\ BetweenLines /\ [Next]_vars => ReadInv'
  <2>1. ASSUME ReadInv, UNCHANGED vars PROVE ReadInv'
    <3>1. EInv'
      BY <2>1, OtherStep DEF vars, ReadInv
    <3> QED BY <2>1, <3>1, ReadKeptByOthers DEF vars, hostVars
  <2> QED BY <2>1, ReadKept
<1>3. ReadInv => ReadsWhatWasTyped
  BY ToldIsTyped
<1> QED BY <1>1, <1>2, <1>3, PTL DEF Spec

(* So does every step of a slice that a debugger plays.                     *)
LEMMA ReadKeptDebugging ==
    ASSUME ReadInv, BetweenLines, Debugs
    PROVE  ReadInv'
<1>1. EInv'
  BY EndKeptDebugging DEF ReadInv
<1>2. CASE Host \/ Stop \/ Interact \/ DebugSliceEnds
  <2>1. UNCHANGED <<pump, tty, log, delivered>>
    BY <1>2 DEF Host, Stop, Interact, Monitor, DebugSliceEnds, SliceEnds
  <2>2. polled' = polled
    BY <1>2 DEF Host, CloseInput, Type, ThreadReads, Stop, Interact, Monitor, DebugSliceEnds, SliceEnds, hostVars
  <2> QED BY <1>1, <2>1, <2>2, ReadKeptByOthers
<1>3. CASE LoopPolls
  BY <1>1, <1>3, ReadKeptByPoll DEF LoopPolls
<1>4. CASE LoopWakes
  <2>1. 1 \in 1 .. 2
    OBVIOUS
  <2> QED BY <1>1, <1>4, <2>1, ReadKeptByPump
<1>5. ASSUME NEW r \in setup.readers, Pick(r) \/ Compute(r) \/ Exits(r) \/ Deliver(r) PROVE ReadInv'
  <2>1. UNCHANGED <<hostVars, pump, tty, log, delivered>>
    BY <1>5 DEF Pick, Compute, Exits, Deliver, vars
  <2> QED BY <1>1, <2>1, ReadKeptByOthers DEF hostVars
<1>6. ASSUME NEW r \in setup.readers, Reads(r) PROVE ReadInv'
  <2>1. CASE ReadPolls(r)
    BY <1>1, <2>1, ReadKeptByPoll DEF ReadPolls
  <2>2. ASSUME NEW n \in 1 .. 2, ReadResult(r, n) PROVE ReadInv'
    BY <1>1, <2>2, ReadKeptByPump
  <2> QED BY <1>6, <2>1, <2>2 DEF Reads
<1> QED BY <1>2, <1>3, <1>4, <1>5, <1>6 DEF Debugs

(* What programs get is what was typed, also where somebody debugs: slices  *)
(* end anywhere, and processes go away.                                     *)
THEOREM TypedIsReadDebugging == DebugSpec /\ []BetweenLines => []ReadsWhatWasTyped
<1>1. DebugInit => ReadInv
  BY ReadAtFirst DEF DebugInit
<1>2. ReadInv /\ BetweenLines /\ [DebugNext]_allVars => ReadInv'
  <2>1. ASSUME ReadInv, UNCHANGED allVars PROVE ReadInv'
    <3>1. EInv'
      BY <2>1, OtherStep DEF allVars, vars, ReadInv
    <3> QED BY <2>1, <3>1, ReadKeptByOthers DEF allVars, vars, hostVars
  <2> QED BY <2>1, ReadKept, ReadKeptDebugging DEF DebugNext
<1>3. ReadInv => ReadsWhatWasTyped
  BY ToldIsTyped
<1> QED BY <1>1, <1>2, <1>3, PTL DEF DebugSpec
================================================================================
