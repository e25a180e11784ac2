---------------------------- MODULE Processes_proofs ----------------------------
(***************************************************************************)
(* Proofs about Processes and Scheduler, for any number of processes, any  *)
(* set of signals, any dispositions and any limit of idle rounds.          *)
(***************************************************************************)
EXTENDS Scheduler, SequenceTheorems, FiniteSetTheorems, TLAPS

(* A queue that holds exactly the processes S, each once. *)
QueueOf(q, S) ==
    /\ q \in Seq(Pid)
    /\ \A i, j \in DOMAIN q : q[i] = q[j] => i = j
    /\ \A p \in Pid : (\E i \in DOMAIN q : q[i] = p) <=> p \in S

-----------------------------------------------------------------------------
(* Queues.                                                                  *)

(* An element appended to a queue it is not in.                             *)
LEMMA QueueAppend ==
    ASSUME NEW q, NEW S, QueueOf(q, S), NEW p \in Pid, p \notin S
    PROVE  QueueOf(Append(q, p), S \cup {p})
<1> DEFINE r == Append(q, p)
<1>1. /\ q \in Seq(Pid) /\ r \in Seq(Pid)
      /\ DOMAIN q = 1 .. Len(q) /\ DOMAIN r = 1 .. Len(q) + 1 /\ Len(q) \in Nat
      /\ \A i \in 1 .. Len(q) : r[i] = q[i]
      /\ r[Len(q) + 1] = p
  BY AppendProperties, LenProperties DEF QueueOf
<1>2. \A i \in DOMAIN q : q[i] # p
  BY DEF QueueOf
<1> HIDE DEF r
<1>3. \A i, j \in DOMAIN r : r[i] = r[j] => i = j
  <2> SUFFICES ASSUME NEW i \in DOMAIN r, NEW j \in DOMAIN r, r[i] = r[j] PROVE i = j
    OBVIOUS
  <2>1. CASE i \in DOMAIN q /\ j \in DOMAIN q
    BY <2>1, <1>1 DEF QueueOf
  <2>2. CASE i \notin DOMAIN q \/ j \notin DOMAIN q
    BY <2>2, <1>1, <1>2
  <2> QED BY <2>1, <2>2
<1>4. ASSUME NEW x \in Pid PROVE (\E i \in DOMAIN r : r[i] = x) <=> x \in S \cup {p}
  <2>1. (\E i \in DOMAIN q : q[i] = x) <=> x \in S
    BY DEF QueueOf
  <2>2. (\E i \in DOMAIN r : r[i] = x) <=> x = p \/ \E i \in DOMAIN q : q[i] = x
    BY <1>1
  <2> QED BY <2>1, <2>2
<1> QED BY <1>1, <1>3, <1>4 DEF QueueOf, r

(* RemoveFirst takes the one occurrence of an element away.                 *)
LEMMA QueueRemove ==
    ASSUME NEW q, NEW S, QueueOf(q, S), NEW p \in Pid
    PROVE  QueueOf(RemoveFirst(q, p), S \ {p})
<1>1. q \in Seq(Pid) /\ DOMAIN q = 1 .. Len(q) /\ Len(q) \in Nat
  BY LenProperties DEF QueueOf
<1>2. CASE p \notin S
  <2>1. ~\E i \in 1 .. Len(q) : q[i] = p
    BY <1>1, <1>2 DEF QueueOf
  <2>2. RemoveFirst(q, p) = q
    BY <2>1 DEF RemoveFirst
  <2>3. S \ {p} = S
    BY <1>2
  <2> QED BY <2>2, <2>3
<1>3. CASE p \in S
  <2>1. PICK k \in 1 .. Len(q) : q[k] = p
    BY <1>1, <1>3 DEF QueueOf
  <2>2. {i \in 1 .. Len(q) : q[i] = p} = {k}
    BY <2>1, <1>1 DEF QueueOf
  <2>3. Min({k}) = k
    BY <2>1 DEF Min
  <2>4. SelectInSeq(q, LAMBDA v : v = p) = k
    BY <2>2, <2>3 DEF SelectInSeq
  <2> DEFINE s == SubSeq(q, 1, k - 1)
             t == SubSeq(q, k + 1, Len(q))
             r == s \o t
  <2>5. RemoveFirst(q, p) = r
    BY <2>1, <2>4 DEF RemoveFirst, RemoveAt
  <2>6. /\ s \in Seq(Pid) /\ Len(s) = k - 1
        /\ \A i \in 1 .. k - 1 : s[i] = q[i]
    <3>1. \A i \in 1 .. k - 1 : q[i] \in Pid
      BY <1>1, <2>1, ElementOfSeq
    <3> QED BY <3>1, <1>1, <2>1, SubSeqProperties, Z3
  <2>7. /\ t \in Seq(Pid) /\ Len(t) = Len(q) - k
        /\ \A i \in 1 .. Len(q) - k : t[i] = q[k + i]
    <3>1. \A i \in k + 1 .. Len(q) : q[i] \in Pid
      BY <1>1, <2>1, ElementOfSeq
    <3> HIDE DEF t
    <3>2. /\ t \in Seq(Pid)
          /\ Len(t) = IF k + 1 <= Len(q) THEN Len(q) - (k + 1) + 1 ELSE 0
          /\ \A i \in 1 .. Len(q) - (k + 1) + 1 : t[i] = q[(k + 1) + i - 1]
      BY <3>1, <1>1, <2>1, SubSeqProperties DEF t
    <3>3. Len(q) - (k + 1) + 1 = Len(q) - k /\ Len(t) = Len(q) - k
      <4>1. k \in Nat /\ k <= Len(q) /\ Len(q) \in Nat
        BY <1>1, <2>1
      <4>2. Len(t) = IF k + 1 <= Len(q) THEN Len(q) - (k + 1) + 1 ELSE 0
        BY <3>2
      <4>3. Len(q) - (k + 1) + 1 = Len(q) - k
        BY <4>1
      <4>4. Len(t) = Len(q) - k
        <5>1. CASE k + 1 <= Len(q)
          BY <4>2, <4>3, <5>1
        <5>2. CASE ~(k + 1 <= Len(q))
          BY <4>1, <4>2, <5>2
        <5> QED BY <5>1, <5>2
      <4> QED BY <4>3, <4>4
    <3>4. ASSUME NEW i \in 1 .. Len(q) - k PROVE t[i] = q[k + i]
      <4>1. (k + 1) + i - 1 = k + i
        BY <1>1, <2>1
      <4> QED BY <4>1, <3>2, <3>3
    <3> QED BY <3>2, <3>3, <3>4
  <2> HIDE DEF s, t
  <2>8. /\ r \in Seq(Pid) /\ DOMAIN r = 1 .. Len(q) - 1
        /\ \A i \in 1 .. Len(q) - 1 : r[i] = IF i < k THEN q[i] ELSE q[i + 1]
    <3>1. /\ r \in Seq(Pid) /\ Len(r) = Len(s) + Len(t)
          /\ \A i \in 1 .. Len(s) + Len(t) :
                r[i] = IF i <= Len(s) THEN s[i] ELSE t[i - Len(s)]
      BY <2>6, <2>7, ConcatProperties
    <3>2. Len(s) + Len(t) = Len(q) - 1
      BY <1>1, <2>1, <2>6, <2>7
    <3>3. DOMAIN r = 1 .. Len(q) - 1
      BY <3>1, <3>2, LenProperties
    <3> HIDE DEF r
    <3>4. ASSUME NEW i \in 1 .. Len(q) - 1
          PROVE  r[i] = IF i < k THEN q[i] ELSE q[i + 1]
      <4>1. CASE i < k
        BY <4>1, <1>1, <2>1, <2>6, <3>1, <3>2
      <4>2. CASE i >= k
        <5>1. i - Len(s) \in 1 .. Len(q) - k /\ ~(i <= Len(s))
          BY <4>2, <1>1, <2>1, <2>6
        <5>2. r[i] = t[i - Len(s)] /\ k + (i - Len(s)) = i + 1
          BY <5>1, <1>1, <2>1, <2>6, <3>1, <3>2
        <5>3. t[i - Len(s)] = q[k + (i - Len(s))]
          BY <5>1, <2>7
        <5>4. ~(i < k)
          BY <4>2, <1>1, <2>1
        <5> QED BY <5>2, <5>3, <5>4
      <4> QED BY <4>1, <4>2, <1>1, <2>1
    <3> QED BY <3>1, <3>3, <3>4
  <2> HIDE DEF r
  <2>9. \A i, j \in DOMAIN r : r[i] = r[j] => i = j
    <3> SUFFICES ASSUME NEW i \in DOMAIN r, NEW j \in DOMAIN r, r[i] = r[j] PROVE i = j
      OBVIOUS
    <3> DEFINE a == IF i < k THEN i ELSE i + 1
               b == IF j < k THEN j ELSE j + 1
    <3>1. a \in DOMAIN q /\ b \in DOMAIN q /\ q[a] = q[b]
      BY <2>8, <1>1, <2>1
    <3>2. a = b
      BY <3>1 DEF QueueOf
    <3> QED BY <3>2, <2>8, <1>1, <2>1
  <2>10. ASSUME NEW x \in Pid
         PROVE  (\E i \in DOMAIN r : r[i] = x) <=> x \in S \ {p}
    <3>1. ASSUME NEW i \in DOMAIN r, r[i] = x PROVE x \in S \ {p}
      <4> DEFINE a == IF i < k THEN i ELSE i + 1
      <4>1. a \in DOMAIN q /\ q[a] = x /\ a # k
        BY <3>1, <2>8, <1>1, <2>1
      <4>2. k \in DOMAIN q /\ q[k] = p
        BY <1>1, <2>1
      <4>3. x # p
        BY <4>1, <4>2 DEF QueueOf
      <4> QED BY <4>1, <4>3 DEF QueueOf
    <3>2. ASSUME x \in S \ {p} PROVE \E i \in DOMAIN r : r[i] = x
      <4>1. PICK a \in DOMAIN q : q[a] = x
        BY <3>2 DEF QueueOf
      <4>2. a # k
        BY <4>1, <3>2, <2>1
      <4>3. CASE a < k
        BY <4>1, <4>3, <2>8, <1>1, <2>1
      <4>4. CASE a > k
        <5>1. a - 1 \in 1 .. Len(q) - 1 /\ ~(a - 1 < k) /\ (a - 1) + 1 = a
          BY <4>1, <4>4, <1>1, <2>1
        <5>2. r[a - 1] = x
          BY <5>1, <4>1, <2>8
        <5> QED BY <5>1, <5>2, <2>8
      <4> QED BY <4>1, <4>2, <4>3, <4>4, <1>1, <2>1
    <3> QED BY <3>1, <3>2
  <2> QED BY <2>5, <2>8, <2>9, <2>10 DEF QueueOf
<1> QED BY <1>2, <1>3

(* Pid is finite, so every set of processes counts.                         *)
LEMMA PidFinite ==
    ASSUME NEW W \in SUBSET Pid
    PROVE  IsFiniteSet(W) /\ Cardinality(W) \in Nat
<1>1. IsFiniteSet(Pid)
  BY FS_Interval, ProcessesAssumption DEF Pid
<1> QED BY <1>1, FS_Subset, FS_CardinalityType

(* Waking a set of processes puts them into the queue.                      *)
LEMMA QueueEnqueued ==
    ASSUME NEW S, QueueOf(runq, S), NEW W \in SUBSET Pid, W \cap S = {}, Enqueued(W)
    PROVE  QueueOf(runq', S \cup W)
<1>1. PICK ws \in [1 .. Cardinality(W) -> W] :
          /\ W = {ws[i] : i \in DOMAIN ws}
          /\ \A i, j \in DOMAIN ws : i < j => ws[i] < ws[j]
          /\ runq' = runq \o ws
  BY DEF Enqueued
<1> DEFINE m == Len(runq)
           n == Cardinality(W)
<1>2. m \in Nat /\ n \in Nat /\ DOMAIN runq = 1 .. m /\ DOMAIN ws = 1 .. n
  BY PidFinite, LenProperties DEF QueueOf
<1> HIDE DEF m, n
<1>3. ws \in Seq(Pid) /\ Len(ws) = n
  <2>1. ws \in [1 .. n -> Pid]
    BY <1>1 DEF n
  <2> QED BY <2>1, <1>2
<1>4. /\ runq' \in Seq(Pid) /\ DOMAIN runq' = 1 .. m + n
      /\ \A i \in 1 .. m + n : runq'[i] = IF i <= m THEN runq[i] ELSE ws[i - m]
  <2> DEFINE rq == runq
  <2>1. rq \in Seq(Pid) /\ Len(rq) = m
    BY DEF QueueOf, m
  <2> HIDE DEF rq
  <2>2. /\ rq \o ws \in Seq(Pid)
        /\ Len(rq \o ws) = Len(rq) + Len(ws)
        /\ \A i \in 1 .. Len(rq) + Len(ws) :
              (rq \o ws)[i] = IF i <= Len(rq) THEN rq[i] ELSE ws[i - Len(rq)]
    BY <1>3, <2>1, ConcatProperties
  <2>3. runq' = rq \o ws
    BY <1>1 DEF rq
  <2>4. DOMAIN (rq \o ws) = 1 .. Len(rq \o ws)
    BY <2>2, LenProperties
  <2> QED BY <2>1, <2>2, <2>3, <2>4, <1>3 DEF rq
<1>5. \A i \in 1 .. m : runq[i] \in S
  <2> SUFFICES ASSUME NEW i \in 1 .. m PROVE runq[i] \in S
    OBVIOUS
  <2>1. runq[i] \in Pid
    BY <1>2, ElementOfSeq DEF QueueOf, m
  <2> QED BY <2>1, <1>2 DEF QueueOf
<1>6. \A i, j \in 1 .. n : ws[i] = ws[j] => i = j
  <2> SUFFICES ASSUME NEW i \in 1 .. n, NEW j \in 1 .. n, ws[i] = ws[j], i # j PROVE FALSE
    OBVIOUS
  <2>1. ws[i] \in Int /\ ws[j] \in Int
    BY <1>1, <1>2, <1>3, ProcessesAssumption DEF Pid, n
  <2>2. i < j \/ j < i
    BY <1>2
  <2>3. ws[i] < ws[j] \/ ws[j] < ws[i]
    BY <2>2, <1>1, <1>2
  <2> QED BY <2>1, <2>3
<1>7. \A i, j \in DOMAIN runq' : runq'[i] = runq'[j] => i = j
  <2> SUFFICES ASSUME NEW i \in 1 .. m + n, NEW j \in 1 .. m + n, runq'[i] = runq'[j]
               PROVE  i = j
    BY <1>4
  <2>1. CASE i <= m /\ j <= m
    <3>1. i \in DOMAIN runq /\ j \in DOMAIN runq /\ runq[i] = runq[j]
      BY <2>1, <1>2, <1>4
    <3> QED BY <3>1 DEF QueueOf
  <2>2. CASE i > m /\ j > m
    <3>1. /\ i - m \in 1 .. n /\ j - m \in 1 .. n
          /\ ~(i <= m) /\ ~(j <= m)
      BY <2>2, <1>2
    <3>2. ws[i - m] = ws[j - m]
      BY <3>1, <1>4
    <3>3. i - m = j - m
      BY <3>1, <3>2, <1>6
    <3> QED BY <3>3, <1>2
  <2>3. ASSUME NEW a \in 1 .. m + n, NEW b \in 1 .. m + n, a <= m, b > m
        PROVE  runq'[a] # runq'[b]
    <3>1. a \in 1 .. m /\ b - m \in 1 .. n /\ ~(b <= m)
      BY <2>3, <1>2
    <3>2. runq'[a] \in S /\ runq'[b] \in W
      BY <2>3, <3>1, <1>1, <1>2, <1>4, <1>5
    <3> QED BY <3>2
  <2> QED BY <2>1, <2>2, <2>3, <1>2
<1>8. ASSUME NEW x \in Pid
      PROVE  (\E i \in DOMAIN runq' : runq'[i] = x) <=> x \in S \cup W
  <2>1. ASSUME NEW i \in DOMAIN runq', runq'[i] = x PROVE x \in S \cup W
    <3>1. CASE i <= m
      BY <3>1, <2>1, <1>2, <1>4, <1>5
    <3>2. CASE i > m
      <4>1. i - m \in 1 .. n /\ ~(i <= m)
        BY <3>2, <1>2, <1>4
      <4> QED BY <4>1, <2>1, <1>1, <1>2, <1>4
    <3> QED BY <3>1, <3>2, <1>2, <1>4
  <2>2. ASSUME x \in S PROVE \E i \in DOMAIN runq' : runq'[i] = x
    <3>1. PICK i \in DOMAIN runq : runq[i] = x
      BY <2>2 DEF QueueOf
    <3>2. i \in 1 .. m + n /\ i <= m
      BY <1>2
    <3> QED BY <3>1, <3>2, <1>4
  <2>3. ASSUME x \in W PROVE \E i \in DOMAIN runq' : runq'[i] = x
    <3>1. PICK i \in 1 .. n : ws[i] = x
      BY <2>3, <1>1, <1>2
    <3>2. i + m \in 1 .. m + n /\ ~(i + m <= m) /\ (i + m) - m = i
      BY <1>2
    <3> QED BY <3>1, <3>2, <1>4
  <2> QED BY <2>1, <2>2, <2>3
<1> QED BY <1>4, <1>7, <1>8 DEF QueueOf

(* The head of the queue moved to the back, or dropped.                     *)
LEMMA QueueTail ==
    ASSUME NEW q, NEW S, QueueOf(q, S), q # <<>>
    PROVE  Head(q) \in S /\ Head(q) \in Pid /\ QueueOf(Tail(q), S \ {Head(q)})
<1>1. q \in Seq(Pid) /\ DOMAIN q = 1 .. Len(q) /\ Len(q) \in Nat
  BY LenProperties DEF QueueOf
<1>2. 1 \in DOMAIN q /\ Head(q) = q[1]
  BY <1>1, EmptySeq
<1> DEFINE t == Tail(q)
<1>3. /\ t \in Seq(Pid) /\ DOMAIN t = 1 .. Len(q) - 1
      /\ \A i \in 1 .. Len(q) - 1 : t[i] = q[i + 1]
  BY <1>1, HeadTailProperties, LenProperties
<1> HIDE DEF t
<1>4. Head(q) \in Pid /\ Head(q) \in S
  BY <1>1, <1>2, ElementOfSeq DEF QueueOf
<1>5. \A i, j \in DOMAIN t : t[i] = t[j] => i = j
  <2> SUFFICES ASSUME NEW i \in DOMAIN t, NEW j \in DOMAIN t, t[i] = t[j] PROVE i = j
    OBVIOUS
  <2>1. i + 1 \in DOMAIN q /\ j + 1 \in DOMAIN q /\ q[i + 1] = q[j + 1]
    BY <1>1, <1>3
  <2>2. i + 1 = j + 1
    BY <2>1 DEF QueueOf
  <2> QED BY <2>2, <1>1, <1>3
<1>6. ASSUME NEW x \in Pid
      PROVE  (\E i \in DOMAIN t : t[i] = x) <=> x \in S \ {Head(q)}
  <2>1. ASSUME NEW i \in DOMAIN t, t[i] = x PROVE x \in S \ {Head(q)}
    <3>1. i + 1 \in DOMAIN q /\ q[i + 1] = x /\ i + 1 # 1
      BY <2>1, <1>1, <1>3
    <3>2. q[i + 1] # q[1]
      BY <3>1, <1>2 DEF QueueOf
    <3> QED BY <3>1, <3>2, <1>2 DEF QueueOf
  <2>2. ASSUME x \in S \ {Head(q)} PROVE \E i \in DOMAIN t : t[i] = x
    <3>1. PICK i \in DOMAIN q : q[i] = x
      BY <2>2 DEF QueueOf
    <3>2. i # 1
      BY <3>1, <2>2, <1>2
    <3>3. i - 1 \in 1 .. Len(q) - 1 /\ (i - 1) + 1 = i
      BY <3>2, <1>1
    <3> QED BY <3>1, <3>3, <1>3
  <2> QED BY <2>1, <2>2
<1> QED BY <1>3, <1>4, <1>5, <1>6 DEF QueueOf, t

-----------------------------------------------------------------------------
(* The inductive invariant.                                                 *)

(* A context on an int 0x80 names a call in eax.                            *)
GoodContext(c) == c \in Context /\ (c.eip = "int80" => c.eax \in BlockingCall)

(* A well-formed record; only programs that call alarm arm one.             *)
GoodTask(t) ==
    /\ t \in Task
    /\ GoodContext(t.context)
    /\ \A i \in DOMAIN t.stack : GoodContext(t.stack[i].context)
    /\ t.alarm_at => SIGALRM \in Sigs

(* What a process in state st on channel ch with the record t sleeps on.    *)
SleepsOn(st, ch, t) ==
    st = "SLEEPING" =>
        /\ t.cpu /\ t.restart_syscall
        /\ t.context.eip = "int80"
        /\ ch = ChannelOf(t.context.eax)

TableTypes ==
    /\ next_pid \in 2 .. MaxPid + 1
    /\ state \in [Pid -> State]
    /\ ppid \in [Pid -> 0 .. MaxPid]
    /\ pgrp \in [Pid -> 0 .. MaxPid]
    /\ wait_channel \in [Pid -> Channel]
    /\ task \in [Pid -> Task]
GoodTasks == \A p \in Pid : GoodTask(task[p])
Sleepers  == \A p \in Pid : SleepsOn(state[p], wait_channel[p], task[p])
Fresh     == \A p \in Pid : p >= next_pid => state[p] = "none"
FirstProcess == state[1] # "none" /\ ppid[1] = 0

(* The processes that belong into the queue.                                *)
Queued == {p \in Pid : state[p] = "RUNNING" /\ ~Ghost(p)}

(* The sleepers are part of it for the queue's sake: a wake-up may append   *)
(* only who is not queued and has a CPU.                                    *)
IInv ==
    /\ TableTypes
    /\ GoodTasks
    /\ Sleepers
    /\ Fresh
    /\ FirstProcess
    /\ ParentsCanReap
    /\ QueueOf(runq, Queued)

-----------------------------------------------------------------------------
(* Records.                                                                 *)

(* What programs may set for a signal.                                      *)
LEMMA DispositionTypes ==
    /\ Default \in Disposition /\ Ignore \in Disposition
    /\ Dispositions \subseteq Disposition
BY ProcessesAssumption DEF Default, Ignore, Disposition

(* Process numbers are positive naturals.                                   *)
LEMMA PidFacts ==
    /\ 1 \in Pid /\ 0 \notin Pid
    /\ Pid \subseteq Nat
    /\ MaxPid \in Nat
BY ProcessesAssumption DEF Pid

(* A process in user code stands on no call.                                *)
LEMMA UserContextGood == GoodContext(UserContext)
BY DEF GoodContext, UserContext, Context, NoCall

(* The records that processes start and end with.                           *)
LEMMA NewTaskGood == /\ GoodTask(NewTask) /\ NewTask.cpu
                     /\ GoodTask(NoTask) /\ ~NoTask.cpu
<1>1. << >> \in Seq(Frame) /\ << >> \in Seq(BOOLEAN) /\ DOMAIN << >> = {}
  OBVIOUS
<1>2. [s \in Sigs |-> Default] \in [Sigs -> Disposition]
  BY DispositionTypes
<1>3. UserContext \in Context
  BY UserContextGood DEF GoodContext
<1> DEFINE sa == [s \in Sigs |-> Default]
           e == << >>
<1>4. sa \in [Sigs -> Disposition] /\ e \in Seq(Frame) /\ e \in Seq(BOOLEAN) /\ DOMAIN e = {}
  BY <1>1, <1>2
<1>5. /\ NewTask = [cpu |-> TRUE, leader |-> FALSE, signal |-> {}, blocked |-> {},
                    sigactions |-> sa, alarm_at |-> FALSE,
                    context |-> UserContext, stack |-> e, sigframes |-> e,
                    restart_syscall |-> FALSE]
      /\ NoTask = [NewTask EXCEPT !.cpu = FALSE]
  BY DEF NewTask, NoTask
<1> HIDE DEF sa, e
<1>6. NewTask \in Task /\ NewTask.cpu /\ NewTask.stack = e /\ NewTask.context = UserContext
      /\ ~NewTask.alarm_at
  BY <1>3, <1>4, <1>5 DEF Task
<1>7. NoTask \in Task /\ ~NoTask.cpu /\ NoTask.stack = e /\ NoTask.context = UserContext
      /\ ~NoTask.alarm_at
  BY <1>6, <1>5 DEF Task
<1> QED BY <1>4, <1>6, <1>7, UserContextGood DEF GoodTask

(* Changes of a record that touch neither the CPU, the context nor the      *)
(* stack keep it good, and keep its owner asleep on the same call.          *)
SameMachine(t, u) ==
    /\ u.cpu = t.cpu /\ u.context = t.context /\ u.stack = t.stack
    /\ u.restart_syscall = t.restart_syscall

(* A record changed so is as good as before.                                *)
LEMMA SameMachineGood ==
    ASSUME NEW t, NEW u, NEW st, NEW ch, GoodTask(t), SleepsOn(st, ch, t),
           u \in Task, SameMachine(t, u), u.alarm_at => SIGALRM \in Sigs
    PROVE  GoodTask(u) /\ SleepsOn(st, ch, u) /\ u.cpu = t.cpu
BY DEF GoodTask, SleepsOn, SameMachine

(* A pending signal is added: the record stays good.                        *)
LEMMA SignalAdded ==
    ASSUME NEW t, GoodTask(t), NEW s \in Sigs
    PROVE  LET u == [t EXCEPT !.signal = @ \cup {s}]
           IN  u \in Task /\ SameMachine(t, u) /\ u.alarm_at = t.alarm_at
BY DEF GoodTask, Task, SameMachine

(* Stepping over the int 0x80 leaves user code or an address of no sense.   *)
LEMMA InterruptedGood ==
    ASSUME NEW t, GoodTask(t)
    PROVE  GoodTask(Interrupted(t)) /\ Interrupted(t).cpu = t.cpu
<1> DEFINE c == [eip |-> IF t.context.eip = "int80" THEN "user" ELSE "wild", eax |-> EintrCall]
           u == [t EXCEPT !.context = c, !.restart_syscall = FALSE]
<1>1. GoodContext(c)
  BY DEF GoodContext, Context
<1> HIDE DEF c
<1>2. u \in Task /\ u.cpu = t.cpu /\ u.context = c /\ u.stack = t.stack /\ u.alarm_at = t.alarm_at
  BY <1>1 DEF GoodTask, Task, GoodContext
<1>3. GoodTask(u) /\ u.cpu = t.cpu
  BY <1>1, <1>2 DEF GoodTask
<1>4. Interrupted(t) = IF t.restart_syscall THEN u ELSE t
  BY DEF Interrupted, c
<1> QED BY <1>3, <1>4

(* What post_signal does to a record.                                       *)
LEMMA PostedGood ==
    ASSUME IInv, NEW q \in Pid, NEW s \in Sigs
    PROVE  /\ GoodTask(Posted(q, s)) /\ Posted(q, s).cpu = task[q].cpu
           /\ ~Interrupts(q, s) => SleepsOn(state[q], wait_channel[q], Posted(q, s))
<1> DEFINE t == task[q]
           u == [t EXCEPT !.signal = @ \cup {s}]
<1>1. GoodTask(t) /\ SleepsOn(state[q], wait_channel[q], t)
  BY DEF IInv, GoodTasks, Sleepers
<1>2. u \in Task /\ SameMachine(t, u) /\ u.alarm_at = t.alarm_at
  BY <1>1, SignalAdded
<1>3. Posted(q, s) = IF state[q] = "ZOMBIE" THEN t
                     ELSE IF Interrupts(q, s) THEN Interrupted(u) ELSE u
  BY DEF Posted
<1> HIDE DEF t, u
<1>4. GoodTask(u) /\ SleepsOn(state[q], wait_channel[q], u) /\ u.cpu = t.cpu
  <2>1. u.alarm_at => SIGALRM \in Sigs
    BY <1>1, <1>2 DEF GoodTask
  <2> QED BY <1>1, <1>2, <2>1, SameMachineGood
<1>5. GoodTask(Interrupted(u)) /\ Interrupted(u).cpu = t.cpu
  BY <1>4, InterruptedGood
<1>6. t.cpu = task[q].cpu
  BY DEF t
<1> QED BY <1>1, <1>3, <1>4, <1>5, <1>6

(* A signal taken away before its delivery.                                 *)
LEMMA ConsumedGood ==
    ASSUME IInv, NEW p \in Pid, NEW s \in Sigs
    PROVE  /\ GoodTask(Consumed(p, s)) /\ Consumed(p, s).cpu = task[p].cpu
           /\ SleepsOn(state[p], wait_channel[p], Consumed(p, s))
<1> DEFINE t == task[p]
           u == [t EXCEPT !.signal = @ \ {s}]
<1>1. GoodTask(t) /\ SleepsOn(state[p], wait_channel[p], t)
  BY DEF IInv, GoodTasks, Sleepers
<1>2. u \in Task /\ SameMachine(t, u) /\ (u.alarm_at => SIGALRM \in Sigs)
  BY <1>1 DEF GoodTask, Task, SameMachine
<1>3. Consumed(p, s) = u
  BY DEF Consumed
<1> HIDE DEF t, u
<1>4. t.cpu = task[p].cpu
  BY DEF t
<1> QED BY <1>1, <1>2, <1>3, <1>4, SameMachineGood

(* A frame appended to a stack: every frame holds a good context.           *)
LEMMA FrameAppended ==
    ASSUME NEW k \in Seq(Frame), \A i \in DOMAIN k : GoodContext(k[i].context),
           NEW f \in Frame, GoodContext(f.context)
    PROVE  /\ Append(k, f) \in Seq(Frame)
           /\ \A i \in DOMAIN Append(k, f) : GoodContext(Append(k, f)[i].context)
<1> DEFINE r == Append(k, f)
<1>1. /\ r \in Seq(Frame) /\ Len(k) \in Nat
      /\ DOMAIN k = 1 .. Len(k) /\ DOMAIN r = 1 .. Len(k) + 1
      /\ \A i \in 1 .. Len(k) : r[i] = k[i]
      /\ r[Len(k) + 1] = f
  BY AppendProperties, LenProperties
<1> HIDE DEF r
<1>2. ASSUME NEW i \in DOMAIN r PROVE GoodContext(r[i].context)
  <2>1. CASE i \in DOMAIN k
    BY <2>1, <1>1
  <2>2. CASE i = Len(k) + 1
    BY <2>2, <1>1
  <2> QED BY <2>1, <2>2, <1>1
<1> QED BY <1>1, <1>2 DEF r

(* The front of a sequence.                                                 *)
LEMMA FrontOfSeq ==
    ASSUME NEW S, NEW k \in Seq(S), k # << >>
    PROVE  /\ Front(k) \in Seq(S) /\ Len(k) \in Nat \ {0}
           /\ DOMAIN k = 1 .. Len(k) /\ DOMAIN Front(k) = 1 .. Len(k) - 1
           /\ \A i \in 1 .. Len(k) - 1 : Front(k)[i] = k[i]
<1> DEFINE n == Len(k)
           f == SubSeq(k, 1, n - 1)
<1>1. n \in Nat \ {0} /\ DOMAIN k = 1 .. n
  BY LenProperties, EmptySeq
<1>2. \A i \in 1 .. n - 1 : k[i] \in S
  BY <1>1, ElementOfSeq
<1>3. f \in Seq(S) /\ Len(f) = n - 1 /\ \A i \in 1 .. n - 1 : f[i] = k[i]
  BY <1>1, <1>2, SubSeqProperties, Z3
<1>4. DOMAIN f = 1 .. Len(f)
  BY <1>3, LenProperties
<1>5. Front(k) = f
  BY DEF Front
<1> HIDE DEF f
<1> QED BY <1>1, <1>3, <1>4, <1>5

(* A frame taken off.                                                       *)
LEMMA FrameRemoved ==
    ASSUME NEW k \in Seq(Frame), \A i \in DOMAIN k : GoodContext(k[i].context), k # << >>
    PROVE  /\ Front(k) \in Seq(Frame) /\ Last(k) \in Frame /\ GoodContext(Last(k).context)
           /\ \A i \in DOMAIN Front(k) : GoodContext(Front(k)[i].context)
<1>1. /\ Front(k) \in Seq(Frame) /\ Len(k) \in Nat \ {0}
      /\ DOMAIN k = 1 .. Len(k) /\ DOMAIN Front(k) = 1 .. Len(k) - 1
      /\ \A i \in 1 .. Len(k) - 1 : Front(k)[i] = k[i]
  BY FrontOfSeq
<1>2. Last(k) = k[Len(k)] /\ Len(k) \in 1 .. Len(k)
  BY <1>1 DEF Last
<1>3. Last(k) \in Frame
  BY <1>2, ElementOfSeq
<1>4. GoodContext(Last(k).context)
  BY <1>1, <1>2
<1>5. ASSUME NEW i \in DOMAIN Front(k) PROVE GoodContext(Front(k)[i].context)
  <2>1. i \in DOMAIN k /\ Front(k)[i] = k[i]
    BY <1>1
  <2> QED BY <2>1
<1> QED BY <1>1, <1>3, <1>4, <1>5

(* The record of a process that takes a signal in a handler.                *)
LEMMA FramedGood ==
    ASSUME NEW t, GoodTask(t), NEW s \in Sigs
    PROVE  GoodTask(Framed(t, s)) /\ Framed(t, s).cpu = t.cpu
<1> DEFINE d  == t.sigactions[s]
           f  == FrameOf(t, d)
           sa == IF d.oneshot THEN [t.sigactions EXCEPT ![s].handler = "SIG_DFL"]
                 ELSE t.sigactions
           st == Append(t.stack, f)
           sf == Append(t.sigframes, ~d.nomask)
           b  == t.blocked \cup d.mask
           u  == [t EXCEPT !.context = UserContext, !.stack = st, !.sigframes = sf,
                           !.blocked = b, !.sigactions = sa]
<1>1. t \in Task /\ GoodContext(t.context)
      /\ (\A i \in DOMAIN t.stack : GoodContext(t.stack[i].context))
      /\ (t.alarm_at => SIGALRM \in Sigs)
  BY DEF GoodTask
<1>2. /\ t.sigactions \in [Sigs -> Disposition] /\ t.blocked \in SUBSET Sigs
      /\ t.stack \in Seq(Frame) /\ t.sigframes \in Seq(BOOLEAN)
      /\ t.context \in Context
  BY <1>1 DEF Task
<1>3. d \in Disposition
  BY <1>2
<1> HIDE DEF d
<1>4. d.mask \in SUBSET Sigs /\ d.nomask \in BOOLEAN /\ d.magic \in BOOLEAN
      /\ [d EXCEPT !.handler = "SIG_DFL"] \in Disposition
  BY <1>3 DEF Disposition
<1>5. f \in Frame /\ f.context = t.context
  BY <1>2, <1>4 DEF FrameOf, Frame
<1> HIDE DEF f
<1>6. st \in Seq(Frame) /\ \A i \in DOMAIN st : GoodContext(st[i].context)
  BY <1>1, <1>2, <1>5, FrameAppended
<1>7. sf \in Seq(BOOLEAN)
  <2>1. (~d.nomask) \in BOOLEAN
    OBVIOUS
  <2> QED BY <1>2, <2>1, AppendProperties
<1>8. sa \in [Sigs -> Disposition]
  BY <1>2, <1>4 DEF d
<1>9. b \in SUBSET Sigs
  BY <1>2, <1>4
<1>10. Framed(t, s) = u
  BY DEF Framed, d, f
<1> HIDE DEF sa, st, sf, b
<1>11. UserContext \in Context
  BY UserContextGood DEF GoodContext
<1>12. u \in Task /\ u.cpu = t.cpu /\ u.stack = st /\ u.context = UserContext
       /\ u.alarm_at = t.alarm_at
  BY <1>1, <1>6, <1>7, <1>8, <1>9, <1>11 DEF Task
<1> HIDE DEF u
<1> QED BY <1>1, <1>6, <1>10, <1>12, UserContextGood DEF GoodTask

(* A process that is back in user code.                                     *)
LEMMA BackInUser ==
    ASSUME NEW t, GoodTask(t), NEW c, GoodContext(c)
    PROVE  GoodTask([t EXCEPT !.context = c]) /\ [t EXCEPT !.context = c].cpu = t.cpu
<1> DEFINE u == [t EXCEPT !.context = c]
<1>1. u \in Task /\ u.cpu = t.cpu /\ u.stack = t.stack /\ u.context = c /\ u.alarm_at = t.alarm_at
  BY DEF GoodTask, GoodContext, Task
<1> HIDE DEF u
<1>2. GoodTask(u)
  BY <1>1 DEF GoodTask
<1> QED BY <1>1, <1>2 DEF u

-----------------------------------------------------------------------------
(* Kinds of steps.                                                          *)

(* A step that changes the record of one process, and at most groups.       *)
LEMMA RecordStep ==
    ASSUME IInv, NEW p \in Pid, NEW t,
           GoodTask(t), t.cpu = task[p].cpu, SleepsOn(state[p], wait_channel[p], t),
           task' = [task EXCEPT ![p] = t],
           pgrp' \in [Pid -> 0 .. MaxPid],
           UNCHANGED <<next_pid, state, ppid, wait_channel, runq>>
    PROVE  IInv'
<1>1. /\ task' \in [Pid -> Task]
      /\ \A q \in Pid : task'[q] = IF q = p THEN t ELSE task[q]
  BY DEF IInv, TableTypes, GoodTask
<1>2. TableTypes'
  BY <1>1 DEF IInv, TableTypes
<1>3. GoodTasks'
  BY <1>1 DEF IInv, GoodTasks
<1>4. Sleepers'
  BY <1>1 DEF IInv, Sleepers
<1>5. Fresh' /\ FirstProcess' /\ ParentsCanReap'
  BY DEF IInv, Fresh, FirstProcess, ParentsCanReap, Procs
<1>6. \A q \in Pid : Ghost(q)' = Ghost(q)
  BY <1>1 DEF Ghost, KernelTask
<1>7. Queued' = Queued
  BY <1>6 DEF Queued
<1>8. QueueOf(runq, Queued)'
  BY <1>7 DEF IInv, QueueOf
<1> QED BY <1>2, <1>3, <1>4, <1>5, <1>8 DEF IInv

(* Nobody comes, goes or dies: the family stays as it is.                   *)
LEMMA SameFamily ==
    ASSUME IInv, UNCHANGED <<next_pid, ppid>>,
           \A q \in Pid : /\ state'[q] = "none" <=> state[q] = "none"
                          /\ state'[q] = "ZOMBIE" => state[q] = "ZOMBIE"
    PROVE  Fresh' /\ FirstProcess' /\ ParentsCanReap'
<1>1. Procs' = Procs
  BY DEF Procs
<1>2. Fresh' /\ FirstProcess'
  BY PidFacts DEF IInv, Fresh, FirstProcess
<1>3. ASSUME NEW p \in Procs \ {1}
      PROVE  /\ ppid[p] \in Procs /\ ppid[p] < p
             /\ ppid[p] = 1 \/ state'[ppid[p]] # "ZOMBIE"
  <2>1. /\ ppid[p] \in Procs /\ ppid[p] < p
        /\ ppid[p] = 1 \/ state[ppid[p]] # "ZOMBIE"
    BY DEF IInv, ParentsCanReap
  <2>2. ppid[p] \in Pid
    BY <2>1 DEF Procs
  <2> QED BY <2>1, <2>2
<1>4. ParentsCanReap'
  BY <1>1, <1>3 DEF ParentsCanReap
<1> QED BY <1>2, <1>4

(* A step that wakes the sleepers W.                                        *)
LEMMA WakeStep ==
    ASSUME IInv, NEW W \in SUBSET Pid, \A q \in W : state[q] = "SLEEPING",
           task' \in [Pid -> Task],
           \A q \in Pid : GoodTask(task'[q]) /\ task'[q].cpu = task[q].cpu,
           \A q \in Pid \ W : SleepsOn(state[q], wait_channel[q], task'[q]),
           state' = [q \in Pid |-> IF q \in W THEN "RUNNING" ELSE state[q]],
           wait_channel' = [q \in Pid |-> IF q \in W THEN "none" ELSE wait_channel[q]],
           Enqueued(W),
           UNCHANGED <<next_pid, ppid, pgrp>>
    PROVE  IInv'
<1>1. \A q \in Pid : /\ state'[q] = IF q \in W THEN "RUNNING" ELSE state[q]
                     /\ wait_channel'[q] = IF q \in W THEN "none" ELSE wait_channel[q]
  OBVIOUS
<1>2. \A q \in W : task[q].cpu
  BY DEF IInv, Sleepers, SleepsOn
<1>3. state' \in [Pid -> State] /\ wait_channel' \in [Pid -> Channel]
  <2>1. "RUNNING" \in State /\ "none" \in Channel
    BY DEF State, Channel
  <2> QED BY <2>1 DEF IInv, TableTypes
<1>4. TableTypes'
  BY <1>3, QueueEnqueued DEF IInv, TableTypes
<1>5. GoodTasks'
  BY DEF GoodTasks
<1>6. Sleepers'
  <2>1. ASSUME NEW q \in Pid PROVE SleepsOn(state'[q], wait_channel'[q], task'[q])
    <3>1. CASE q \in W
      BY <3>1, <1>1 DEF SleepsOn
    <3>2. CASE q \notin W
      BY <3>2, <1>1
    <3> QED BY <3>1, <3>2
  <2> QED BY <2>1 DEF Sleepers
<1>7. Fresh' /\ FirstProcess' /\ ParentsCanReap'
  BY <1>1, SameFamily
<1>8. Queued' = Queued \cup W
  <2>1. ASSUME NEW q \in Pid, q \in W
        PROVE  state'[q] = "RUNNING" /\ ~Ghost(q)'
    BY <2>1, <1>1, <1>2 DEF Ghost
  <2>2. ASSUME NEW q \in Pid, q \notin W
        PROVE  state'[q] = state[q] /\ Ghost(q)' = Ghost(q)
    BY <2>2, <1>1 DEF Ghost, KernelTask
  <2> QED BY <2>1, <2>2 DEF Queued
<1>9. W \cap Queued = {}
  BY DEF Queued
<1>10. QueueOf(runq', Queued \cup W)
  BY <1>9, QueueEnqueued DEF IInv
<1>11. QueueOf(runq, Queued)'
  BY <1>8, <1>10 DEF QueueOf
<1> QED BY <1>4, <1>5, <1>6, <1>7, <1>11 DEF IInv

(* A step that takes a live process off the queue, to sleep or to stop.     *)
LEMMA SuspendStep ==
    ASSUME IInv, NEW p \in Pid, state[p] \notin {"none", "ZOMBIE"},
           NEW st \in {"SLEEPING", "STOPPED"}, NEW ch \in Channel, NEW t,
           GoodTask(t), t.cpu = task[p].cpu, SleepsOn(st, ch, t),
           state' = [state EXCEPT ![p] = st],
           wait_channel' = [wait_channel EXCEPT ![p] = ch],
           task' = [task EXCEPT ![p] = t],
           runq' = RemoveFirst(runq, p),
           UNCHANGED <<next_pid, ppid, pgrp>>
    PROVE  IInv'
<1>1. \A q \in Pid : /\ state'[q] = IF q = p THEN st ELSE state[q]
                     /\ wait_channel'[q] = IF q = p THEN ch ELSE wait_channel[q]
                     /\ task'[q] = IF q = p THEN t ELSE task[q]
  BY DEF IInv, TableTypes
<1>2. /\ state' \in [Pid -> State] /\ wait_channel' \in [Pid -> Channel]
      /\ task' \in [Pid -> Task]
  BY DEF IInv, TableTypes, State, GoodTask
<1>3. TableTypes'
  BY <1>2 DEF IInv, TableTypes
<1>4. GoodTasks' /\ Sleepers'
  BY <1>1 DEF IInv, GoodTasks, Sleepers
<1>5. Fresh' /\ FirstProcess' /\ ParentsCanReap'
  BY <1>1, SameFamily
<1>6. Queued' = Queued \ {p}
  <2>1. state'[p] # "RUNNING"
    BY <1>1
  <2>2. ASSUME NEW q \in Pid, q # p
        PROVE  state'[q] = state[q] /\ Ghost(q)' = Ghost(q)
    BY <2>2, <1>1 DEF Ghost, KernelTask
  <2> QED BY <2>1, <2>2 DEF Queued
<1>7. QueueOf(runq', Queued \ {p})
  BY QueueRemove DEF IInv
<1>8. QueueOf(runq, Queued)'
  BY <1>6, <1>7 DEF QueueOf
<1> QED BY <1>3, <1>4, <1>5, <1>8 DEF IInv

(* A process is born: queued, or left half-made.                            *)
LEMMA BirthStep ==
    ASSUME IInv, next_pid <= MaxPid,
           NEW mother \in Procs, mother = 1 \/ state[mother] # "ZOMBIE",
           NEW g \in 0 .. MaxPid, NEW ok \in BOOLEAN,
           task' \in [Pid -> Task], GoodTasks',
           \A q \in Pid \ {next_pid} : /\ task'[q].cpu = task[q].cpu
                                       /\ SleepsOn(state[q], wait_channel[q], task'[q]),
           task'[next_pid].cpu = ok,
           next_pid' = next_pid + 1,
           state' = [state EXCEPT ![next_pid] = "RUNNING"],
           ppid' = [ppid EXCEPT ![next_pid] = mother],
           pgrp' = [pgrp EXCEPT ![next_pid] = g],
           runq' = IF ok THEN Append(runq, next_pid) ELSE runq,
           UNCHANGED wait_channel
    PROVE  IInv'
<1> DEFINE n == next_pid
<1>1. n \in Pid /\ n # 1 /\ n \in Nat /\ n >= 2 /\ n + 1 \in 2 .. MaxPid + 1
  BY ProcessesAssumption DEF IInv, TableTypes, Pid
<1>2. state[n] = "none" /\ mother \in Pid /\ mother < n
  <2>1. state[n] = "none"
    BY <1>1 DEF IInv, Fresh
  <2>2. mother \in Pid /\ state[mother] # "none"
    BY DEF Procs
  <2>3. mother \in Nat /\ ~(mother >= n)
    BY <2>2, PidFacts DEF IInv, Fresh
  <2> QED BY <1>1, <2>1, <2>2, <2>3
<1>3. \A q \in Pid : /\ state'[q] = IF q = n THEN "RUNNING" ELSE state[q]
                     /\ ppid'[q] = IF q = n THEN mother ELSE ppid[q]
  BY DEF IInv, TableTypes
<1>4. TableTypes'
  <2>1. "RUNNING" \in State /\ mother \in 0 .. MaxPid
    BY <1>2, ProcessesAssumption DEF State, Pid
  <2>2. state' \in [Pid -> State] /\ ppid' \in [Pid -> 0 .. MaxPid] /\ pgrp' \in [Pid -> 0 .. MaxPid]
    BY <2>1 DEF IInv, TableTypes
  <2>3. wait_channel' \in [Pid -> Channel] /\ next_pid' \in 2 .. MaxPid + 1
    BY <1>1 DEF IInv, TableTypes
  <2> QED BY <2>2, <2>3 DEF TableTypes
<1> HIDE DEF n
<1>5. Sleepers'
  <2>1. ASSUME NEW q \in Pid PROVE SleepsOn(state'[q], wait_channel'[q], task'[q])
    <3>1. CASE q = n
      BY <3>1, <1>3 DEF SleepsOn
    <3>2. CASE q # n
      BY <3>2, <1>3 DEF n
    <3> QED BY <3>1, <3>2
  <2> QED BY <2>1 DEF Sleepers
<1>6. Fresh'
  <2>1. ASSUME NEW q \in Pid, q >= n + 1 PROVE state'[q] = "none"
    <3>1. q # n /\ q >= n
      BY <2>1, <1>1, PidFacts
    <3> QED BY <3>1, <1>3 DEF IInv, Fresh, n
  <2> QED BY <2>1 DEF Fresh, n
<1>7. FirstProcess'
  BY <1>1, <1>3, PidFacts DEF IInv, FirstProcess
<1>8. ParentsCanReap'
  <2>1. Procs' = Procs \cup {n}
    <3>1. ASSUME NEW q \in Pid
          PROVE  state'[q] # "none" <=> state[q] # "none" \/ q = n
      BY <1>3
    <3> QED BY <3>1, <1>1 DEF Procs
  <2>2. ASSUME NEW p \in Procs' \ {1}
        PROVE  /\ ppid'[p] \in Procs' /\ ppid'[p] < p
               /\ ppid'[p] = 1 \/ state'[ppid'[p]] # "ZOMBIE"
    <3>1. CASE p = n
      BY <3>1, <1>1, <1>2, <1>3, <2>1
    <3>2. CASE p # n
      <4>1. p \in Procs \ {1} /\ p \in Pid
        BY <3>2, <2>1 DEF Procs
      <4>2. ppid'[p] = ppid[p] /\ ppid[p] \in Procs /\ ppid[p] < p
            /\ (ppid[p] = 1 \/ state[ppid[p]] # "ZOMBIE")
        BY <3>2, <4>1, <1>3 DEF IInv, ParentsCanReap
      <4>3. ppid[p] \in Pid /\ ppid[p] # n
        BY <4>2, <1>2 DEF Procs
      <4> QED BY <4>2, <4>3, <1>3, <2>1
    <3> QED BY <3>1, <3>2
  <2> QED BY <2>2 DEF ParentsCanReap
<1>9. QueueOf(runq, Queued)'
  <2>1. \A q \in Pid : q # n => (q \in Queued' <=> q \in Queued)
    BY <1>3 DEF Queued, Ghost, KernelTask, n
  <2>2. n \notin Queued /\ (n \in Queued' <=> ok)
    <3>1. state'[n] = "RUNNING" /\ task'[n].cpu = ok /\ ~KernelTask(n)
      BY <1>1, <1>3 DEF KernelTask, n
    <3>2. n \notin Queued
      BY <1>2 DEF Queued
    <3> QED BY <3>1, <3>2, <1>1 DEF Queued, Ghost, KernelTask
  <2>3. CASE ok
    <3>1. Queued' = Queued \cup {n}
      BY <2>1, <2>2, <2>3, <1>1 DEF Queued
    <3>2. QueueOf(Append(runq, n), Queued \cup {n})
      BY <2>2, <1>1, QueueAppend DEF IInv
    <3> QED BY <3>1, <3>2, <2>3 DEF QueueOf, n
  <2>4. CASE ~ok
    <3>1. Queued' = Queued
      BY <2>1, <2>2, <2>4, <1>1 DEF Queued
    <3> QED BY <3>1, <2>4 DEF IInv, QueueOf
  <2> QED BY <2>3, <2>4
<1> QED BY <1>4, <1>5, <1>6, <1>7, <1>8, <1>9 DEF IInv

(* A zombie leaves the table.  It has no children any more.                 *)
LEMMA ReapStep ==
    ASSUME IInv, NEW q \in Procs, state[q] = "ZOMBIE", q # 1, Reap(q),
           task' \in [Pid -> Task], GoodTasks',
           \A p \in Pid : /\ task'[p].cpu = task[p].cpu
                          /\ SleepsOn(state[p], wait_channel[p], task'[p]),
           UNCHANGED <<next_pid, wait_channel, runq>>
    PROVE  IInv'
<1>1. q \in Pid /\ state[q] = "ZOMBIE"
  BY DEF Procs
<1>2. \A p \in Pid : /\ state'[p] = IF p = q THEN "none" ELSE state[p]
                     /\ ppid'[p] = IF p = q THEN 0 ELSE ppid[p]
  BY DEF Reap, IInv, TableTypes
<1>3. TableTypes'
  <2>1. "none" \in State /\ 0 \in 0 .. MaxPid
    BY ProcessesAssumption DEF State
  <2>2. state' \in [Pid -> State] /\ ppid' \in [Pid -> 0 .. MaxPid] /\ pgrp' \in [Pid -> 0 .. MaxPid]
    BY <2>1 DEF IInv, TableTypes, Reap
  <2> QED BY <2>2 DEF IInv, TableTypes
<1>4. Sleepers'
  BY <1>2 DEF Sleepers, SleepsOn
<1>5. Fresh' /\ FirstProcess'
  BY <1>2, PidFacts DEF IInv, Fresh, FirstProcess
<1>6. ParentsCanReap'
  <2>1. Procs' = Procs \ {q}
    BY <1>1, <1>2 DEF Procs
  <2>2. ASSUME NEW p \in Procs' \ {1}
        PROVE  /\ ppid'[p] \in Procs' /\ ppid'[p] < p
               /\ ppid'[p] = 1 \/ state'[ppid'[p]] # "ZOMBIE"
    <3>1. p \in Procs \ {1} /\ p \in Pid /\ p # q
      BY <2>1 DEF Procs
    <3>2. ppid'[p] = ppid[p] /\ ppid[p] \in Procs /\ ppid[p] < p
          /\ (ppid[p] = 1 \/ state[ppid[p]] # "ZOMBIE")
      BY <3>1, <1>2 DEF IInv, ParentsCanReap
    <3>3. ppid[p] # q /\ ppid[p] \in Pid
      BY <3>2 DEF Procs
    <3> QED BY <3>2, <3>3, <1>2, <2>1
  <2> QED BY <2>2 DEF ParentsCanReap
<1>7. QueueOf(runq, Queued)'
  <2>1. Queued' = Queued
    BY <1>1, <1>2 DEF Queued, Ghost, KernelTask
  <2> QED BY <2>1 DEF IInv, QueueOf
<1> QED BY <1>3, <1>4, <1>5, <1>6, <1>7 DEF IInv

(* A process exits: nobody is left a child of it, and its parent, if it is  *)
(* woken, joins the queue.                                                  *)
LEMMA ExitStep ==
    ASSUME IInv, NEW p \in Pid, state[p] \notin {"none", "ZOMBIE"}, ExitProcess(p)
    PROVE  IInv'
<1> DEFINE parent == ppid[p]
           told   == {q \in Procs \ {p} : q = parent}
           woken  == {q \in told : \/ Interrupts(q, SIGCHLD)
                                   \/ state[q] = "SLEEPING" /\ wait_channel[q] = "wait"}
<1>1. /\ state' = [q \in Pid |-> IF q = p THEN "ZOMBIE"
                                 ELSE IF q \in woken THEN "RUNNING" ELSE state[q]]
      /\ ppid' = [q \in Pid |-> IF ppid[q] = p THEN 1 ELSE ppid[q]]
      /\ wait_channel' = [q \in Pid |-> IF q \in woken \cup {p} THEN "none" ELSE wait_channel[q]]
      /\ task' = [q \in Pid |-> IF q = p THEN NoTask
                                ELSE IF q \in told THEN Posted(q, SIGCHLD) ELSE task[q]]
      /\ runq' = IF woken = {} THEN RemoveFirst(runq, p) ELSE Append(RemoveFirst(runq, p), parent)
      /\ UNCHANGED <<next_pid, pgrp>>
  BY DEF ExitProcess, Reparented
<1>2. \A q \in told : q = parent /\ q \in Pid /\ q # p /\ q \in Procs
  BY DEF Procs
<1>3. \A q \in woken : q \in told /\ state[q] = "SLEEPING"
  BY DEF Interrupts
<1>4. \A q \in told : q \notin woken => ~Interrupts(q, SIGCHLD)
  OBVIOUS
<1> HIDE DEF told, woken
<1>5. \A q \in Pid :
         /\ state'[q] = IF q = p THEN "ZOMBIE" ELSE IF q \in woken THEN "RUNNING" ELSE state[q]
         /\ ppid'[q] = IF ppid[q] = p THEN 1 ELSE ppid[q]
         /\ wait_channel'[q] = IF q \in woken \cup {p} THEN "none" ELSE wait_channel[q]
         /\ task'[q] = IF q = p THEN NoTask
                       ELSE IF q \in told THEN Posted(q, SIGCHLD) ELSE task[q]
  BY <1>1
<1>6. SIGCHLD \in Sigs
  BY ProcessesAssumption
<1>7. ASSUME NEW q \in Pid, q # p
      PROVE  /\ GoodTask(task'[q]) /\ task'[q].cpu = task[q].cpu
             /\ q \notin woken => SleepsOn(state[q], wait_channel[q], task'[q])
  <2>1. CASE q \in told
    BY <2>1, <1>4, <1>5, <1>6, <1>7, PostedGood
  <2>2. CASE q \notin told
    BY <2>2, <1>5, <1>7 DEF IInv, GoodTasks, Sleepers
  <2> QED BY <2>1, <2>2
<1>8. GoodTasks'
  <2>1. GoodTask(task'[p])
    BY <1>5, NewTaskGood
  <2> QED BY <2>1, <1>7 DEF GoodTasks
<1>9. TableTypes'
  <2>1. "ZOMBIE" \in State /\ "RUNNING" \in State /\ "none" \in Channel /\ 1 \in 0 .. MaxPid
    BY ProcessesAssumption DEF State, Channel
  <2>2. state' \in [Pid -> State] /\ ppid' \in [Pid -> 0 .. MaxPid]
        /\ wait_channel' \in [Pid -> Channel]
    BY <2>1, <1>1 DEF IInv, TableTypes
  <2>3. task' \in [Pid -> Task]
    <3>1. \A q \in Pid : task'[q] \in Task
      BY <1>8 DEF GoodTasks, GoodTask
    <3>2. DOMAIN task' = Pid /\ task' = [q \in Pid |-> task'[q]]
      BY <1>1
    <3> QED BY <3>1, <3>2
  <2> QED BY <2>2, <2>3, <1>1 DEF IInv, TableTypes
<1>10. Sleepers'
  <2>1. ASSUME NEW q \in Pid PROVE SleepsOn(state'[q], wait_channel'[q], task'[q])
    <3>1. CASE q = p \/ q \in woken
      BY <3>1, <1>5 DEF SleepsOn
    <3>2. CASE q # p /\ q \notin woken
      BY <3>2, <1>5, <1>7
    <3> QED BY <3>1, <3>2
  <2> QED BY <2>1 DEF Sleepers
<1>11. \A q \in Pid : state'[q] = "none" <=> state[q] = "none"
  BY <1>3, <1>5
<1>12. Fresh'
  BY <1>1, <1>11 DEF IInv, Fresh
<1>13. FirstProcess'
  <2>1. ppid[1] # p
    BY PidFacts DEF IInv, FirstProcess
  <2> QED BY <2>1, <1>5, <1>11, PidFacts DEF IInv, FirstProcess
<1>14. ParentsCanReap'
  <2>1. Procs' = Procs /\ 1 \in Procs
    BY <1>11, PidFacts DEF Procs, IInv, FirstProcess
  <2>2. ASSUME NEW r \in Procs \ {1}
        PROVE  /\ ppid'[r] \in Procs /\ ppid'[r] < r
               /\ ppid'[r] = 1 \/ state'[ppid'[r]] # "ZOMBIE"
    <3>1. r \in Pid /\ ppid[r] \in Procs /\ ppid[r] < r
          /\ (ppid[r] = 1 \/ state[ppid[r]] # "ZOMBIE")
      BY DEF IInv, ParentsCanReap, Procs
    <3>2. CASE ppid[r] = p
      <4>1. r \in 1 .. MaxPid /\ r # 1
        BY <3>1 DEF Pid
      <4>2. 1 < r
        BY <4>1, ProcessesAssumption
      <4> QED BY <3>1, <3>2, <4>2, <1>5, <2>1
    <3>3. CASE ppid[r] # p
      <4>1. ppid'[r] = ppid[r] /\ ppid[r] \in Pid
        BY <3>1, <3>3, <1>5 DEF Procs
      <4>2. state[ppid[r]] # "ZOMBIE" => state'[ppid[r]] # "ZOMBIE"
        BY <4>1, <3>3, <1>5
      <4> QED BY <3>1, <4>1, <4>2
    <3> QED BY <3>2, <3>3
  <2> QED BY <2>1, <2>2 DEF ParentsCanReap
<1>15. QueueOf(runq, Queued)'
  <2>1. p \notin Queued'
    BY <1>5 DEF Queued
  <2>2. ASSUME NEW q \in Pid, q # p, q \notin woken PROVE q \in Queued' <=> q \in Queued
    <3>1. state'[q] = state[q] /\ task'[q].cpu = task[q].cpu
      BY <2>2, <1>5, <1>7
    <3> QED BY <3>1 DEF Queued, Ghost, KernelTask
  <2>3. ASSUME NEW q \in woken PROVE q \in Queued' /\ q \notin Queued /\ q \in Pid
    <3>1. q \in Pid /\ q # p /\ state[q] = "SLEEPING" /\ state'[q] = "RUNNING"
      BY <2>3, <1>2, <1>3, <1>5
    <3>2. task'[q].cpu
      BY <3>1, <1>7 DEF IInv, Sleepers, SleepsOn
    <3> QED BY <3>1, <3>2 DEF Queued, Ghost
  <2>4. QueueOf(RemoveFirst(runq, p), Queued \ {p})
    BY QueueRemove DEF IInv
  <2>5. CASE woken = {}
    <3>1. Queued' = Queued \ {p}
      BY <2>1, <2>2, <2>5 DEF Queued
    <3> QED BY <3>1, <2>4, <2>5, <1>1 DEF QueueOf
  <2>6. CASE woken # {}
    <3>1. woken = {parent} /\ parent # p
      BY <2>6, <1>2, <1>3
    <3> HIDE DEF parent
    <3>2. Queued' = (Queued \ {p}) \cup {parent} /\ parent \notin Queued \ {p} /\ parent \in Pid
      BY <2>1, <2>2, <2>3, <3>1 DEF Queued
    <3>3. QueueOf(Append(RemoveFirst(runq, p), parent), (Queued \ {p}) \cup {parent})
      BY <2>4, <3>2, QueueAppend
    <3> QED BY <3>2, <3>3, <2>6, <1>1 DEF QueueOf, parent
  <2> QED BY <2>5, <2>6
<1> QED BY <1>8, <1>9, <1>10, <1>12, <1>13, <1>14, <1>15 DEF IInv

-----------------------------------------------------------------------------
(* The actions of a process.                                                *)

(* A running process is in the table with a CPU and a good record.          *)
LEMMA Running ==
    ASSUME IInv, NEW p \in Pid, CanRun(p)
    PROVE  /\ state[p] = "RUNNING" /\ task[p].cpu /\ p \in Procs /\ p \in Queued
           /\ GoodTask(task[p])
           /\ \A ch, t : SleepsOn(state[p], ch, t)
BY DEF IInv, GoodTasks, CanRun, Procs, Queued, Ghost, SleepsOn

(* What a running process does to its own record.                           *)
LEMMA OwnStep ==
    ASSUME IInv, NEW p \in Pid, CanRun(p), NEW t, GoodTask(t), t.cpu = task[p].cpu,
           task' = [task EXCEPT ![p] = t],
           UNCHANGED <<next_pid, state, ppid, pgrp, wait_channel, runq>>
    PROVE  IInv'
<1>1. pgrp' \in [Pid -> 0 .. MaxPid]
  BY DEF IInv, TableTypes
<1>2. SleepsOn(state[p], wait_channel[p], t)
  BY Running
<1> QED BY <1>1, <1>2, RecordStep

(* A call returns to user code.                                             *)
LEMMA ReturnedGood ==
    ASSUME IInv, NEW p \in Pid, CanRun(p)
    PROVE  LET t == [task[p] EXCEPT !.context = UserContext]
           IN  /\ GoodTask(t) /\ t.cpu = task[p].cpu
               /\ Returned(p) = [task EXCEPT ![p] = t]
<1>1. GoodTask(task[p])
  BY Running
<1> QED BY <1>1, BackInUser, UserContextGood DEF Returned

(* A call that does nothing but return.                                     *)
LEMMA ReturnStep ==
    ASSUME IInv, NEW p \in Pid, CanRun(p), task' = Returned(p),
           UNCHANGED <<next_pid, state, ppid, pgrp, wait_channel, runq>>
    PROVE  IInv'
<1> DEFINE t == [task[p] EXCEPT !.context = UserContext]
<1>1. GoodTask(t) /\ t.cpu = task[p].cpu /\ Returned(p) = [task EXCEPT ![p] = t]
  BY ReturnedGood
<1> HIDE DEF t
<1> QED BY <1>1, OwnStep

(* fork: the child takes over the mask, the handlers and the stack.         *)
LEMMA ForkStep ==
    ASSUME IInv, NEW p \in Pid, Fork(p)
    PROVE  IInv'
<1> DEFINE n == next_pid
           t == [task[p] EXCEPT !.context = UserContext]
           u == [NewTask EXCEPT !.blocked = task[p].blocked,
                                !.sigactions = task[p].sigactions,
                                !.stack = task[p].stack]
<1>1. CanRun(p) /\ n <= MaxPid
  BY DEF Fork, InUser
<1>2. n \in Pid /\ state[n] = "none" /\ n # p
  BY <1>1, Running DEF IInv, TableTypes, Fresh, Pid
<1>3. GoodTask(t) /\ t.cpu = task[p].cpu /\ Returned(p) = [task EXCEPT ![p] = t]
  BY <1>1, ReturnedGood
<1>4. GoodTask(u) /\ u.cpu = TRUE
  <2>1. GoodTask(task[p])
    BY <1>1, Running
  <2>2. /\ u \in Task /\ u.cpu = NewTask.cpu /\ u.context = NewTask.context
        /\ u.stack = task[p].stack /\ u.alarm_at = NewTask.alarm_at
    BY <2>1, NewTaskGood DEF GoodTask, Task
  <2> HIDE DEF u
  <2>3. GoodTask(u)
    BY <2>1, <2>2, NewTaskGood DEF GoodTask
  <2>4. u.cpu = TRUE
    BY <2>2 DEF NewTask
  <2> QED BY <2>3, <2>4
<1>5. task' = [Returned(p) EXCEPT ![n] = u]
  BY DEF Fork
<1> HIDE DEF t, u
<1>6. /\ \A q \in Pid : task'[q] = IF q = n THEN u ELSE IF q = p THEN t ELSE task[q]
      /\ DOMAIN task' = Pid /\ task' = [q \in Pid |-> task'[q]]
  BY <1>2, <1>3, <1>5 DEF IInv, TableTypes
<1>7. GoodTasks' /\ task' \in [Pid -> Task]
  <2>1. ASSUME NEW q \in Pid PROVE GoodTask(task'[q])
    BY <1>3, <1>4, <1>6 DEF IInv, GoodTasks
  <2>2. \A q \in Pid : task'[q] \in Task
    BY <2>1 DEF GoodTask
  <2> QED BY <2>1, <2>2, <1>6 DEF GoodTasks
<1>8. ASSUME NEW q \in Pid, q # n
      PROVE  task'[q].cpu = task[q].cpu /\ SleepsOn(state[q], wait_channel[q], task'[q])
  <2>1. CASE q = p
    BY <2>1, <1>1, <1>3, <1>6, <1>8, Running
  <2>2. CASE q # p
    BY <2>2, <1>6, <1>8 DEF IInv, Sleepers
  <2> QED BY <2>1, <2>2
<1>9. task'[n].cpu = TRUE
  BY <1>2, <1>4, <1>6
<1>10. p \in Procs /\ state[p] # "ZOMBIE" /\ pgrp[p] \in 0 .. MaxPid
  BY <1>1, Running DEF IInv, TableTypes
<1>11. /\ next_pid' = next_pid + 1
       /\ state' = [state EXCEPT ![next_pid] = "RUNNING"]
       /\ ppid' = [ppid EXCEPT ![next_pid] = p]
       /\ pgrp' = [pgrp EXCEPT ![next_pid] = pgrp[p]]
       /\ runq' = IF TRUE THEN Append(runq, next_pid) ELSE runq
       /\ UNCHANGED wait_channel
  BY DEF Fork
<1> QED
  <2>1. \A q \in Pid \ {next_pid} : /\ task'[q].cpu = task[q].cpu
                                    /\ SleepsOn(state[q], wait_channel[q], task'[q])
    BY <1>8
  <2>2. next_pid <= MaxPid /\ task'[next_pid].cpu = TRUE
    BY <1>1, <1>9
  <2> QED BY <1>7, <1>10, <1>11, <2>1, <2>2, BirthStep

(* execve: the stack is empty again, ignored signals stay so.               *)
LEMMA ExecveStep ==
    ASSUME IInv, NEW p \in Pid, Execve(p)
    PROVE  IInv'
<1> DEFINE sa == [s \in Sigs |-> IF task[p].sigactions[s].handler = "SIG_IGN" THEN Ignore ELSE Default]
           e  == << >>
           t  == [task[p] EXCEPT !.sigactions = sa, !.context = UserContext,
                                 !.stack = e, !.sigframes = e]
<1>1. CanRun(p) /\ GoodTask(task[p])
  BY Running DEF Execve, InUser, CanRun
<1>2. sa \in [Sigs -> Disposition]
  BY DispositionTypes
<1>3. e \in Seq(Frame) /\ e \in Seq(BOOLEAN) /\ DOMAIN e = {}
  OBVIOUS
<1>4. task' = [task EXCEPT ![p] = t]
  BY DEF Execve
<1> HIDE DEF sa, e
<1>5. UserContext \in Context
  BY UserContextGood DEF GoodContext
<1>6. t \in Task /\ t.cpu = task[p].cpu /\ t.context = UserContext /\ t.stack = e
      /\ t.alarm_at = task[p].alarm_at
  BY <1>1, <1>2, <1>3, <1>5 DEF GoodTask, Task
<1> HIDE DEF t
<1>7. GoodTask(t)
  BY <1>1, <1>3, <1>6, UserContextGood DEF GoodTask
<1> QED BY <1>1, <1>4, <1>6, <1>7, OwnStep DEF Execve

(* waitpid that reaps or returns.                                           *)
LEMMA WaitpidStep ==
    ASSUME IInv, NEW p \in Pid, NEW a \in WaitArgs, WaitpidReaps(p, a) \/ WaitpidReturns(p, a)
    PROVE  IInv'
<1>1. CanRun(p) /\ task' = Returned(p)
  BY DEF WaitpidReaps, WaitpidReturns, CanCall
<1>2. CASE WaitpidReturns(p, a)
  BY <1>1, <1>2, ReturnStep DEF WaitpidReturns
<1>3. CASE WaitpidReaps(p, a)
  <2>1. PICK q \in Zombies(Wanted(p, a)) : Reap(q)
    BY <1>3 DEF WaitpidReaps
  <2>2. q \in Procs /\ state[q] = "ZOMBIE" /\ ppid[q] = p
    BY <2>1 DEF Zombies, Wanted
  <2>3. q # 1
    BY <2>2, PidFacts DEF IInv, FirstProcess
  <2> DEFINE t == [task[p] EXCEPT !.context = UserContext]
  <2>4. GoodTask(t) /\ t.cpu = task[p].cpu /\ task' = [task EXCEPT ![p] = t]
    BY <1>1, ReturnedGood
  <2> HIDE DEF t
  <2>5. task' \in [Pid -> Task] /\ \A r \in Pid : task'[r] = IF r = p THEN t ELSE task[r]
    BY <2>4 DEF IInv, TableTypes, GoodTask
  <2>6. GoodTasks'
    BY <2>4, <2>5 DEF IInv, GoodTasks
  <2>7. ASSUME NEW r \in Pid
        PROVE  task'[r].cpu = task[r].cpu /\ SleepsOn(state[r], wait_channel[r], task'[r])
    <3>1. CASE r = p
      BY <3>1, <1>1, <2>4, <2>5, Running
    <3>2. CASE r # p
      BY <3>2, <2>5 DEF IInv, Sleepers
    <3> QED BY <3>1, <3>2
  <2>8. UNCHANGED <<next_pid, wait_channel, runq>>
    BY <1>3 DEF WaitpidReaps
  <2> QED BY <2>1, <2>2, <2>3, <2>5, <2>6, <2>7, <2>8, ReapStep
<1> QED BY <1>2, <1>3

(* The three calls that block.                                              *)
LEMMA BlockStep ==
    ASSUME IInv, NEW p \in Pid, CanRun(p), NEW call \in BlockingCall, Block(p, call)
    PROVE  IInv'
<1> DEFINE c == [eip |-> "int80", eax |-> call]
           t == [task[p] EXCEPT !.context = c, !.restart_syscall = TRUE]
<1>1. GoodContext(c)
  BY DEF GoodContext, Context
<1>2. GoodTask(task[p]) /\ task[p].cpu /\ state[p] = "RUNNING"
  BY Running
<1>3. c.eip = "int80" /\ c.eax = call
  OBVIOUS
<1>4. task' = [task EXCEPT ![p] = t]
  BY DEF Block
<1> HIDE DEF c
<1>5. /\ t \in Task /\ t.cpu = task[p].cpu /\ t.context = c /\ t.stack = task[p].stack
      /\ t.restart_syscall /\ t.alarm_at = task[p].alarm_at
  BY <1>1, <1>2 DEF GoodTask, GoodContext, Task
<1> HIDE DEF t
<1>6. GoodTask(t)
  BY <1>1, <1>2, <1>5 DEF GoodTask
<1>7. SleepsOn("SLEEPING", ChannelOf(call), t)
  BY <1>2, <1>3, <1>5 DEF SleepsOn
<1>8. ChannelOf(call) \in Channel
  BY DEF ChannelOf, Channel
<1>9. state[p] \notin {"none", "ZOMBIE"}
  BY <1>2
<1>10. /\ state' = [state EXCEPT ![p] = "SLEEPING"]
       /\ wait_channel' = [wait_channel EXCEPT ![p] = ChannelOf(call)]
       /\ runq' = RemoveFirst(runq, p)
       /\ UNCHANGED <<next_pid, ppid, pgrp>>
  BY DEF Block
<1> QED BY <1>4, <1>5, <1>6, <1>7, <1>8, <1>9, <1>10, SuspendStep

(* waitpid, pause and read that block.                                      *)
LEMMA BlocksStep ==
    ASSUME IInv, NEW p \in Pid,
           \/ \E a \in WaitArgs : WaitpidBlocks(p, a)
           \/ Pause(p)
           \/ ReadBlocks(p)
    PROVE  IInv'
<1>1. CASE \E a \in WaitArgs : WaitpidBlocks(p, a)
  <2>1. PICK a \in WaitArgs : WaitpidBlocks(p, a)
    BY <1>1
  <2>2. [name |-> "waitpid", arg |-> a] \in BlockingCall
    BY DEF BlockingCall
  <2> QED BY <2>1, <2>2, BlockStep DEF WaitpidBlocks, CanCall
<1>2. CASE Pause(p)
  <2>1. [name |-> "pause", arg |-> 0] \in BlockingCall
    BY DEF BlockingCall
  <2> QED BY <1>2, <2>1, BlockStep DEF Pause, CanCall
<1>3. CASE ReadBlocks(p)
  <2>1. ReadCall \in BlockingCall
    BY DEF BlockingCall, ReadCall
  <2> QED BY <1>3, <2>1, BlockStep DEF ReadBlocks, CanCall
<1> QED BY <1>1, <1>2, <1>3

(* kill, for all its targets at once.                                       *)
LEMMA KillStep ==
    ASSUME IInv, NEW p \in Pid, NEW a \in KillArgs, NEW s \in Sigs, Kill(p, a, s)
    PROVE  IInv'
<1> DEFINE T == Targets(p, a)
           W == {q \in T : Interrupts(q, s)}
<1>1. PostSignal(T, s) /\ \A q \in T : q \in Pid
  BY DEF Kill, Targets, Procs
<1>2. /\ state' = [q \in Pid |-> IF q \in W THEN "RUNNING" ELSE state[q]]
      /\ wait_channel' = [q \in Pid |-> IF q \in W THEN "none" ELSE wait_channel[q]]
      /\ task' = [q \in Pid |-> IF q \in T THEN Posted(q, s) ELSE task[q]]
      /\ Enqueued(W)
      /\ UNCHANGED <<next_pid, ppid, pgrp>>
  BY <1>1 DEF PostSignal
<1>3. W \in SUBSET Pid /\ (\A q \in W : state[q] = "SLEEPING")
      /\ (\A q \in T : q \notin W => ~Interrupts(q, s))
  BY <1>1 DEF Interrupts
<1> HIDE DEF T, W
<1>4. ASSUME NEW q \in Pid
      PROVE  /\ GoodTask(task'[q]) /\ task'[q].cpu = task[q].cpu
             /\ q \notin W => SleepsOn(state[q], wait_channel[q], task'[q])
  <2>1. CASE q \in T
    BY <2>1, <1>2, <1>3, PostedGood
  <2>2. CASE q \notin T
    BY <2>2, <1>2 DEF IInv, GoodTasks, Sleepers
  <2> QED BY <2>1, <2>2
<1>5. task' \in [Pid -> Task]
  <2>1. \A q \in Pid : task'[q] \in Task
    BY <1>4 DEF GoodTask
  <2>2. DOMAIN task' = Pid /\ task' = [q \in Pid |-> task'[q]]
    BY <1>2
  <2> QED BY <2>1, <2>2
<1> QED BY <1>2, <1>3, <1>4, <1>5, WakeStep

(* Calls that change one field of the caller's record.                      *)
LEMMA SetActionStep ==
    ASSUME IInv, NEW p \in Pid, NEW s \in Sigs, NEW d \in Disposition, SetAction(p, s, d)
    PROVE  IInv'
<1> DEFINE t == [task[p] EXCEPT !.sigactions[s] = d]
<1>1. CanRun(p) /\ GoodTask(task[p])
  BY Running DEF SetAction, InUser, CanRun
<1>2. task' = [task EXCEPT ![p] = t]
  BY DEF SetAction
<1>3. t \in Task /\ SameMachine(task[p], t) /\ t.alarm_at = task[p].alarm_at
  BY <1>1 DEF GoodTask, Task, SameMachine
<1> HIDE DEF t
<1>4. GoodTask(t) /\ t.cpu = task[p].cpu
  BY <1>1, <1>3 DEF GoodTask, SameMachine
<1> QED BY <1>1, <1>2, <1>4, OwnStep DEF SetAction

(* signal and sigaction.                                                    *)
LEMMA SignalStep ==
    ASSUME IInv, NEW p \in Pid, NEW s \in Sigs, NEW d \in Dispositions,
           Sigaction(p, s, d) \/ \E h \in {"SIG_DFL", "SIG_IGN", "user"} : Signal(p, s, h, d.magic)
    PROVE  IInv'
<1>1. d \in Disposition
  BY DispositionTypes
<1>2. CASE Sigaction(p, s, d)
  BY <1>1, <1>2, SetActionStep DEF Sigaction
<1>3. ASSUME NEW h \in {"SIG_DFL", "SIG_IGN", "user"}, Signal(p, s, h, d.magic) PROVE IInv'
  <2> DEFINE e == [handler |-> h, mask |-> {}, nomask |-> TRUE, oneshot |-> TRUE,
                   magic |-> d.magic]
  <2>1. e \in Disposition
    BY <1>1 DEF Disposition
  <2>2. SetAction(p, s, e)
    BY <1>3 DEF Signal
  <2> HIDE DEF e
  <2> QED BY <2>1, <2>2, SetActionStep
<1> QED BY <1>2, <1>3

(* ssetmask.                                                                *)
LEMMA SsetmaskStep ==
    ASSUME IInv, NEW p \in Pid, NEW m \in SUBSET Sigs, Ssetmask(p, m)
    PROVE  IInv'
<1> DEFINE t == [task[p] EXCEPT !.blocked = m \ {SIGKILL}]
<1>1. CanRun(p) /\ GoodTask(task[p])
  BY Running DEF Ssetmask, InUser, CanRun
<1>2. task' = [task EXCEPT ![p] = t]
  BY DEF Ssetmask
<1>3. t \in Task /\ SameMachine(task[p], t) /\ t.alarm_at = task[p].alarm_at
  BY <1>1 DEF GoodTask, Task, SameMachine
<1> HIDE DEF t
<1>4. GoodTask(t) /\ t.cpu = task[p].cpu
  BY <1>1, <1>3 DEF GoodTask, SameMachine
<1> QED BY <1>1, <1>2, <1>4, OwnStep DEF Ssetmask

(* alarm.                                                                   *)
LEMMA AlarmStep ==
    ASSUME IInv, NEW p \in Pid, NEW on \in BOOLEAN, Alarm(p, on)
    PROVE  IInv'
<1> DEFINE t == [task[p] EXCEPT !.alarm_at = on]
<1>1. CanRun(p) /\ GoodTask(task[p]) /\ SIGALRM \in Sigs
  BY Running, ProcessesAssumption DEF Alarm, InUser, CanRun
<1>2. task' = [task EXCEPT ![p] = t]
  BY DEF Alarm
<1>3. t \in Task /\ SameMachine(task[p], t)
  BY <1>1 DEF GoodTask, Task, SameMachine
<1> HIDE DEF t
<1>4. GoodTask(t) /\ t.cpu = task[p].cpu
  BY <1>1, <1>3 DEF GoodTask, SameMachine
<1> QED BY <1>1, <1>2, <1>4, OwnStep DEF Alarm

(* setsid and setpgid.                                                      *)
LEMMA GroupStep ==
    ASSUME IInv, NEW p \in Pid,
           Setsid(p) \/ \E q \in Pid, g \in 0 .. MaxPid : Setpgid(p, q, g)
    PROVE  IInv'
<1>1. CASE Setsid(p)
  <2> DEFINE t == [task[p] EXCEPT !.leader = TRUE]
  <2>1. CanRun(p) /\ GoodTask(task[p])
    BY <1>1, Running DEF Setsid, InUser, CanRun
  <2>2. task' = [task EXCEPT ![p] = t]
    BY <1>1 DEF Setsid
  <2>3. t \in Task /\ SameMachine(task[p], t) /\ t.alarm_at = task[p].alarm_at
    BY <2>1 DEF GoodTask, Task, SameMachine
  <2> HIDE DEF t
  <2>4. GoodTask(t) /\ t.cpu = task[p].cpu
    BY <2>1, <2>3 DEF GoodTask, SameMachine
  <2>5. pgrp' \in [Pid -> 0 .. MaxPid]
    BY <1>1 DEF Setsid, IInv, TableTypes, Pid
  <2>6. SleepsOn(state[p], wait_channel[p], t)
    BY <2>1, Running
  <2> QED BY <1>1, <2>2, <2>4, <2>5, <2>6, RecordStep DEF Setsid
<1>2. ASSUME NEW q \in Pid, NEW g \in 0 .. MaxPid, Setpgid(p, q, g) PROVE IInv'
  <2>1. pgrp' \in [Pid -> 0 .. MaxPid]
    BY <1>2 DEF Setpgid, IInv, TableTypes, Pid
  <2>2. task' = [task EXCEPT ![p] = task[p]]
    BY <1>2 DEF Setpgid, IInv, TableTypes
  <2>3. GoodTask(task[p]) /\ SleepsOn(state[p], wait_channel[p], task[p])
    BY DEF IInv, GoodTasks, Sleepers
  <2> QED BY <1>2, <2>1, <2>2, <2>3, RecordStep DEF Setpgid
<1> QED BY <1>1, <1>2

-----------------------------------------------------------------------------
(* Delivery and return.                                                     *)

(* A handler returns, through the kernel or through the C library.          *)
LEMMA HandlerReturnStep ==
    ASSUME IInv, NEW p \in Pid, SigReturn(p) \/ LibcReturn(p)
    PROVE  IInv'
<1> DEFINE t == task[p]
           frame == Last(t.stack)
           k == Front(t.stack)
<1>1. CanRun(p) /\ GoodTask(t) /\ t.stack # << >>
  BY Running DEF SigReturn, LibcReturn, InUser, CanRun
<1>2. t \in Task /\ t.stack \in Seq(Frame) /\ t.sigframes \in Seq(BOOLEAN)
      /\ t.blocked \in SUBSET Sigs
  BY <1>1 DEF GoodTask, Task
<1>3. /\ k \in Seq(Frame) /\ frame \in Frame /\ GoodContext(frame.context)
      /\ \A i \in DOMAIN k : GoodContext(k[i].context)
  BY <1>1, <1>2, FrameRemoved DEF GoodTask
<1>4. frame.blocked \in SUBSET Sigs
  BY <1>3 DEF Frame
<1>5. ASSUME NEW u, NEW c, GoodContext(c), u \in Task, u.context = c, u.stack = k,
             u.cpu = t.cpu, u.alarm_at = t.alarm_at, task' = [task EXCEPT ![p] = u],
             UNCHANGED <<next_pid, state, ppid, pgrp, wait_channel, runq>>
      PROVE  IInv'
  <2>1. GoodTask(u)
    BY <1>1, <1>3, <1>5 DEF GoodTask
  <2> QED BY <1>1, <1>5, <2>1, OwnStep
<1>6. CASE SigReturn(p)
  <2> DEFINE pops == t.sigframes # << >> /\ Last(t.sigframes)
             c  == IF pops = frame.has_blocked THEN frame.context
                   ELSE [eip |-> "wild", eax |-> NoCall]
             sf == IF t.sigframes = << >> THEN t.sigframes ELSE Front(t.sigframes)
  <2>1. PICK m \in SUBSET Sigs :
           task' = [task EXCEPT ![p] = [t EXCEPT !.stack = k, !.sigframes = sf,
                                                 !.blocked = m, !.context = c]]
    BY <1>6 DEF SigReturn
  <2>2. GoodContext(c)
    <3>1. GoodContext([eip |-> "wild", eax |-> NoCall])
      BY DEF GoodContext, Context
    <3> QED BY <3>1, <1>3
  <2>3. sf \in Seq(BOOLEAN)
    BY <1>2, FrontOfSeq
  <2> DEFINE u == [t EXCEPT !.stack = k, !.sigframes = sf, !.blocked = m, !.context = c]
  <2>4. task' = [task EXCEPT ![p] = u]
    BY <2>1
  <2> HIDE DEF k, c, sf, t
  <2>5. u \in Task /\ u.context = c /\ u.stack = k /\ u.cpu = t.cpu /\ u.alarm_at = t.alarm_at
    BY <1>2, <1>3, <2>2, <2>3 DEF GoodContext, Task
  <2> HIDE DEF u
  <2>6. UNCHANGED <<next_pid, state, ppid, pgrp, wait_channel, runq>>
    BY <1>6 DEF SigReturn
  <2> QED BY <2>2, <2>4, <2>5, <2>6, <1>5
<1>7. CASE LibcReturn(p)
  <2> DEFINE c == frame.context
             b == IF frame.has_blocked THEN frame.blocked \ {SIGKILL} ELSE t.blocked
             u == [t EXCEPT !.stack = k, !.blocked = b, !.context = c]
  <2>1. task' = [task EXCEPT ![p] = u]
    BY <1>7 DEF LibcReturn
  <2>2. b \in SUBSET Sigs
    BY <1>2, <1>4
  <2> HIDE DEF k, c, b, t
  <2>3. GoodContext(c)
    BY <1>3 DEF c
  <2>4. u \in Task /\ u.context = c /\ u.stack = k /\ u.cpu = t.cpu /\ u.alarm_at = t.alarm_at
    BY <1>2, <1>3, <2>2, <2>3 DEF GoodContext, Task
  <2> HIDE DEF u
  <2>5. UNCHANGED <<next_pid, state, ppid, pgrp, wait_channel, runq>>
    BY <1>7 DEF LibcReturn
  <2> QED BY <2>1, <2>3, <2>4, <2>5, <1>5
<1> QED BY <1>6, <1>7

(* One process is woken, or none, and its record changes.                   *)
LEMMA WakeOneStep ==
    ASSUME IInv, NEW p \in Pid, NEW t, NEW woken \in BOOLEAN,
           woken => state[p] = "SLEEPING",
           GoodTask(t), t.cpu = task[p].cpu,
           ~woken => SleepsOn(state[p], wait_channel[p], t),
           task' = [task EXCEPT ![p] = t],
           state' = IF woken THEN [state EXCEPT ![p] = "RUNNING"] ELSE state,
           wait_channel' = IF woken THEN [wait_channel EXCEPT ![p] = "none"] ELSE wait_channel,
           Enqueued(IF woken THEN {p} ELSE {}),
           UNCHANGED <<next_pid, ppid, pgrp>>
    PROVE  IInv'
<1> DEFINE W == IF woken THEN {p} ELSE {}
<1>1. W \in SUBSET Pid /\ (\A q \in W : state[q] = "SLEEPING") /\ Enqueued(W)
      /\ (p \notin W => ~woken)
  OBVIOUS
<1>2. /\ state' = [q \in Pid |-> IF q \in W THEN "RUNNING" ELSE state[q]]
      /\ wait_channel' = [q \in Pid |-> IF q \in W THEN "none" ELSE wait_channel[q]]
  BY DEF IInv, TableTypes
<1> HIDE DEF W
<1>3. /\ \A q \in Pid : task'[q] = IF q = p THEN t ELSE task[q]
      /\ task' \in [Pid -> Task]
  BY DEF IInv, TableTypes, GoodTask
<1>4. ASSUME NEW q \in Pid
      PROVE  /\ GoodTask(task'[q]) /\ task'[q].cpu = task[q].cpu
             /\ q \notin W => SleepsOn(state[q], wait_channel[q], task'[q])
  <2>1. CASE q = p
    BY <2>1, <1>1, <1>3
  <2>2. CASE q # p
    BY <2>2, <1>3 DEF IInv, GoodTasks, Sleepers
  <2> QED BY <2>1, <2>2
<1> QED BY <1>1, <1>2, <1>3, <1>4, WakeStep

(* A due alarm is posted.                                                   *)
LEMMA AlarmFiresStep ==
    ASSUME IInv, NEW p \in Pid, AlarmFires(p)
    PROVE  IInv'
<1> DEFINE v == Posted(p, SIGALRM)
           t == [v EXCEPT !.alarm_at = FALSE]
           woken == Interrupts(p, SIGALRM)
<1>1. SIGALRM \in Sigs
  BY DEF AlarmFires, IInv, GoodTasks, GoodTask
<1>2. GoodTask(v) /\ v.cpu = task[p].cpu /\ (~woken => SleepsOn(state[p], wait_channel[p], v))
  BY <1>1, PostedGood
<1>3. task' = [task EXCEPT ![p] = t]
  BY DEF AlarmFires
<1>4. /\ woken \in BOOLEAN
      /\ woken => state[p] = "SLEEPING"
      /\ state' = IF woken THEN [state EXCEPT ![p] = "RUNNING"] ELSE state
      /\ wait_channel' = IF woken THEN [wait_channel EXCEPT ![p] = "none"] ELSE wait_channel
      /\ Enqueued(IF woken THEN {p} ELSE {})
      /\ UNCHANGED <<next_pid, ppid, pgrp>>
  BY DEF AlarmFires, Interrupts
<1> HIDE DEF v, woken
<1>5. t \in Task /\ SameMachine(v, t) /\ ~t.alarm_at
  BY <1>2 DEF GoodTask, Task, SameMachine
<1> HIDE DEF t
<1>6. GoodTask(t) /\ t.cpu = task[p].cpu /\ (~woken => SleepsOn(state[p], wait_channel[p], t))
  BY <1>2, <1>5 DEF GoodTask, SameMachine, SleepsOn
<1> QED BY <1>3, <1>4, <1>6, WakeOneStep

(* _deliver_pending for one process.                                        *)
LEMMA DeliverStep ==
    ASSUME IInv, NEW p \in Pid, Deliver(p)
    PROVE  IInv'
<1>1. /\ state[p] \notin {"none", "ZOMBIE"}
      /\ \E s \in Pending(p) : \/ DeliverIgnored(p, s) \/ DeliverStop(p, s)
                               \/ DeliverFatal(p, s) \/ DeliverHandler(p, s)
  BY DEF Deliver
<1>2. PICK s \in Pending(p) : \/ DeliverIgnored(p, s) \/ DeliverStop(p, s)
                              \/ DeliverFatal(p, s) \/ DeliverHandler(p, s)
  BY <1>1
<1>3. s \in Sigs
  BY DEF Pending, IInv, TableTypes, Task
<1> DEFINE t == Consumed(p, s)
<1>4. GoodTask(t) /\ t.cpu = task[p].cpu /\ SleepsOn(state[p], wait_channel[p], t)
  BY <1>3, ConsumedGood
<1> HIDE DEF t
<1>5. CASE DeliverIgnored(p, s)
  <2>1. pgrp' \in [Pid -> 0 .. MaxPid]
    BY <1>5 DEF DeliverIgnored, IInv, TableTypes
  <2>2. task' = [task EXCEPT ![p] = t]
    BY <1>5 DEF DeliverIgnored, t
  <2> QED BY <1>4, <1>5, <2>1, <2>2, RecordStep DEF DeliverIgnored
<1>6. CASE DeliverStop(p, s)
  <2>1. wait_channel[p] \in Channel /\ wait_channel' = [wait_channel EXCEPT ![p] = wait_channel[p]]
    BY <1>6 DEF DeliverStop, IInv, TableTypes
  <2>2. task' = [task EXCEPT ![p] = t] /\ SleepsOn("STOPPED", wait_channel[p], t)
    BY <1>6 DEF DeliverStop, SleepsOn, t
  <2> QED BY <1>1, <1>4, <1>6, <2>1, <2>2, SuspendStep DEF DeliverStop
<1>7. CASE DeliverFatal(p, s)
  BY <1>1, <1>7, ExitStep DEF DeliverFatal
<1>8. CASE DeliverHandler(p, s)
  <2> DEFINE u == Framed(t, s)
             woken == state[p] = "SLEEPING"
  <2>1. GoodTask(u) /\ u.cpu = task[p].cpu
    BY <1>3, <1>4, FramedGood
  <2>2. task' = [task EXCEPT ![p] = u] /\ UNCHANGED <<next_pid, ppid, pgrp>>
    BY <1>8 DEF DeliverHandler, t
  <2> HIDE DEF u
  <2>3. CASE woken
    <3>1. /\ state' = [state EXCEPT ![p] = "RUNNING"]
          /\ wait_channel' = [wait_channel EXCEPT ![p] = "none"]
          /\ Enqueued({p})
      BY <1>8, <2>3 DEF DeliverHandler
    <3>2. Enqueued(IF TRUE THEN {p} ELSE {}) /\ TRUE \in BOOLEAN
      BY <3>1
    <3> QED BY <2>1, <2>2, <2>3, <3>1, <3>2, WakeOneStep
  <2>4. CASE ~woken
    <3>1. UNCHANGED <<state, wait_channel, runq>>
      BY <1>8, <2>4 DEF DeliverHandler
    <3>2. SleepsOn(state[p], wait_channel[p], u) /\ pgrp' \in [Pid -> 0 .. MaxPid]
      BY <2>2, <2>4 DEF SleepsOn, IInv, TableTypes
    <3> QED BY <2>1, <2>2, <3>1, <3>2, RecordStep
  <2> QED BY <2>3, <2>4
<1> QED BY <1>2, <1>5, <1>6, <1>7, <1>8

-----------------------------------------------------------------------------
(* The kernel's other steps.                                                *)

(* A sleeper is woken to redo its call.                                     *)
LEMMA WakesStep ==
    ASSUME IInv, NEW p \in Pid, WakeParent(p) \/ WakeReader(p)
    PROVE  IInv'
<1>1. Wake(p) /\ state[p] = "SLEEPING"
  BY DEF WakeParent, WakeReader, Wake
<1>2. GoodTask(task[p])
  BY DEF IInv, GoodTasks
<1>3. task' = [task EXCEPT ![p] = task[p]]
  BY <1>1 DEF Wake, IInv, TableTypes
<1>4. Enqueued(IF TRUE THEN {p} ELSE {}) /\ TRUE \in BOOLEAN
  BY <1>1 DEF Wake
<1> QED BY <1>1, <1>2, <1>3, <1>4, WakeOneStep DEF Wake

(* One turn of _pick.  The head is never dead: nobody dead is queued.       *)
LEMMA RotateStep ==
    ASSUME IInv, Rotate
    PROVE  IInv'
<1> DEFINE h == Head(runq)
<1>1. h \in Queued /\ h \in Pid /\ QueueOf(Tail(runq), Queued \ {h})
  BY QueueTail DEF IInv, Rotate
<1>2. state[h] = "RUNNING"
  BY <1>1 DEF Queued
<1>3. runq' = Append(Tail(runq), h)
  BY <1>2 DEF Rotate
<1> HIDE DEF h
<1>4. QueueOf(Append(Tail(runq), h), (Queued \ {h}) \cup {h})
  BY <1>1, QueueAppend
<1>5. (Queued \ {h}) \cup {h} = Queued
  BY <1>1
<1>6. UNCHANGED <<next_pid, state, ppid, pgrp, wait_channel, task>>
  BY DEF Rotate
<1>7. Queued' = Queued
  BY <1>6 DEF Queued, Ghost, KernelTask
<1>8. QueueOf(runq, Queued)'
  BY <1>3, <1>4, <1>5, <1>7 DEF QueueOf
<1>9. TableTypes' /\ GoodTasks' /\ Sleepers'
  BY <1>6 DEF IInv, TableTypes, GoodTasks, Sleepers
<1>10. Fresh' /\ FirstProcess' /\ ParentsCanReap'
  BY <1>6 DEF IInv, Fresh, FirstProcess, ParentsCanReap, Procs
<1> QED BY <1>8, <1>9, <1>10 DEF IInv

(* init starts a child, or leaves a half-made one.                          *)
LEMMA SpawnStep ==
    ASSUME IInv, NEW ok \in BOOLEAN, NEW new_session \in BOOLEAN, Spawn(ok, new_session)
    PROVE  IInv'
<1> DEFINE n == next_pid
           u == IF ok THEN [NewTask EXCEPT !.leader = new_session] ELSE NoTask
<1>1. GoodTask(u) /\ u.cpu = ok
  <2> DEFINE v == [NewTask EXCEPT !.leader = new_session]
  <2>1. v \in Task /\ SameMachine(NewTask, v) /\ v.alarm_at = NewTask.alarm_at
    BY NewTaskGood DEF GoodTask, Task, SameMachine
  <2> HIDE DEF v
  <2>2. GoodTask(v) /\ v.cpu = NewTask.cpu
    BY <2>1, NewTaskGood DEF GoodTask, SameMachine
  <2>3. NewTask.cpu = TRUE /\ NoTask.cpu = FALSE
    BY NewTaskGood DEF GoodTask, Task
  <2>4. u = IF ok THEN v ELSE NoTask
    BY DEF v
  <2> QED BY <2>2, <2>3, <2>4, NewTaskGood
<1>2. /\ n <= MaxPid
      /\ task' = [task EXCEPT ![n] = u]
      /\ runq' = IF ok THEN Append(runq, n) ELSE runq
      /\ next_pid' = n + 1
      /\ state' = [state EXCEPT ![n] = "RUNNING"]
      /\ ppid' = [ppid EXCEPT ![n] = 1]
      /\ pgrp' = [pgrp EXCEPT ![n] = n]
      /\ UNCHANGED wait_channel
  BY DEF Spawn
<1> HIDE DEF u
<1>3. n \in Pid /\ n \in 0 .. MaxPid
  BY <1>2 DEF IInv, TableTypes, Pid
<1>4. 1 \in Procs
  BY PidFacts DEF IInv, FirstProcess, Procs
<1>5. \A q \in Pid : task'[q] = IF q = n THEN u ELSE task[q]
  BY <1>2 DEF IInv, TableTypes
<1>6. task' \in [Pid -> Task]
  BY <1>1, <1>2 DEF IInv, TableTypes, GoodTask
<1>7. GoodTasks'
  BY <1>1, <1>5 DEF IInv, GoodTasks
<1>8. \A q \in Pid \ {n} : /\ task'[q].cpu = task[q].cpu
                           /\ SleepsOn(state[q], wait_channel[q], task'[q])
  BY <1>5 DEF IInv, Sleepers
<1>9. task'[n].cpu = ok
  BY <1>1, <1>3, <1>5
<1> QED BY <1>2, <1>3, <1>4, <1>6, <1>7, <1>8, <1>9, BirthStep

(* init reaps its child.                                                    *)
LEMMA InitReapsStep ==
    ASSUME IInv, NEW q \in Pid, InitReaps(q)
    PROVE  IInv'
<1>1. /\ q \in Procs /\ state[q] = "ZOMBIE" /\ ppid[q] = 1 /\ Reap(q)
      /\ UNCHANGED <<next_pid, wait_channel, runq, task>>
  BY DEF InitReaps
<1>2. q # 1
  BY <1>1 DEF IInv, FirstProcess
<1>3. task' \in [Pid -> Task] /\ GoodTasks'
  BY <1>1 DEF IInv, TableTypes, GoodTasks
<1>4. \A p \in Pid : /\ task'[p].cpu = task[p].cpu
                     /\ SleepsOn(state[p], wait_channel[p], task'[p])
  BY <1>1 DEF IInv, Sleepers
<1> QED BY <1>1, <1>2, <1>3, <1>4, ReapStep

(* A read from the terminal returns.                                        *)
LEMMA ReadReturnsStep ==
    ASSUME IInv, NEW p \in Pid, ReadReturns(p)
    PROVE  IInv'
BY ReturnStep DEF ReadReturns, CanCall

(* exit, or a fault.                                                        *)
LEMMA ExitsStep ==
    ASSUME IInv, NEW p \in Pid, Exit(p)
    PROVE  IInv'
BY ExitStep DEF Exit, CanRun

-----------------------------------------------------------------------------
(* The invariant holds.                                                     *)

(* Both ways of booting establish the invariant.                            *)
LEMMA InitEstablishes == Init => IInv
<1> SUFFICES ASSUME Init PROVE IInv
  OBVIOUS
<1> USE DEF Init
<1>1. 1 \in Pid /\ \A p \in Pid : p >= 1
  BY ProcessesAssumption DEF Pid
<1>2. GoodTasks
  <2>1. \A p \in Pid : task[p] \in {NewTask, NoTask}
    OBVIOUS
  <2> QED BY <2>1, NewTaskGood DEF GoodTasks
<1>3. TableTypes
  <2>1. /\ 2 \in 2 .. MaxPid + 1 /\ 0 \in 0 .. MaxPid /\ 1 \in 0 .. MaxPid
        /\ "RUNNING" \in State /\ "none" \in State /\ "none" \in Channel
    BY ProcessesAssumption DEF State, Channel
  <2>2. task \in [Pid -> Task]
    BY NewTaskGood DEF GoodTask
  <2> QED BY <2>1, <2>2 DEF TableTypes
<1>4. Sleepers
  BY DEF Sleepers, SleepsOn
<1>5. Fresh /\ FirstProcess /\ ParentsCanReap
  BY <1>1 DEF Fresh, FirstProcess, ParentsCanReap, Procs
<1>6. Queued = {1}
  <2>1. ~Ghost(1)
    BY <1>1, NewTaskGood, ProcessesAssumption DEF Ghost, KernelTask
  <2>2. \A p \in Pid : state[p] = "RUNNING" <=> p = 1
    OBVIOUS
  <2> QED BY <1>1, <2>1, <2>2 DEF Queued
<1>7. QueueOf(<<1>>, {1})
  <2>1. <<1>> \in Seq(Pid) /\ DOMAIN <<1>> = {1} /\ <<1>>[1] = 1
    BY <1>1
  <2> QED BY <2>1 DEF QueueOf
<1>8. QueueOf(runq, Queued)
  BY <1>6, <1>7
<1> QED BY <1>2, <1>3, <1>4, <1>5, <1>8 DEF IInv

(* Every step preserves it.                                                 *)
LEMMA NextPreserves == IInv /\ [Next]_procVars => IInv'
<1> SUFFICES ASSUME IInv, [Next]_procVars PROVE IInv'
  OBVIOUS
<1>1. ASSUME NEW p \in Pid, GoesOn(p) PROVE IInv'
  <2>1. CASE Fork(p)
    BY <2>1, ForkStep
  <2>2. CASE \E a \in WaitArgs : WaitpidReaps(p, a) \/ WaitpidReturns(p, a)
    BY <2>2, WaitpidStep
  <2>3. CASE \E a \in KillArgs, s \in Sigs : Kill(p, a, s)
    BY <2>3, KillStep
  <2>4. CASE \/ \E s \in Sigs, h \in {"SIG_DFL", "SIG_IGN", "user"}, d \in Dispositions :
                   Signal(p, s, h, d.magic)
             \/ \E s \in Sigs, d \in Dispositions : Sigaction(p, s, d)
    BY <2>4, SignalStep
  <2>5. CASE \E m \in SUBSET Sigs : Ssetmask(p, m)
    BY <2>5, SsetmaskStep
  <2>6. CASE \E on \in BOOLEAN : Alarm(p, on)
    BY <2>6, AlarmStep
  <2>7. CASE Setsid(p) \/ \E q \in Pid, g \in 0 .. MaxPid : Setpgid(p, q, g)
    BY <2>7, GroupStep
  <2>8. CASE LibcReturn(p)
    BY <2>8, HandlerReturnStep
  <2> QED BY <1>1, <2>1, <2>2, <2>3, <2>4, <2>5, <2>6, <2>7, <2>8 DEF GoesOn
<1>2. ASSUME NEW p \in Pid, EndsSlice(p) PROVE IInv'
  <2>1. CASE Execve(p)
    BY <2>1, ExecveStep
  <2>2. CASE (\E a \in WaitArgs : WaitpidBlocks(p, a)) \/ Pause(p)
    BY <2>2, BlocksStep
  <2>3. CASE SigReturn(p)
    BY <2>3, HandlerReturnStep
  <2> QED BY <1>2, <2>1, <2>2, <2>3 DEF EndsSlice
<1>3. ASSUME NEW p \in Pid, UserStep(p) PROVE IInv'
  BY <1>1, <1>2, <1>3, ExitsStep, ReadReturnsStep, BlocksStep DEF UserStep
<1>4. ASSUME NEW p \in Pid, KernelStep(p) PROVE IInv'
  BY <1>4, AlarmFiresStep, WakesStep, DeliverStep, InitReapsStep DEF KernelStep
<1>5. CASE Rotate
  BY <1>5, RotateStep
<1>6. ASSUME NEW ok \in BOOLEAN, NEW new_session \in BOOLEAN, Spawn(ok, new_session) PROVE IInv'
  BY <1>6, SpawnStep
<1>7. CASE UNCHANGED procVars
  <2>1. UNCHANGED <<next_pid, state, ppid, pgrp, wait_channel, runq, task>>
    BY <1>7 DEF procVars
  <2>2. TableTypes' /\ GoodTasks' /\ Sleepers'
    BY <2>1 DEF IInv, TableTypes, GoodTasks, Sleepers
  <2>3. Fresh' /\ FirstProcess' /\ ParentsCanReap'
    BY <2>1 DEF IInv, Fresh, FirstProcess, ParentsCanReap, Procs
  <2>4. Queued' = Queued
    BY <2>1 DEF Queued, Ghost, KernelTask
  <2>5. QueueOf(runq, Queued)'
    BY <2>1, <2>4 DEF IInv, QueueOf
  <2> QED BY <2>2, <2>3, <2>5 DEF IInv
<1> QED BY <1>3, <1>4, <1>5, <1>6, <1>7 DEF Next

(* IInv is an invariant; the others follow from it.                         *)
THEOREM InvariantHolds == Spec => []IInv
BY InitEstablishes, NextPreserves, PTL DEF Spec

(* Every variable keeps its type, whatever processes, signals and the       *)
(* kernel do.                                                               *)
THEOREM TypeCorrect == Spec => []TypeOK
<1>1. IInv => TypeOK
  BY DEF IInv, TableTypes, QueueOf, TypeOK
<1> QED BY <1>1, InvariantHolds, PTL

(* The run queue holds exactly the processes that can run, each once.       *)
THEOREM QueueIsExact == Spec => []RunqExact
<1>1. IInv => RunqExact
  BY DEF IInv, QueueOf, Queued, RunqExact
<1> QED BY <1>1, InvariantHolds, PTL

(* Whoever sleeps stands on the call that its channel is about.             *)
THEOREM SleepersAreRewound == Spec => []SleepersRewound
<1>1. ASSUME IInv, NEW p \in Pid, state[p] = "SLEEPING"
      PROVE  /\ task[p].restart_syscall
             /\ task[p].context.eip = "int80"
             /\ task[p].context.eax \in BlockingCall
             /\ wait_channel[p] = ChannelOf(task[p].context.eax)
  BY <1>1 DEF IInv, Sleepers, SleepsOn, GoodTasks, GoodTask, GoodContext
<1>2. IInv => SleepersRewound
  BY <1>1 DEF SleepersRewound
<1> QED BY <1>2, InvariantHolds, PTL

(* -EINTR is never executed as the number of a call, neither at once nor    *)
(* after the return from a handler.                                         *)
THEOREM CallsAreOnlyRedone == Spec => []CallsAreRedone
<1>1. ASSUME IInv, NEW p \in Pid, NEW c \in Contexts(p), c.eip = "int80"
      PROVE  c.eax \in BlockingCall
  <2>1. GoodTask(task[p])
    BY <1>1 DEF IInv, GoodTasks
  <2>2. GoodContext(c)
    <3>1. CASE c = task[p].context
      BY <2>1, <3>1 DEF GoodTask
    <3>2. ASSUME NEW i \in DOMAIN task[p].stack, c = task[p].stack[i].context
          PROVE  GoodContext(c)
      BY <2>1, <3>2 DEF GoodTask
    <3> QED BY <3>1, <3>2 DEF Contexts
  <2> QED BY <1>1, <2>2 DEF GoodContext
<1>2. IInv => CallsAreRedone
  BY <1>1 DEF CallsAreRedone
<1> QED BY <1>2, InvariantHolds, PTL

(* Every process has a parent that can reap it, or is init's.               *)
THEOREM ParentsAlwaysCanReap == Spec => []ParentsCanReap
<1>1. IInv => ParentsCanReap
  BY DEF IInv
<1> QED BY <1>1, InvariantHolds, PTL

-----------------------------------------------------------------------------
(* Life and death.                                                          *)

(* A step that takes nobody out of the table.                               *)
NobodyReaped ==
    \A q \in Pid :
        /\ state[q] = "ZOMBIE" => state'[q] = "ZOMBIE"
        /\ q < next_pid /\ state[q] = "none" => state'[q] = "none"
        /\ state[q] \notin {"ZOMBIE", "none"} => state'[q] # "none"

(* The steps that take q out, and who does.                                 *)
ReapedBy(p, q) ==
    /\ q \in Procs /\ state[q] = "ZOMBIE" /\ ppid[q] = p /\ p \in Pid /\ Reap(q)
    /\ \A r \in Pid \ {p} : task'[r] = task[r]
    /\ CanRun(p) \/ KernelTask(p)

(* A process that exits stays in the table, as do all others.               *)
LEMMA ExitReapsNobody ==
    ASSUME NEW p \in Pid, state[p] \notin {"none", "ZOMBIE"}, ExitProcess(p)
    PROVE  NobodyReaped
<1> DEFINE parent == ppid[p]
           told   == {q \in Procs \ {p} : q = parent}
           woken  == {q \in told : \/ Interrupts(q, SIGCHLD)
                                   \/ state[q] = "SLEEPING" /\ wait_channel[q] = "wait"}
<1>1. \A q \in Pid : state'[q] = IF q = p THEN "ZOMBIE"
                                 ELSE IF q \in woken THEN "RUNNING" ELSE state[q]
  BY DEF ExitProcess
<1>2. \A q \in woken : state[q] = "SLEEPING"
  BY DEF Interrupts
<1> HIDE DEF woken
<1> QED BY <1>1, <1>2 DEF NobodyReaped

(* Only waitpid of the parent and the step of init take somebody out.       *)
LEMMA WhoReaps ==
    ASSUME IInv, [Next]_procVars
    PROVE  NobodyReaped \/ \E p, q \in Pid : ReapedBy(p, q)
<1>1. ASSUME UNCHANGED state PROVE NobodyReaped
  BY <1>1 DEF NobodyReaped
<1>2. ASSUME NEW W, \A q \in W : state[q] = "SLEEPING",
             state' = [q \in Pid |-> IF q \in W THEN "RUNNING" ELSE state[q]]
      PROVE  NobodyReaped
  BY <1>2 DEF NobodyReaped
<1>3. ASSUME NEW p \in Pid, NEW st \in State \ {"none"}, state[p] \notin {"none", "ZOMBIE"},
             state' = [state EXCEPT ![p] = st]
      PROVE  NobodyReaped
  BY <1>3 DEF NobodyReaped, IInv, TableTypes
<1>4. ASSUME next_pid <= MaxPid, state' = [state EXCEPT ![next_pid] = "RUNNING"]
      PROVE  NobodyReaped
  <2>1. next_pid \in Pid /\ state[next_pid] = "none" /\ ~(next_pid < next_pid)
    BY <1>4 DEF IInv, TableTypes, Fresh, Pid
  <2> QED BY <1>4, <2>1 DEF NobodyReaped, IInv, TableTypes
<1>5. ASSUME NEW p \in Pid, GoesOn(p)
      PROVE  NobodyReaped \/ \E q \in Pid : ReapedBy(p, q)
  <2>1. CASE Fork(p)
    BY <2>1, <1>4 DEF Fork
  <2>2. ASSUME NEW a \in WaitArgs, WaitpidReaps(p, a)
        PROVE  \E q \in Pid : ReapedBy(p, q)
    <3>1. PICK q \in Zombies(Wanted(p, a)) : Reap(q)
      BY <2>2 DEF WaitpidReaps
    <3>2. q \in Pid /\ q \in Procs /\ state[q] = "ZOMBIE" /\ ppid[q] = p
      BY <3>1 DEF Zombies, Wanted, Procs
    <3>3. CanRun(p) /\ \A r \in Pid \ {p} : task'[r] = task[r]
      BY <2>2 DEF WaitpidReaps, CanCall, Returned, IInv, TableTypes
    <3> QED BY <3>1, <3>2, <3>3 DEF ReapedBy
  <2>3. ASSUME NEW a \in WaitArgs, WaitpidReturns(p, a) PROVE NobodyReaped
    BY <2>3, <1>1 DEF WaitpidReturns
  <2>4. ASSUME NEW a \in KillArgs, NEW s \in Sigs, Kill(p, a, s) PROVE NobodyReaped
    <3> DEFINE W == {q \in Targets(p, a) : Interrupts(q, s)}
    <3>1. state' = [q \in Pid |-> IF q \in W THEN "RUNNING" ELSE state[q]]
      BY <2>4 DEF Kill, PostSignal
    <3>2. \A q \in W : state[q] = "SLEEPING"
      BY DEF Interrupts
    <3> HIDE DEF W
    <3> QED BY <3>1, <3>2, <1>2
  <2>5. CASE \/ \E s \in Sigs, h \in {"SIG_DFL", "SIG_IGN", "user"}, d \in Dispositions :
                   Signal(p, s, h, d.magic)
             \/ \E s \in Sigs, d \in Dispositions : Sigaction(p, s, d)
    BY <2>5, <1>1 DEF Signal, Sigaction, SetAction
  <2>6. CASE \/ \E m \in SUBSET Sigs : Ssetmask(p, m)
             \/ \E on \in BOOLEAN : Alarm(p, on)
    BY <2>6, <1>1 DEF Ssetmask, Alarm
  <2>7. CASE Setsid(p) \/ (\E q \in Pid, g \in 0 .. MaxPid : Setpgid(p, q, g)) \/ LibcReturn(p)
    BY <2>7, <1>1 DEF Setsid, Setpgid, LibcReturn
  <2> QED BY <1>5, <2>1, <2>2, <2>3, <2>4, <2>5, <2>6, <2>7 DEF GoesOn
<1>6. ASSUME NEW p \in Pid, NEW call, CanRun(p), Block(p, call) PROVE NobodyReaped
  <2>1. state[p] \notin {"none", "ZOMBIE"} /\ "SLEEPING" \in State \ {"none"}
    BY <1>6 DEF CanRun, State
  <2> QED BY <1>6, <2>1, <1>3 DEF Block
<1>7. ASSUME NEW p \in Pid, EndsSlice(p) \/ Exit(p) \/ ReadReturns(p) \/ ReadBlocks(p)
      PROVE  NobodyReaped
  <2>1. CASE Execve(p) \/ SigReturn(p) \/ ReadReturns(p)
    BY <2>1, <1>1 DEF Execve, SigReturn, ReadReturns
  <2>2. CASE (\E a \in WaitArgs : WaitpidBlocks(p, a)) \/ Pause(p) \/ ReadBlocks(p)
    BY <2>2, <1>6 DEF WaitpidBlocks, Pause, ReadBlocks, CanCall
  <2>3. CASE Exit(p)
    BY <2>3, ExitReapsNobody DEF Exit, CanRun
  <2> QED BY <1>7, <2>1, <2>2, <2>3 DEF EndsSlice
<1>8. ASSUME NEW p \in Pid, state[p] = "SLEEPING", state' = [state EXCEPT ![p] = "RUNNING"]
      PROVE  NobodyReaped
  <2>1. "RUNNING" \in State \ {"none"}
    BY DEF State
  <2> QED BY <1>8, <2>1, <1>3
<1>9. ASSUME NEW p \in Pid, AlarmFires(p) \/ WakeParent(p) \/ WakeReader(p) PROVE NobodyReaped
  <2>1. CASE AlarmFires(p)
    <3>1. CASE Interrupts(p, SIGALRM)
      BY <2>1, <3>1, <1>8 DEF AlarmFires, Interrupts
    <3>2. CASE ~Interrupts(p, SIGALRM)
      BY <2>1, <3>2, <1>1 DEF AlarmFires
    <3> QED BY <3>1, <3>2
  <2>2. CASE WakeParent(p) \/ WakeReader(p)
    BY <2>2, <1>8 DEF WakeParent, WakeReader, Wake
  <2> QED BY <1>9, <2>1, <2>2
<1>10. ASSUME NEW p \in Pid, Deliver(p) PROVE NobodyReaped
  <2>1. PICK s \in Pending(p) : \/ DeliverIgnored(p, s) \/ DeliverStop(p, s)
                                \/ DeliverFatal(p, s) \/ DeliverHandler(p, s)
    BY <1>10 DEF Deliver
  <2>2. state[p] \notin {"none", "ZOMBIE"} /\ "STOPPED" \in State \ {"none"}
    BY <1>10 DEF Deliver, State
  <2>3. CASE DeliverIgnored(p, s)
    BY <2>3, <1>1 DEF DeliverIgnored
  <2>4. CASE DeliverStop(p, s)
    BY <2>2, <2>4, <1>3 DEF DeliverStop
  <2>5. CASE DeliverFatal(p, s)
    BY <2>2, <2>5, ExitReapsNobody DEF DeliverFatal
  <2>6. CASE DeliverHandler(p, s)
    BY <2>6, <1>1, <1>8 DEF DeliverHandler
  <2> QED BY <2>1, <2>3, <2>4, <2>5, <2>6
<1>11. ASSUME NEW q \in Pid, InitReaps(q) PROVE \E p \in Pid : ReapedBy(p, q)
  <2>1. ReapedBy(1, q)
    BY <1>11, PidFacts DEF InitReaps, ReapedBy, KernelTask
  <2> QED BY <2>1, PidFacts
<1>12. CASE \E p \in Pid : UserStep(p)
  BY <1>12, <1>5, <1>7 DEF UserStep
<1>13. CASE \E p \in Pid : KernelStep(p)
  BY <1>13, <1>9, <1>10, <1>11 DEF KernelStep
<1>14. CASE Rotate \/ UNCHANGED procVars
  BY <1>14, <1>1 DEF Rotate, procVars
<1>15. CASE \E ok, new_session \in BOOLEAN : Spawn(ok, new_session)
  BY <1>15, <1>4 DEF Spawn
<1> QED BY <1>12, <1>13, <1>14, <1>15 DEF Next

(* Reaping changes one state.                                               *)
LEMMA ReapedState ==
    ASSUME IInv, NEW p \in Pid, NEW q \in Pid, ReapedBy(p, q)
    PROVE  \A r \in Pid : state'[r] = IF r = q THEN "none" ELSE state[r]
BY DEF ReapedBy, Reap, IInv, TableTypes

(* The dead stay dead, numbers are not used again, and only zombies leave   *)
(* the table.                                                               *)
THEOREM DeadAlwaysStayDead == Spec => DeadStayDead
<1> DEFINE A == \A p \in Pid :
              /\ state[p] = "ZOMBIE" => state'[p] \in {"ZOMBIE", "none"}
              /\ p < next_pid /\ state[p] = "none" => state'[p] = "none"
              /\ state[p] \notin {"ZOMBIE", "none"} => state'[p] # "none"
<1>1. ASSUME IInv, [Next]_procVars PROVE A
  <2>1. CASE NobodyReaped
    BY <2>1 DEF NobodyReaped
  <2>2. ASSUME NEW p \in Pid, NEW q \in Pid, ReapedBy(p, q) PROVE A
    <3>1. state[q] = "ZOMBIE" /\ \A r \in Pid : state'[r] = IF r = q THEN "none" ELSE state[r]
      BY <1>1, <2>2, ReapedState DEF ReapedBy
    <3> QED BY <3>1
  <2> QED BY <1>1, <2>1, <2>2, WhoReaps
<1>2. IInv /\ [Next]_procVars => [A]_procVars
  BY <1>1
<1> QED BY <1>2, InvariantHolds, PTL DEF Spec, DeadStayDead

(* A zombie is reaped by its own parent, one at a time.                     *)
THEOREM OnlyParentsReap == Spec => ReapedByParent
<1> DEFINE A == \A q \in Pid :
              state[q] = "ZOMBIE" /\ state'[q] = "none" =>
                  /\ \A r \in Pid \ {q} : state'[r] = state[r]
                  /\ \A r \in Pid \ {ppid[q]} : task'[r] = task[r]
                  /\ CanRun(ppid[q]) \/ KernelTask(ppid[q])
<1>1. ASSUME IInv, [Next]_procVars PROVE A
  <2>1. CASE NobodyReaped
    BY <2>1 DEF NobodyReaped
  <2>2. ASSUME NEW p \in Pid, NEW z \in Pid, ReapedBy(p, z) PROVE A
    <3>1. /\ \A r \in Pid : state'[r] = IF r = z THEN "none" ELSE state[r]
          /\ ppid[z] = p
          /\ \A r \in Pid \ {p} : task'[r] = task[r]
          /\ CanRun(p) \/ KernelTask(p)
      BY <1>1, <2>2, ReapedState DEF ReapedBy
    <3>2. ASSUME NEW q \in Pid, state[q] = "ZOMBIE", state'[q] = "none" PROVE q = z
      BY <3>1, <3>2
    <3> QED BY <3>1, <3>2
  <2> QED BY <1>1, <2>1, <2>2, WhoReaps
<1>2. IInv /\ [Next]_procVars => [A]_procVars
  BY <1>1
<1> QED BY <1>2, InvariantHolds, PTL DEF Spec, ReapedByParent

-----------------------------------------------------------------------------
(* Handlers that return.                                                    *)

(* Neither the process nor a handler on its stack stands nowhere; and its   *)
(* frames are popped in user mode, or the kernel has recorded their layouts. *)
Recorded(t) ==
    /\ Len(t.sigframes) = Len(t.stack)
    /\ \A i \in DOMAIN t.stack : t.sigframes[i] = t.stack[i].has_blocked
Tame(t) ==
    /\ t.context.eip # "wild"
    /\ \A i \in DOMAIN t.stack : t.stack[i].context.eip # "wild"
    /\ (\A i \in DOMAIN t.stack : ~t.stack[i].magic) \/ Recorded(t)
TameTasks == \A p \in Pid : Tame(task[p])

(* Changes that touch no frame, and a machine without frames.               *)
Steady(t, u) == /\ u.stack = t.stack /\ u.sigframes = t.sigframes
                /\ u.context.eip = "wild" => t.context.eip = "wild"
Bare(u)      == u.stack = <<>> /\ u.context.eip # "wild"

(* The frames of a steady machine return as before.                         *)
LEMMA SteadyTame ==
    ASSUME NEW t, Tame(t), NEW u, Steady(t, u)
    PROVE  Tame(u)
BY DEF Tame, Steady, Recorded

(* A machine without frames has none that does not return.                  *)
LEMMA BareTame ==
    ASSUME NEW u, Bare(u)
    PROVE  Tame(u)
<1>1. DOMAIN <<>> = {}
  OBVIOUS
<1> QED BY <1>1 DEF Tame, Bare

(* Records start, and end, without frames.                                  *)
LEMMA StartsBare == Bare(NewTask) /\ Bare(NoTask)
<1>1. NewTask.stack = <<>> /\ NewTask.context = UserContext
  BY DEF NewTask
<1>2. NoTask.stack = <<>> /\ NoTask.context = UserContext
  BY <1>1 DEF NoTask, NewTask
<1> QED BY <1>1, <1>2 DEF Bare, UserContext

(* A pending signal, and the end of a sleep, leave the frames alone.        *)
LEMMA PostedSteady ==
    ASSUME IInv, NEW q \in Pid, NEW s \in Sigs
    PROVE  Steady(task[q], Posted(q, s))
<1> DEFINE t == task[q]
           u == [t EXCEPT !.signal = @ \cup {s}]
           c == [eip |-> IF u.context.eip = "int80" THEN "user" ELSE "wild", eax |-> EintrCall]
           v == [u EXCEPT !.context = c, !.restart_syscall = FALSE]
<1>1. t \in Task /\ SleepsOn(state[q], wait_channel[q], t)
  BY DEF IInv, Sleepers, TableTypes
<1>2. /\ u \in Task /\ u.stack = t.stack /\ u.sigframes = t.sigframes /\ u.context = t.context
      /\ u.restart_syscall = t.restart_syscall
  BY <1>1 DEF Task
<1>3. /\ Posted(q, s) = IF state[q] = "ZOMBIE" THEN t
                        ELSE IF Interrupts(q, s) THEN Interrupted(u) ELSE u
      /\ Interrupted(u) = IF u.restart_syscall THEN v ELSE u
  BY DEF Posted, Interrupted
<1> HIDE DEF t, u
<1>4. v.stack = u.stack /\ v.sigframes = u.sigframes /\ v.context = c
  BY <1>2 DEF Task
<1>5. Interrupts(q, s) => v.context.eip = "user"
  BY <1>1, <1>2, <1>4 DEF Interrupts, SleepsOn
<1> HIDE DEF v
<1>6. Steady(t, Posted(q, s))
  BY <1>2, <1>3, <1>4, <1>5 DEF Steady
<1> QED BY <1>6 DEF t

(* One record changes.                                                      *)
LEMMA OneSteady ==
    ASSUME IInv, TameTasks, NEW p \in Pid, NEW u, Tame(u), task' = [task EXCEPT ![p] = u]
    PROVE  TameTasks'
<1>1. \A q \in Pid : task'[q] = IF q = p THEN u ELSE task[q]
  BY DEF IInv, TableTypes
<1> QED BY <1>1 DEF TameTasks

(* Back in user code, or back on the int 0x80.                              *)
LEMMA MovedTame ==
    ASSUME IInv, TameTasks, NEW p \in Pid, NEW c, c.eip # "wild",
           NEW restart \in BOOLEAN
    PROVE  /\ Tame([task[p] EXCEPT !.context = c])
           /\ Tame([task[p] EXCEPT !.context = c, !.restart_syscall = restart])
<1> DEFINE t == task[p]
           u == [t EXCEPT !.context = c]
           v == [t EXCEPT !.context = c, !.restart_syscall = restart]
<1>1. t \in Task /\ Tame(t)
  BY DEF IInv, TableTypes, TameTasks
<1>2. /\ u.stack = t.stack /\ u.sigframes = t.sigframes /\ u.context = c
      /\ v.stack = t.stack /\ v.sigframes = t.sigframes /\ v.context = c
  BY <1>1 DEF Task
<1>3. Steady(t, u) /\ Steady(t, v)
  BY <1>2 DEF Steady
<1> HIDE DEF u, v, t
<1>4. Tame(u) /\ Tame(v)
  BY <1>1, <1>3, SteadyTame
<1> QED BY <1>4 DEF u, v, t

(* A call that returns.                                                     *)
LEMMA ReturnedTame ==
    ASSUME IInv, TameTasks, NEW p \in Pid, task' = Returned(p)
    PROVE  TameTasks'
<1>1. UserContext.eip # "wild" /\ TRUE \in BOOLEAN
  BY DEF UserContext
<1>2. Tame([task[p] EXCEPT !.context = UserContext])
  BY <1>1, MovedTame
<1>3. task' = [task EXCEPT ![p] = [task[p] EXCEPT !.context = UserContext]]
  BY DEF Returned, IInv, TableTypes
<1> QED BY <1>2, <1>3, OneSteady

(* A call that blocks.                                                      *)
LEMMA BlockTame ==
    ASSUME IInv, TameTasks, NEW p \in Pid, NEW call, Block(p, call)
    PROVE  TameTasks'
<1> DEFINE c == [eip |-> "int80", eax |-> call]
<1>1. c.eip # "wild" /\ TRUE \in BOOLEAN
  OBVIOUS
<1>2. task' = [task EXCEPT ![p] = [task[p] EXCEPT !.context = c, !.restart_syscall = TRUE]]
  BY DEF Block, IInv, TableTypes
<1> HIDE DEF c
<1>3. Tame([task[p] EXCEPT !.context = c, !.restart_syscall = TRUE])
  BY <1>1, MovedTame
<1> QED BY <1>2, <1>3, OneSteady

(* A step that changes every record by no more than that.                   *)
Settled(t, u) == Steady(t, u) \/ Bare(u) \/ Tame(u)

(* Such a step leaves every frame one that returns.                         *)
LEMMA SettledTame ==
    ASSUME TameTasks, \A q \in Pid : Settled(task[q], task'[q])
    PROVE  TameTasks'
<1>1. ASSUME NEW q \in Pid PROVE Tame(task'[q])
  <2>1. Tame(task[q]) /\ Settled(task[q], task'[q])
    BY DEF TameTasks
  <2> QED BY <2>1, SteadyTame, BareTame DEF Settled
<1> QED BY <1>1 DEF TameTasks

(* Calls that change other fields of one record.                            *)
LEMMA FieldTame ==
    ASSUME IInv, TameTasks, NEW p \in Pid,
           \/ \E s \in Sigs, d \in Disposition : SetAction(p, s, d)
           \/ \E m \in SUBSET Sigs : Ssetmask(p, m)
           \/ \E on \in BOOLEAN : Alarm(p, on)
           \/ Setsid(p)
           \/ \E s \in Sigs : DeliverIgnored(p, s) \/ DeliverStop(p, s)
    PROVE  TameTasks'
<1> DEFINE t == task[p]
<1>1. t \in Task /\ Tame(t)
  BY DEF IInv, TableTypes, TameTasks
<1>2. ASSUME NEW u, task' = [task EXCEPT ![p] = u], u.context = t.context,
             u.stack = t.stack, u.sigframes = t.sigframes
      PROVE  TameTasks'
  <2>1. Steady(t, u)
    BY <1>2 DEF Steady
  <2> HIDE DEF t
  <2>2. Tame(u)
    BY <1>1, <2>1, SteadyTame
  <2> QED BY <1>2, <2>2, OneSteady
<1>3. ASSUME NEW s \in Sigs, NEW d \in Disposition, SetAction(p, s, d) PROVE TameTasks'
  <2> DEFINE u == [t EXCEPT !.sigactions[s] = d]
  <2>1. task' = [task EXCEPT ![p] = u]
    BY <1>3 DEF SetAction
  <2>2. u.context = t.context /\ u.stack = t.stack /\ u.sigframes = t.sigframes
    BY <1>1 DEF Task
  <2> HIDE DEF u, t
  <2> QED BY <1>2, <2>1, <2>2
<1>4. ASSUME NEW m \in SUBSET Sigs, Ssetmask(p, m) PROVE TameTasks'
  <2> DEFINE u == [t EXCEPT !.blocked = m \ {SIGKILL}]
  <2>1. task' = [task EXCEPT ![p] = u]
    BY <1>4 DEF Ssetmask
  <2>2. u.context = t.context /\ u.stack = t.stack /\ u.sigframes = t.sigframes
    BY <1>1 DEF Task
  <2> HIDE DEF u, t
  <2> QED BY <1>2, <2>1, <2>2
<1>5. ASSUME NEW on \in BOOLEAN, Alarm(p, on) PROVE TameTasks'
  <2> DEFINE u == [t EXCEPT !.alarm_at = on]
  <2>1. task' = [task EXCEPT ![p] = u]
    BY <1>5 DEF Alarm
  <2>2. u.context = t.context /\ u.stack = t.stack /\ u.sigframes = t.sigframes
    BY <1>1 DEF Task
  <2> HIDE DEF u, t
  <2> QED BY <1>2, <2>1, <2>2
<1>6. CASE Setsid(p)
  <2> DEFINE u == [t EXCEPT !.leader = TRUE]
  <2>1. task' = [task EXCEPT ![p] = u]
    BY <1>6 DEF Setsid
  <2>2. u.context = t.context /\ u.stack = t.stack /\ u.sigframes = t.sigframes
    BY <1>1 DEF Task
  <2> HIDE DEF u, t
  <2> QED BY <1>2, <2>1, <2>2
<1>7. ASSUME NEW s \in Sigs, DeliverIgnored(p, s) \/ DeliverStop(p, s) PROVE TameTasks'
  <2> DEFINE u == Consumed(p, s)
  <2>1. task' = [task EXCEPT ![p] = u]
    BY <1>7 DEF DeliverIgnored, DeliverStop
  <2>2. u.context = t.context /\ u.stack = t.stack /\ u.sigframes = t.sigframes
    BY <1>1 DEF Consumed, Task
  <2> HIDE DEF u, t
  <2> QED BY <1>2, <2>1, <2>2
<1> QED BY <1>3, <1>4, <1>5, <1>6, <1>7

(* Signals posted: to the targets of a kill, to a parent, for an alarm.     *)
LEMMA KillTame ==
    ASSUME IInv, TameTasks, NEW T, NEW s \in Sigs, PostSignal(T, s)
    PROVE  TameTasks'
<1>1. \A q \in Pid : task'[q] = IF q \in T THEN Posted(q, s) ELSE task[q]
  BY DEF PostSignal
<1>2. ASSUME NEW q \in Pid PROVE Settled(task[q], task'[q])
  <2>1. Steady(task[q], Posted(q, s)) /\ Steady(task[q], task[q])
    BY PostedSteady DEF Steady
  <2> QED BY <2>1, <1>1 DEF Settled
<1> QED BY <1>2, SettledTame

(* The same for the parent of a process that exits.                         *)
LEMMA ExitTame ==
    ASSUME IInv, TameTasks, NEW p \in Pid, ExitProcess(p)
    PROVE  TameTasks'
<1> DEFINE told == {q \in Procs \ {p} : q = ppid[p]}
<1>1. \A q \in Pid : task'[q] = IF q = p THEN NoTask
                                ELSE IF q \in told THEN Posted(q, SIGCHLD) ELSE task[q]
  BY DEF ExitProcess
<1> HIDE DEF told
<1>2. ASSUME NEW q \in Pid PROVE Settled(task[q], task'[q])
  <2>1. Steady(task[q], Posted(q, SIGCHLD)) /\ Steady(task[q], task[q])
    BY PostedSteady, ProcessesAssumption DEF Steady
  <2> QED BY <2>1, <1>1, StartsBare DEF Settled
<1> QED BY <1>2, SettledTame

(* The same for an alarm that is due.                                       *)
LEMMA AlarmFiresTame ==
    ASSUME IInv, TameTasks, NEW p \in Pid, AlarmFires(p)
    PROVE  TameTasks'
<1> DEFINE v == Posted(p, SIGALRM)
           u == [v EXCEPT !.alarm_at = FALSE]
<1>1. SIGALRM \in Sigs
  BY DEF AlarmFires, IInv, GoodTasks, GoodTask
<1>2. v \in Task /\ Steady(task[p], v) /\ Tame(task[p])
  BY <1>1, PostedGood, PostedSteady DEF GoodTask, TameTasks
<1>3. task' = [task EXCEPT ![p] = u]
  BY DEF AlarmFires
<1> HIDE DEF v
<1>4. u.stack = v.stack /\ u.sigframes = v.sigframes /\ u.context = v.context
  BY <1>2 DEF Task
<1> HIDE DEF u
<1>5. Steady(task[p], u)
  BY <1>2, <1>4 DEF Steady
<1>6. Tame(u)
  BY <1>2, <1>5, SteadyTame
<1> QED BY <1>3, <1>6, OneSteady

(* Records that start empty: execve, and the children of init.              *)
LEMMA ExecveTame ==
    ASSUME IInv, TameTasks, NEW p \in Pid, Execve(p)
    PROVE  TameTasks'
<1> DEFINE sa == [s \in Sigs |-> IF task[p].sigactions[s].handler = "SIG_IGN" THEN Ignore ELSE Default]
           e  == << >>
           u  == [task[p] EXCEPT !.sigactions = sa, !.context = UserContext,
                                 !.stack = e, !.sigframes = e]
<1>1. task' = [task EXCEPT ![p] = u] /\ task[p] \in Task
  BY DEF Execve, IInv, TableTypes
<1>2. u.stack = << >> /\ u.context = UserContext
  BY <1>1 DEF Task
<1> HIDE DEF u
<1>3. Tame(u)
  BY <1>2, BareTame DEF Bare, UserContext
<1> QED BY <1>1, <1>3, OneSteady

(* A child of init.                                                         *)
LEMMA SpawnTame ==
    ASSUME IInv, TameTasks, NEW ok \in BOOLEAN, NEW new_session \in BOOLEAN,
           Spawn(ok, new_session)
    PROVE  TameTasks'
<1> DEFINE v == [NewTask EXCEPT !.leader = new_session]
           u == IF ok THEN v ELSE NoTask
<1>1. next_pid \in Pid /\ task' = [task EXCEPT ![next_pid] = u]
  BY DEF Spawn, IInv, TableTypes, Pid
<1>2. NewTask \in Task
  BY NewTaskGood DEF GoodTask
<1>3. v.stack = NewTask.stack /\ v.context = NewTask.context
  BY <1>2 DEF Task
<1> HIDE DEF v
<1>4. Bare(u)
  BY <1>3, StartsBare DEF Bare
<1> HIDE DEF u
<1> QED BY <1>1, <1>4, BareTame, OneSteady

(* fork: the child has frames only where none returns through the kernel.   *)
LEMMA ForkTame ==
    ASSUME IInv, TameTasks, OneLibrary', NEW p \in Pid, Fork(p)
    PROVE  TameTasks'
<1> DEFINE n == next_pid
           t == [task[p] EXCEPT !.context = UserContext]
           u == [NewTask EXCEPT !.blocked = task[p].blocked,
                                !.sigactions = task[p].sigactions,
                                !.stack = task[p].stack]
<1>1. n \in Pid
  BY DEF Fork, IInv, TableTypes, Pid
<1>2. UserContext.eip # "wild"
  BY DEF UserContext
<1>3. Tame(t)
  BY <1>2, MovedTame
<1>4. Returned(p) = [task EXCEPT ![p] = t]
  BY DEF Returned, IInv, TableTypes
<1>5. task' = [Returned(p) EXCEPT ![n] = u]
  BY DEF Fork
<1>6. NewTask \in Task /\ NewTask.context = UserContext /\ NewTask.sigframes = << >>
  <2>1. NewTask \in Task
    BY NewTaskGood DEF GoodTask
  <2> QED BY <2>1 DEF NewTask
<1>7. task[p] \in Task /\ Tame(task[p])
  BY DEF IInv, TableTypes, TameTasks
<1>8. u.stack = task[p].stack /\ u.context = UserContext /\ u.sigframes = << >>
  BY <1>6 DEF Task
<1> HIDE DEF t, u
<1>9. \A q \in Pid : task'[q] = IF q = n THEN u ELSE IF q = p THEN t ELSE task[q]
  BY <1>1, <1>4, <1>5 DEF IInv, TableTypes
<1>10. Tame(u)
  <2>1. \/ TRUE \notin WaysBack(u)
        \/ Len(u.sigframes) = Len(u.stack)
    BY <1>1, <1>9 DEF OneLibrary
  <2>2. u.stack \in Seq(Frame)
    BY <1>7, <1>8 DEF Task
  <2>3. \A i \in DOMAIN u.stack : ~u.stack[i].magic
    <3>1. CASE TRUE \notin WaysBack(u)
      <4>1. ASSUME NEW i \in DOMAIN u.stack PROVE u.stack[i].magic \in BOOLEAN
        <5>1. u.stack[i] \in Frame
          BY <2>2, ElementOfSeq, LenProperties
        <5> QED BY <5>1 DEF Frame
      <4>2. ASSUME NEW i \in DOMAIN u.stack PROVE u.stack[i].magic \in WaysBack(u)
        BY DEF WaysBack
      <4> QED BY <3>1, <4>1, <4>2
    <3>2. CASE Len(u.sigframes) = Len(u.stack)
      <4>1. Len(u.stack) = 0
        BY <1>8, <3>2
      <4>2. DOMAIN u.stack = 1 .. 0
        BY <2>2, <4>1, LenProperties
      <4> QED BY <4>2
    <3> QED BY <2>1, <3>1, <3>2
  <2> QED BY <1>2, <1>7, <1>8, <2>3 DEF Tame
<1>11. ASSUME NEW q \in Pid PROVE Settled(task[q], task'[q])
  <2>1. Steady(task[q], task[q])
    BY DEF Steady
  <2> QED BY <1>3, <1>9, <1>10, <2>1 DEF Settled
<1> QED BY <1>11, SettledTame

(* What is on a stack and set for the signals returns one way.              *)
LEMMA OneWay ==
    ASSUME IInv, OneLibrary, NEW p \in Pid
    PROVE  LET t == task[p]
               all == {k \in DOMAIN t.stack : t.stack[k].magic}
               set == {s \in Sigs : t.sigactions[s].handler = "user"}
           IN  /\ \A k \in DOMAIN t.stack : t.stack[k].magic \in BOOLEAN
               /\ all # {} => all = DOMAIN t.stack
               /\ \A s \in set : t.sigactions[s].magic =>
                     all = DOMAIN t.stack /\ Len(t.sigframes) = Len(t.stack)
               /\ \A s \in set : ~t.sigactions[s].magic => all = {}
<1> DEFINE t == task[p]
           set == {s \in Sigs : t.sigactions[s].handler = "user"}
<1>1. t.stack \in Seq(Frame) /\ t.sigactions \in [Sigs -> Disposition]
  BY DEF IInv, TableTypes, Task
<1>2. \/ TRUE \notin WaysBack(t)
      \/ FALSE \notin WaysBack(t) /\ Len(t.sigframes) = Len(t.stack)
  BY DEF OneLibrary
<1> HIDE DEF t
<1>3. ASSUME NEW k \in DOMAIN t.stack
      PROVE  t.stack[k].magic \in BOOLEAN /\ t.stack[k].magic \in WaysBack(t)
  <2>1. t.stack[k] \in Frame
    BY <1>1, ElementOfSeq, LenProperties
  <2>2. t.stack[k].magic \in WaysBack(t)
    BY DEF WaysBack
  <2> QED BY <2>1, <2>2 DEF Frame
<1>4. ASSUME NEW s \in set
      PROVE  t.sigactions[s].magic \in BOOLEAN /\ t.sigactions[s].magic \in WaysBack(t)
  <2>1. t.sigactions[s] \in Disposition
    BY <1>1
  <2>2. t.sigactions[s].magic \in WaysBack(t)
    BY DEF WaysBack
  <2> QED BY <2>1, <2>2 DEF Disposition
<1>5. CASE TRUE \notin WaysBack(t)
  <2>1. (\A k \in DOMAIN t.stack : ~t.stack[k].magic) /\ (\A s \in set : ~t.sigactions[s].magic)
    BY <1>3, <1>4, <1>5
  <2> QED BY <2>1, <1>3 DEF t
<1>6. CASE FALSE \notin WaysBack(t) /\ Len(t.sigframes) = Len(t.stack)
  <2>1. (\A k \in DOMAIN t.stack : t.stack[k].magic) /\ (\A s \in set : t.sigactions[s].magic)
    BY <1>3, <1>4, <1>6
  <2> QED BY <2>1, <1>3, <1>6 DEF t
<1> QED BY <1>2, <1>5, <1>6

(* A new frame is recorded when it is to return through the kernel.         *)
LEMMA FramedTame ==
    ASSUME IInv, TameTasks, OneLibrary, NEW p \in Pid, NEW s \in Sigs,
           task[p].sigactions[s].handler = "user"
    PROVE  Tame(Framed(Consumed(p, s), s))
<1> DEFINE t == task[p]
           c == Consumed(p, s)
           d == t.sigactions[s]
           f == FrameOf(c, d)
           u == Framed(c, s)
           k == Append(t.stack, f)
           l == Append(t.sigframes, ~d.nomask)
<1>1. /\ t \in Task /\ Tame(t)
      /\ t.stack \in Seq(Frame) /\ t.sigframes \in Seq(BOOLEAN)
  BY DEF IInv, TableTypes, TameTasks, Task
<1>2. /\ c \in Task /\ c.stack = t.stack /\ c.sigframes = t.sigframes
      /\ c.context = t.context /\ c.sigactions = t.sigactions
  BY <1>1 DEF Consumed, Task
<1>3. c.sigactions[s] = d
  BY <1>2
<1> HIDE DEF c
<1>4. u.stack = k /\ u.sigframes = l /\ u.context = UserContext
  <2> DEFINE sa == IF d.oneshot THEN [c.sigactions EXCEPT ![s].handler = "SIG_DFL"]
                   ELSE c.sigactions
             b  == c.blocked \cup d.mask
             kk == Append(c.stack, f)
             ll == Append(c.sigframes, ~d.nomask)
             v  == [c EXCEPT !.context = UserContext, !.stack = kk, !.sigframes = ll,
                             !.blocked = b, !.sigactions = sa]
  <2>1. u = v
    BY <1>3 DEF Framed
  <2>2. kk = k /\ ll = l
    BY <1>2
  <2> HIDE DEF sa, b, kk, ll, u, k, l
  <2>3. v.stack = kk /\ v.sigframes = ll /\ v.context = UserContext
    BY <1>2 DEF Task
  <2> QED BY <2>1, <2>2, <2>3
<1>5. f.context = t.context /\ f.magic = d.magic /\ f.has_blocked = ~d.nomask
  BY <1>2 DEF FrameOf
<1>6. d.magic \in BOOLEAN /\ d.nomask \in BOOLEAN /\ f \in Frame
  <2>1. d \in Disposition
    BY <1>1 DEF Task
  <2>2. d.magic \in BOOLEAN /\ d.nomask \in BOOLEAN
    BY <2>1 DEF Disposition
  <2>3. c.context \in Context /\ c.blocked \in SUBSET Sigs
    BY <1>2 DEF Task
  <2> HIDE DEF d
  <2>4. (~d.nomask) \in BOOLEAN
    OBVIOUS
  <2> QED BY <2>2, <2>3, <2>4 DEF FrameOf, Frame
<1>7. /\ (\E i \in DOMAIN t.stack : t.stack[i].magic) => \A i \in DOMAIN t.stack : t.stack[i].magic
      /\ d.magic => (\A i \in DOMAIN t.stack : t.stack[i].magic) /\ Len(t.sigframes) = Len(t.stack)
      /\ ~d.magic => \A i \in DOMAIN t.stack : ~t.stack[i].magic
  BY OneWay
<1> HIDE DEF t, d, f, u
<1> DEFINE n == Len(t.stack)
<1>8. /\ n \in Nat /\ DOMAIN t.stack = 1 .. n /\ DOMAIN k = 1 .. n + 1 /\ Len(k) = n + 1
      /\ \A i \in 1 .. n : k[i] = t.stack[i]
      /\ k[n + 1] = f
  BY <1>1, <1>6, AppendProperties, LenProperties
<1>9. (~d.nomask) \in BOOLEAN
  OBVIOUS
<1>10. /\ Len(l) = Len(t.sigframes) + 1
       /\ \A i \in 1 .. Len(t.sigframes) : l[i] = t.sigframes[i]
       /\ l[Len(t.sigframes) + 1] = ~d.nomask
  BY <1>1, <1>9, AppendProperties
<1> HIDE DEF k, l, n
<1>11. \A i \in DOMAIN k : k[i].context.eip # "wild"
  <2>1. t.context.eip # "wild" /\ \A i \in 1 .. n : t.stack[i].context.eip # "wild"
    BY <1>1, <1>8 DEF Tame
  <2>2. ASSUME NEW i \in DOMAIN k PROVE k[i].context.eip # "wild"
    <3>1. CASE i \in 1 .. n
      BY <3>1, <2>1, <1>8
    <3>2. CASE i = n + 1
      BY <3>2, <2>1, <1>5, <1>8
    <3> QED BY <3>1, <3>2, <1>8
  <2> QED BY <2>2
<1>12. ASSUME ~d.magic PROVE Tame(u)
  <2>1. ASSUME NEW i \in DOMAIN k PROVE ~k[i].magic
    <3>1. CASE i \in 1 .. n
      BY <3>1, <1>7, <1>8, <1>12
    <3>2. CASE i = n + 1
      BY <3>2, <1>5, <1>8, <1>12
    <3> QED BY <3>1, <3>2, <1>8
  <2> QED BY <2>1, <1>4, <1>11 DEF Tame, UserContext
<1>13. ASSUME d.magic PROVE Tame(u)
  <2>1. Len(t.sigframes) = n /\ \A i \in 1 .. n : t.stack[i].magic
    BY <1>7, <1>8, <1>13 DEF n
  <2>2. \A i \in 1 .. n : t.sigframes[i] = t.stack[i].has_blocked
    BY <1>1, <1>8, <2>1 DEF Tame, Recorded
  <2>3. Len(l) = Len(k)
    BY <1>8, <1>10, <2>1
  <2>4. ASSUME NEW i \in DOMAIN k PROVE l[i] = k[i].has_blocked
    <3>1. CASE i \in 1 .. n
      BY <3>1, <1>8, <1>10, <2>1, <2>2
    <3>2. CASE i = n + 1
      BY <3>2, <1>5, <1>8, <1>10, <2>1
    <3> QED BY <3>1, <3>2, <1>8
  <2>5. Recorded(u)
    BY <1>4, <2>3, <2>4 DEF Recorded
  <2> QED BY <2>5, <1>4, <1>11 DEF Tame, UserContext
<1>14. Tame(u)
  BY <1>6, <1>12, <1>13
<1> QED BY <1>14 DEF u, c

(* _deliver_pending for one process.                                        *)
LEMMA DeliverTame ==
    ASSUME IInv, TameTasks, OneLibrary, NEW p \in Pid, Deliver(p)
    PROVE  TameTasks'
<1>1. PICK s \in Pending(p) : \/ DeliverIgnored(p, s) \/ DeliverStop(p, s)
                              \/ DeliverFatal(p, s) \/ DeliverHandler(p, s)
  BY DEF Deliver
<1>2. s \in Sigs
  BY DEF Pending, IInv, TableTypes, Task
<1>3. CASE DeliverIgnored(p, s) \/ DeliverStop(p, s)
  BY <1>2, <1>3, FieldTame
<1>4. CASE DeliverFatal(p, s)
  BY <1>4, ExitTame DEF DeliverFatal
<1>5. CASE DeliverHandler(p, s)
  <2> DEFINE u == Framed(Consumed(p, s), s)
  <2>1. Tame(u)
    BY <1>2, <1>5, FramedTame DEF DeliverHandler
  <2>2. task' = [task EXCEPT ![p] = u]
    BY <1>5 DEF DeliverHandler
  <2> HIDE DEF u
  <2> QED BY <2>1, <2>2, OneSteady
<1> QED BY <1>1, <1>3, <1>4, <1>5

(* The frame on top is popped by its own layout.                            *)
LEMMA HandlerReturnTame ==
    ASSUME IInv, TameTasks, OneLibrary, NEW p \in Pid, SigReturn(p) \/ LibcReturn(p)
    PROVE  TameTasks'
<1> DEFINE t == task[p]
           frame == Last(t.stack)
           k == Front(t.stack)
           n == Len(t.stack)
<1>1. /\ t \in Task /\ Tame(t)
      /\ t.stack \in Seq(Frame) /\ t.sigframes \in Seq(BOOLEAN) /\ t.stack # << >>
      /\ \A i \in DOMAIN t.stack : t.stack[i].magic \in BOOLEAN
  BY OneWay DEF IInv, TableTypes, TameTasks, Task, SigReturn, LibcReturn
<1>2. /\ (\E i \in DOMAIN t.stack : t.stack[i].magic) => \A i \in DOMAIN t.stack : t.stack[i].magic
  BY OneWay
<1>3. /\ n \in Nat \ {0} /\ DOMAIN t.stack = 1 .. n /\ DOMAIN k = 1 .. n - 1
      /\ \A i \in 1 .. n - 1 : k[i] = t.stack[i]
      /\ Len(k) = n - 1
  <2>1. /\ k \in Seq(Frame) /\ n \in Nat \ {0} /\ DOMAIN t.stack = 1 .. n /\ DOMAIN k = 1 .. n - 1
        /\ \A i \in 1 .. n - 1 : k[i] = t.stack[i]
    BY <1>1, FrontOfSeq
  <2> HIDE DEF k, n
  <2>2. DOMAIN k = 1 .. Len(k) /\ Len(k) \in Nat
    BY <2>1, LenProperties
  <2>3. Len(k) = n - 1
    BY <2>1, <2>2
  <2> QED BY <2>1, <2>3
<1>4. frame = t.stack[n] /\ n \in DOMAIN t.stack
  BY <1>3 DEF Last
<1>5. \A i \in 1 .. n - 1 : i \in DOMAIN t.stack
  BY <1>3
<1>6. frame.context.eip # "wild" /\ \A i \in DOMAIN k : k[i].context.eip # "wild"
  BY <1>1, <1>3, <1>4, <1>5 DEF Tame
<1>7. CASE SigReturn(p)
  <2> DEFINE pops == t.sigframes # << >> /\ Last(t.sigframes)
             c  == IF pops = frame.has_blocked THEN frame.context
                   ELSE [eip |-> "wild", eax |-> NoCall]
             sf == IF t.sigframes = << >> THEN t.sigframes ELSE Front(t.sigframes)
  <2>1. PICK m \in SUBSET Sigs :
           task' = [task EXCEPT ![p] = [t EXCEPT !.stack = k, !.sigframes = sf,
                                                 !.blocked = m, !.context = c]]
    BY <1>7 DEF SigReturn
  <2> DEFINE u == [t EXCEPT !.stack = k, !.sigframes = sf, !.blocked = m, !.context = c]
  <2>2. frame.magic
    BY <1>7 DEF SigReturn
  <2>3. Recorded(t)
    BY <1>1, <1>4, <2>2 DEF Tame
  <2>4. Len(t.sigframes) = n /\ \A i \in 1 .. n : t.sigframes[i] = t.stack[i].has_blocked
    BY <1>3, <2>3 DEF Recorded
  <2>5. t.sigframes # << >>
    BY <1>3, <2>4
  <2>6. /\ DOMAIN sf = 1 .. n - 1 /\ sf \in Seq(BOOLEAN)
        /\ \A i \in 1 .. n - 1 : sf[i] = t.sigframes[i]
    BY <1>1, <2>4, <2>5, FrontOfSeq
  <2>7. Len(sf) = n - 1
    <3> HIDE DEF sf, n
    <3>1. DOMAIN sf = 1 .. Len(sf) /\ Len(sf) \in Nat
      BY <2>6, LenProperties
    <3> QED BY <3>1, <2>6, <1>3
  <2>8. c = frame.context
    <3>1. Last(t.sigframes) = t.sigframes[n]
      BY <2>4 DEF Last
    <3>2. t.sigframes[n] = frame.has_blocked
      BY <1>3, <1>4, <2>4
    <3>3. pops = Last(t.sigframes)
      <4>1. Last(t.sigframes) \in BOOLEAN
        BY <1>1, <1>3, <2>4, <3>1, ElementOfSeq
      <4> QED BY <4>1, <2>5
    <3> QED BY <3>1, <3>2, <3>3
  <2>9. task' = [task EXCEPT ![p] = u]
    BY <2>1
  <2> HIDE DEF k, c, sf, t
  <2>10. u.context = c /\ u.stack = k /\ u.sigframes = sf
    BY <1>1 DEF Task
  <2> HIDE DEF u, n, frame
  <2>11. Recorded(u)
    BY <1>3, <2>4, <2>6, <2>7, <2>10 DEF Recorded
  <2>12. Tame(u)
    BY <1>6, <2>8, <2>10, <2>11 DEF Tame
  <2> QED BY <2>9, <2>12, OneSteady
<1>8. CASE LibcReturn(p)
  <2> DEFINE c == frame.context
             b == IF frame.has_blocked THEN frame.blocked \ {SIGKILL} ELSE t.blocked
             u == [t EXCEPT !.stack = k, !.blocked = b, !.context = c]
  <2>1. task' = [task EXCEPT ![p] = u] /\ ~frame.magic
    BY <1>8 DEF LibcReturn
  <2>2. \A i \in DOMAIN t.stack : ~t.stack[i].magic
    BY <1>2, <1>4, <2>1
  <2>3. \A i \in DOMAIN k : ~k[i].magic
    BY <1>3, <1>5, <2>2
  <2> HIDE DEF k, b, t, c
  <2>4. u.context = c /\ u.stack = k
    BY <1>1 DEF Task
  <2> HIDE DEF u
  <2>5. Tame(u)
    BY <1>6, <2>3, <2>4 DEF Tame, c
  <2> QED BY <2>1, <2>5, OneSteady
<1> QED BY <1>7, <1>8

(* Every step keeps the handlers returning.                                 *)
LEMMA NextTame ==
    ASSUME IInv, TameTasks, OneLibrary, OneLibrary', [Next]_procVars
    PROVE  TameTasks'
<1>0. ASSUME UNCHANGED task PROVE TameTasks'
  BY <1>0 DEF TameTasks
<1>1. ASSUME NEW p \in Pid, GoesOn(p) PROVE TameTasks'
  <2>1. CASE Fork(p)
    BY <2>1, ForkTame
  <2>2. CASE \E a \in WaitArgs : WaitpidReaps(p, a) \/ WaitpidReturns(p, a)
    BY <2>2, ReturnedTame DEF WaitpidReaps, WaitpidReturns
  <2>3. CASE \E a \in KillArgs, s \in Sigs : Kill(p, a, s)
    BY <2>3, KillTame DEF Kill
  <2>4. ASSUME NEW s \in Sigs, NEW d \in Dispositions,
               Sigaction(p, s, d) \/ \E h \in {"SIG_DFL", "SIG_IGN", "user"} : Signal(p, s, h, d.magic)
        PROVE  TameTasks'
    <3>1. d \in Disposition
      BY DispositionTypes
    <3>2. CASE Sigaction(p, s, d)
      BY <3>1, <3>2, FieldTame DEF Sigaction
    <3>3. ASSUME NEW h \in {"SIG_DFL", "SIG_IGN", "user"}, Signal(p, s, h, d.magic)
          PROVE  TameTasks'
      <4> DEFINE e == [handler |-> h, mask |-> {}, nomask |-> TRUE, oneshot |-> TRUE,
                       magic |-> d.magic]
      <4>1. e \in Disposition
        BY <3>1 DEF Disposition
      <4>2. SetAction(p, s, e)
        BY <3>3 DEF Signal
      <4> HIDE DEF e
      <4> QED BY <4>1, <4>2, FieldTame
    <3> QED BY <2>4, <3>2, <3>3
  <2>5. CASE \E m \in SUBSET Sigs : Ssetmask(p, m)
    BY <2>5, FieldTame
  <2>6. CASE \E on \in BOOLEAN : Alarm(p, on)
    BY <2>6, FieldTame
  <2>7. CASE Setsid(p)
    BY <2>7, FieldTame
  <2>8. CASE \E q \in Pid, g \in 0 .. MaxPid : Setpgid(p, q, g)
    BY <2>8, <1>0 DEF Setpgid
  <2>9. CASE LibcReturn(p)
    BY <2>9, HandlerReturnTame
  <2> QED BY <1>1, <2>1, <2>2, <2>3, <2>4, <2>5, <2>6, <2>7, <2>8, <2>9 DEF GoesOn
<1>2. ASSUME NEW p \in Pid, \/ EndsSlice(p) \/ Exit(p) \/ ReadReturns(p) \/ ReadBlocks(p)
      PROVE  TameTasks'
  <2>1. CASE Execve(p)
    BY <2>1, ExecveTame
  <2>2. ASSUME NEW a \in WaitArgs, WaitpidBlocks(p, a) PROVE TameTasks'
    BY <2>2, BlockTame DEF WaitpidBlocks
  <2>3. CASE Pause(p) \/ ReadBlocks(p)
    BY <2>3, BlockTame DEF Pause, ReadBlocks
  <2>4. CASE SigReturn(p)
    BY <2>4, HandlerReturnTame
  <2>5. CASE Exit(p)
    BY <2>5, ExitTame DEF Exit
  <2>6. CASE ReadReturns(p)
    BY <2>6, ReturnedTame DEF ReadReturns
  <2> QED BY <1>2, <2>1, <2>2, <2>3, <2>4, <2>5, <2>6 DEF EndsSlice
<1>3. ASSUME NEW p \in Pid, KernelStep(p) PROVE TameTasks'
  <2>1. CASE WakeParent(p) \/ WakeReader(p) \/ InitReaps(p)
    BY <2>1, <1>0 DEF WakeParent, WakeReader, Wake, InitReaps
  <2> QED BY <1>3, <2>1, AlarmFiresTame, DeliverTame DEF KernelStep
<1>4. CASE Rotate
  BY <1>4, <1>0 DEF Rotate
<1>5. ASSUME NEW ok \in BOOLEAN, NEW new_session \in BOOLEAN, Spawn(ok, new_session)
      PROVE  TameTasks'
  BY <1>5, SpawnTame
<1>6. CASE UNCHANGED procVars
  BY <1>6, <1>0 DEF procVars
<1> QED BY <1>1, <1>2, <1>3, <1>4, <1>5, <1>6 DEF Next, UserStep

(* As long as the handlers of a program all return the same way, a handler  *)
(* that returns leaves its process where the signal found it, however       *)
(* handlers nest, whichever of them carry a mask in their frames, and       *)
(* whatever interrupts them (_build_signal_frame and _sigreturn agree on    *)
(* every frame).                                                            *)
THEOREM HandlersReturn == Spec /\ []OneLibrary => []ReturnsWhereInterrupted
<1>1. Init => TameTasks
  <2>1. ASSUME Init, NEW p \in Pid PROVE Tame(task[p])
    <3>1. task[p] \in {NewTask, NoTask}
      BY <2>1 DEF Init
    <3> QED BY <3>1, StartsBare, BareTame
  <2> QED BY <2>1 DEF TameTasks
<1>2. TameTasks /\ IInv /\ OneLibrary /\ OneLibrary' /\ [Next]_procVars => TameTasks'
  BY NextTame
<1>3. TameTasks => ReturnsWhereInterrupted
  BY DEF TameTasks, Tame, ReturnsWhereInterrupted
<1>4. Spec => []IInv
  BY InvariantHolds
<1>5. Spec /\ []OneLibrary => []TameTasks
  BY <1>1, <1>2, <1>4, PTL DEF Spec
<1> QED BY <1>3, <1>5, PTL

-----------------------------------------------------------------------------
(* The loop.                                                                *)
(*                                                                         *)
(* It does to the process table only what Processes allows, so that         *)
(* everything proved above holds under the loop, and run returns only for   *)
(* one of its three reasons.  A step of the loop acts on the table through  *)
(* one action of Processes, on a process of the table or on the current     *)
(* one, or not at all.  That an exit ends run only when it is that of       *)
(* process 1 rests on the parents (ParentsCanReap): nobody else is without  *)
(* one.                                                                     *)

LoopInv ==
    /\ IInv
    /\ current \in Pid
    /\ HaltJustified

-----------------------------------------------------------------------------

(* Boot establishes the invariant.                                          *)
LEMMA SchedInitLoopInv == SchedInit => Init /\ LoopInv
<1> SUFFICES ASSUME SchedInit PROVE Init /\ LoopInv
  OBVIOUS
<1>1. Init /\ phase # "halted" /\ current = 1
  BY DEF SchedInit
<1>2. 1 \in Pid
  BY ProcessesAssumption DEF Pid
<1> QED BY <1>1, <1>2, InitEstablishes DEF LoopInv, HaltJustified

(* A step of the loop is a step of Processes or leaves the table alone.     *)
LEMMA LoopStep ==
    ASSUME LoopInv, [SchedNext]_vars
    PROVE  [Next]_procVars
<1>1. CASE UNCHANGED vars
  BY <1>1 DEF vars
<1>2. CASE \/ Pump \/ AlarmsDone \/ WakeDone \/ DeliverDone \/ PickNone \/ SliceExpires \/ Halted
  BY <1>2 DEF Pump, AlarmsDone, WakeDone, DeliverDone, NextPhase, PickNone, SliceExpires,
              Halted, vars
<1>3. ASSUME NEW p \in Pid, WakeTurn(p) \/ DeliverTurn(p) \/ AlarmTurn(p)
      PROVE  Next
  BY <1>3 DEF WakeTurn, DeliverTurn, AlarmTurn, Next, KernelStep
<1>4. CASE InitStep
  <2>1. CASE InitSpawns
    <3>1. PICK ok \in SpawnOutcomes : Spawn(ok, init_state = "shell")
      BY <2>1 DEF InitSpawns
    <3>2. ok \in BOOLEAN /\ (init_state = "shell") \in BOOLEAN
      BY SchedulerAssumption
    <3> QED BY <3>1, <3>2 DEF Next
  <2>2. CASE InitWaits
    <3>1. UNCHANGED procVars \/ InitReaps(init_child)
      BY <2>2 DEF InitWaits
    <3>2. InitReaps(init_child) => init_child \in Pid
      BY DEF InitReaps, Procs
    <3> QED BY <3>1, <3>2 DEF Next, KernelStep
  <2>3. CASE InitIdle
    BY <2>3 DEF InitIdle
  <2> QED BY <1>4, <2>1, <2>2, <2>3 DEF InitStep
<1>5. CASE PickTurn
  BY <1>5 DEF PickTurn, Next
<1>6. CASE UserTurn
  <2>1. current \in Pid
    BY DEF LoopInv
  <2>2. UserStep(current)
    BY <1>6 DEF UserTurn, SliceGoesOn, SliceReads, SliceBreaks, SliceExits, UserStep
  <2> QED BY <2>1, <2>2 DEF Next
<1> QED BY <1>1, <1>2, <1>3, <1>4, <1>5, <1>6 DEF SchedNext, KernelTurn

(* A live process without a parent is process 1.                            *)
LEMMA OnlyFirstHasNoParent ==
    ASSUME IInv, NEW p \in Pid, state[p] # "none", ppid[p] = 0
    PROVE  p = 1
BY ProcessesAssumption DEF IInv, ParentsCanReap, Procs, Pid

(* The head of the queue is a process.                                      *)
LEMMA PickedIsPid ==
    ASSUME LoopInv, PickTurn
    PROVE  current' \in Pid
<1>1. runq \in Seq(Pid) /\ runq # <<>>
  BY DEF LoopInv, IInv, QueueOf, PickTurn, Rotate
<1>2. Head(runq) \in Pid
  BY <1>1
<1> QED BY <1>2 DEF PickTurn, LoopInv

(* run returns for one of its reasons, and the reason stays.                *)
LEMMA HaltStep ==
    ASSUME LoopInv, SchedNext
    PROVE  HaltJustified'
<1> SUFFICES ASSUME phase' = "halted"
             PROVE  \/ Alive' = {} /\ init_state' = "done"
                    \/ state'[1] = "ZOMBIE"
                    \/ idle' > IdleMax
  BY DEF HaltJustified
<1>1. CASE Halted
  <2>1. /\ UNCHANGED <<next_pid, state, ppid, pgrp, wait_channel, runq, task>>
        /\ UNCHANGED <<phase, init_state, idle>> /\ phase = "halted"
    BY <1>1 DEF Halted, vars, procVars, schedVars
  <2>2. Alive' = Alive
    BY <2>1 DEF Alive, Procs, KernelTask
  <2> QED BY <2>1, <2>2 DEF LoopInv, HaltJustified
<1>2. CASE PickNone
  <2>1. CASE Alive = {} /\ init_state = "done"
    <3>1. UNCHANGED <<next_pid, state, ppid, pgrp, wait_channel, runq, task>> /\ init_state' = init_state
      BY <1>2 DEF PickNone, procVars
    <3> QED BY <2>1, <3>1 DEF Alive, Procs, KernelTask
  <2>2. CASE ~(Alive = {} /\ init_state = "done")
    <3>1. phase' = (IF idle + 1 > IdleMax THEN "halted" ELSE "pump") /\ idle' = idle + 1
      BY <1>2, <2>2 DEF PickNone, Goto
    <3>2. idle + 1 > IdleMax
      BY <3>1
    <3> QED BY <3>1, <3>2
  <2> QED BY <2>1, <2>2
<1>3. CASE SliceExits
  <2>1. /\ Exit(current) /\ ppid[current] = 0 /\ current \in Pid
    BY <1>3 DEF SliceExits, Goto, LoopInv
  <2>2. state[current] # "none"
    BY <2>1 DEF Exit, CanRun
  <2>3. current = 1
    BY <2>1, <2>2, OnlyFirstHasNoParent DEF LoopInv
  <2>4. state'[current] = "ZOMBIE"
    BY <2>1 DEF Exit, ExitProcess
  <2> QED BY <2>3, <2>4
<1>4. ASSUME NEW p \in Pid, AlarmTurn(p) \/ WakeTurn(p) \/ DeliverTurn(p)
      PROVE  FALSE
  BY <1>4 DEF AlarmTurn, WakeTurn, DeliverTurn
<1>5. CASE \/ Pump \/ AlarmsDone \/ WakeDone \/ DeliverDone \/ InitStep \/ PickTurn
           \/ SliceExpires \/ SliceGoesOn \/ SliceReads \/ SliceBreaks
  BY <1>5 DEF Pump, AlarmsDone, WakeDone, DeliverDone, NextPhase, InitStep, PickTurn, SliceExpires,
              SliceGoesOn, SliceReads, SliceBreaks, InSlice, Goto
<1> QED BY <1>1, <1>2, <1>3, <1>4, <1>5 DEF SchedNext, KernelTurn, UserTurn

(* Every step of the loop keeps the invariant.                              *)
LEMMA LoopStepLoopInv == LoopInv /\ [SchedNext]_vars => LoopInv'
<1> SUFFICES ASSUME LoopInv, [SchedNext]_vars PROVE LoopInv'
  OBVIOUS
<1>1. IInv'
  BY LoopStep, NextPreserves DEF LoopInv
<1>2. current' \in Pid
  <2>1. ASSUME current' = current PROVE current' \in Pid
    BY <2>1 DEF LoopInv
  <2>2. ASSUME NEW p \in Pid, AlarmTurn(p) \/ WakeTurn(p) \/ DeliverTurn(p)
        PROVE  current' = current
    BY <2>2 DEF AlarmTurn, WakeTurn, DeliverTurn
  <2>3. CASE \/ Pump \/ AlarmsDone \/ WakeDone \/ DeliverDone \/ InitStep \/ PickNone
             \/ SliceExpires \/ SliceGoesOn \/ SliceReads \/ SliceBreaks \/ SliceExits
    BY <2>1, <2>3 DEF Pump, AlarmsDone, WakeDone, DeliverDone, NextPhase, InitStep, PickNone,
                SliceExpires, SliceGoesOn, SliceReads, SliceBreaks, SliceExits, InSlice
  <2>4. CASE Halted \/ UNCHANGED vars
    BY <2>1, <2>4 DEF Halted, vars, schedVars
  <2> QED BY <2>1, <2>2, <2>3, <2>4, PickedIsPid DEF SchedNext, KernelTurn, UserTurn
<1>3. HaltJustified'
  <2>1. CASE UNCHANGED vars
    <3>1. UNCHANGED <<next_pid, state, ppid, pgrp, wait_channel, runq, task, phase, init_state, idle>>
      BY <2>1 DEF vars, procVars, schedVars
    <3> QED BY <3>1 DEF LoopInv, HaltJustified, Alive, Procs, KernelTask
  <2> QED BY <2>1, HaltStep
<1> QED BY <1>1, <1>2, <1>3 DEF LoopInv

(* The invariant holds in every state of the loop.                          *)
THEOREM LoopInvariantHolds == SchedSpec => []LoopInv
BY SchedInitLoopInv, LoopStepLoopInv, PTL DEF SchedSpec

-----------------------------------------------------------------------------

(* run returns only when nothing is left to run, when the first process has *)
(* exited, or after too many idle rounds.                                   *)
THEOREM HaltIsJustified == SchedSpec => []HaltJustified
BY LoopInvariantHolds, PTL DEF LoopInv

(* The loop does to the process table only what Processes allows.           *)
THEOREM LoopImplementsProcesses == SchedSpec => ImplementsProcesses
<1>1. LoopInv /\ [SchedNext]_vars => [Next]_procVars
  BY LoopStep
<1> QED BY <1>1, SchedInitLoopInv, LoopInvariantHolds, PTL DEF SchedSpec, ImplementsProcesses, Spec

(* So everything proved of Processes holds under the loop.                  *)
THEOREM LoopKeepsTable ==
    SchedSpec => /\ [](TypeOK /\ RunqExact /\ SleepersRewound /\ CallsAreRedone /\ ParentsCanReap)
                 /\ DeadStayDead
                 /\ ReapedByParent
BY LoopImplementsProcesses, TypeCorrect, QueueIsExact, SleepersAreRewound, CallsAreOnlyRedone,
   ParentsAlwaysCanReap, DeadAlwaysStayDead, OnlyParentsReap, PTL DEF ImplementsProcesses
================================================================================
