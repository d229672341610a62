---------------------- MODULE OperatorStatusQueueProofs ----------------------
(***************************************************************************)
(* Theorems about OperatorStatusQueue, for any number of operators,        *)
(* attempts and restarts.                                                  *)
(*                                                                         *)
(* The callbacks are built from Push, Iterate, RunLoop and Stopped, which  *)
(* map a state of the queue object to another.  The lemmas say what each   *)
(* of the four keeps (Tidy), that it leaves no job without a loop (Awake), *)
(* and which jobs the object knows of afterwards (Known).                  *)
(***************************************************************************)
EXTENDS OperatorStatusQueue, TLAPS

Items(q) == {q[n] : n \in DOMAIN q}

OnceEach(q) == \A m, n \in DOMAIN q : q[m].operator = q[n].operator => m = n

InLoop(m) == {m.current : x \in {m.loop} \cap {"handling"}}

Known(m) == Items(m.queue) \cup m.timers \cup InLoop(m)

\* The queue and the timers of m name an operator once.
Distinct(m) ==
  /\ OnceEach(m.queue)
  /\ \A s, t \in m.timers : s.operator = t.operator => s = t
  /\ \A s \in Items(m.queue), t \in m.timers : s.operator # t.operator

\* So does m with the job its loop handles, and isRunning tells if it has a loop.
Tidy(m) ==
  /\ m \in Memories
  /\ Distinct(m)
  /\ \A s \in InLoop(m), t \in Items(m.queue) \cup m.timers : s.operator # t.operator
  /\ InLoop(m) \subseteq Jobs
  /\ m.isRunning <=> m.loop # "stopped"

Awake(m) == m.queue # <<>> => m.loop # "stopped"

Histories ==
  /\ outcome \in [Operators -> {"new", "pending", "done", "dropped", "lost"}]
  /\ failed \in [Operators -> 0 .. MaxAttempts]
  /\ restarts \in 0 .. MaxRestarts

\* The inductive invariant: the histories agree with what the queue knows of.
QueueInv ==
  /\ Tidy(memory) /\ Awake(memory)
  /\ Histories
  /\ \A o \in Operators :
       /\ outcome[o] = "pending" <=> IsOf(o, Known(memory))
       /\ outcome[o] = "new" => failed[o] = 0
  /\ \A job \in Known(memory) : job.attempts = failed[job.operator]

-----------------------------------------------------------------------------
\* What the invariant says of memory is what the properties say of it.
LEMMA KnownIsPending ==
  /\ Known(memory) = Pending
  /\ Items(memory.queue) = Waiting
  /\ InLoop(memory) = Handled
  BY DEF Known, Pending, Items, Waiting, InLoop, Handled

\* A queue gains the job that is appended.
LEMMA AppendItems ==
  ASSUME NEW q \in Seq(Jobs), NEW job \in Jobs
  PROVE  /\ Append(q, job) \in Seq(Jobs)
         /\ Items(Append(q, job)) = Items(q) \cup {job}
         /\ OnceEach(q) /\ (\A s \in Items(q) : s.operator # job.operator)
              => OnceEach(Append(q, job))
<1> DEFINE r == Append(q, job)
<1>1. /\ r \in Seq(Jobs) /\ Len(r) = Len(q) + 1 /\ Len(q) \in Nat
      /\ DOMAIN q = 1 .. Len(q) /\ DOMAIN r = 1 .. Len(r)
  OBVIOUS
<1>2. r[Len(q) + 1] = job /\ \A n \in 1 .. Len(q) : r[n] = q[n]
  OBVIOUS
<1> HIDE DEF r
<1>3. Items(r) = Items(q) \cup {job}
  <2>1. \A n \in DOMAIN r : r[n] = job \/ (n \in DOMAIN q /\ r[n] = q[n])
    BY <1>1, <1>2
  <2>2. \A n \in DOMAIN q : n \in DOMAIN r /\ r[n] = q[n]
    BY <1>1, <1>2
  <2>3. Len(q) + 1 \in DOMAIN r /\ r[Len(q) + 1] = job
    BY <1>1, <1>2
  <2> QED
    BY <2>1, <2>2, <2>3, Zenon DEF Items
<1>4. ASSUME OnceEach(q), \A s \in Items(q) : s.operator # job.operator
      PROVE  OnceEach(r)
  <2>1. \A n \in 1 .. Len(q) : q[n].operator # job.operator
    BY <1>1, <1>4 DEF Items
  <2> QED
    BY <1>1, <1>2, <1>4, <2>1 DEF OnceEach
<1> QED
  BY <1>1, <1>3, <1>4 DEF r

\* A queue loses the job that is shifted, and no other of its operator is left.
LEMMA TailItems ==
  ASSUME NEW q \in Seq(Jobs), q # <<>>
  PROVE  /\ Tail(q) \in Seq(Jobs) /\ Head(q) \in Jobs
         /\ Items(q) = Items(Tail(q)) \cup {Head(q)}
         /\ OnceEach(q) => /\ OnceEach(Tail(q))
                           /\ \A s \in Items(Tail(q)) : s.operator # Head(q).operator
<1> DEFINE r == Tail(q)
<1>1. /\ r \in Seq(Jobs) /\ Len(q) \in Nat \ {0} /\ Len(r) = Len(q) - 1
      /\ DOMAIN q = 1 .. Len(q) /\ DOMAIN r = 1 .. Len(r)
      /\ Head(q) = q[1] /\ Head(q) \in Jobs
  OBVIOUS
<1>2. \A n \in 1 .. Len(r) : r[n] = q[n + 1]
  OBVIOUS
<1> HIDE DEF r
<1>3. Items(q) = Items(r) \cup {q[1]}
  <2>1. \A n \in DOMAIN q : n = 1 \/ \E k \in DOMAIN r : r[k] = q[n]
    <3> SUFFICES ASSUME NEW n \in DOMAIN q, n # 1
                 PROVE  n - 1 \in DOMAIN r /\ r[n - 1] = q[n]
      OBVIOUS
    <3> QED
      BY <1>1, <1>2
  <2>2. \A n \in DOMAIN r : \E k \in DOMAIN q : q[k] = r[n]
    <3> SUFFICES ASSUME NEW n \in DOMAIN r
                 PROVE  n + 1 \in DOMAIN q /\ r[n] = q[n + 1]
      OBVIOUS
    <3> QED
      BY <1>1, <1>2
  <2>3. \A s \in Items(q) : s \in Items(r) \/ s = q[1]
    BY <2>1, Zenon DEF Items
  <2>4. \A s \in Items(r) : s \in Items(q)
    BY <2>2, Zenon DEF Items
  <2>5. q[1] \in Items(q)
    BY <1>1 DEF Items
  <2> QED
    BY <2>3, <2>4, <2>5
<1>4. ASSUME OnceEach(q)
      PROVE  OnceEach(r)
  <2> SUFFICES ASSUME NEW m \in DOMAIN r, NEW n \in DOMAIN r, r[m].operator = r[n].operator
               PROVE  m = n
    BY DEF OnceEach
  <2>1. m \in Nat /\ n \in Nat /\ m + 1 \in DOMAIN q /\ n + 1 \in DOMAIN q
    BY <1>1
  <2>2. r[m] = q[m + 1] /\ r[n] = q[n + 1]
    BY <1>1, <1>2
  <2> QED
    BY <1>4, <2>1, <2>2 DEF OnceEach
<1>5. ASSUME OnceEach(q), NEW s \in Items(r)
      PROVE  s.operator # q[1].operator
  <2>1. PICK n \in DOMAIN r : s = r[n]
    BY DEF Items
  <2>2. n \in Nat \ {0} /\ 1 \in DOMAIN q /\ n + 1 \in DOMAIN q /\ s = q[n + 1]
    BY <1>1, <1>2, <2>1
  <2> QED
    BY <1>5, <2>2 DEF OnceEach
<1> QED
  BY <1>1, <1>3, <1>4, <1>5 DEF r

-----------------------------------------------------------------------------
\* Push adds a job of an operator the object knows nothing of.
LEMMA PushKeepsTidy ==
  ASSUME NEW m, Tidy(m), NEW job \in Jobs, \A s \in Known(m) : s.operator # job.operator
  PROVE  Tidy(Push(m, job)) /\ Known(Push(m, job)) = Known(m) \cup {job}
<1> DEFINE q == Append(m.queue, job)
<1>1. /\ m.queue \in Seq(Jobs) /\ m.timers \in SUBSET Jobs
      /\ Push(m, job) \in Memories
      /\ Push(m, job) = [m EXCEPT !.queue = q]
  BY AppendItems DEF Tidy, Memories, Push
<1>2. /\ Push(m, job).queue = q
      /\ Push(m, job).timers = m.timers
      /\ Push(m, job).loop = m.loop
      /\ Push(m, job).current = m.current
      /\ Push(m, job).isRunning = m.isRunning
  BY <1>1 DEF Tidy, Memories
<1>3. /\ Items(q) = Items(m.queue) \cup {job}
      /\ OnceEach(q)
  BY <1>1, AppendItems DEF Tidy, Distinct, Known
<1> HIDE DEF q
<1>4. InLoop(Push(m, job)) = InLoop(m)
  BY <1>2 DEF InLoop
<1>5. Known(Push(m, job)) = Known(m) \cup {job}
  BY <1>2, <1>3, <1>4, Zenon DEF Known
<1>6. Tidy(Push(m, job))
  BY <1>1, <1>2, <1>3, <1>4 DEF Tidy, Distinct, Known
<1> QED
  BY <1>5, <1>6

\* The loop condition forgets the job that is over and takes the next one.
LEMMA IterateIsTidy ==
  ASSUME NEW m \in Memories, Distinct(m), m.isRunning = TRUE
  PROVE  /\ Tidy(Iterate(m)) /\ Awake(Iterate(m))
         /\ Known(Iterate(m)) = Items(m.queue) \cup m.timers
<1> DEFINE r == Iterate(m)
<1>0. m.queue \in Seq(Jobs) /\ m.timers \in SUBSET Jobs
  BY DEF Memories
<1>1. CASE m.queue = <<>>
  <2>1. /\ r \in Memories /\ r.queue = m.queue /\ r.timers = m.timers
        /\ r.loop = "ended" /\ r.isRunning = TRUE
    BY <1>1 DEF Iterate, Memories
  <2>2. InLoop(r) = {}
    BY <2>1 DEF InLoop
  <2> HIDE DEF r
  <2>3. Distinct(r)
    BY <2>1, Zenon DEF Distinct
  <2>4. Tidy(r) /\ Awake(r) /\ Known(r) = Items(m.queue) \cup m.timers
    BY <2>1, <2>2, <2>3 DEF Tidy, Awake, Known
  <2> QED
    BY <2>4 DEF r
<1>2. CASE m.queue # <<>>
  <2> DEFINE h == Head(m.queue)  q == Tail(m.queue)
  <2>1. /\ q \in Seq(Jobs) /\ h \in Jobs
        /\ Items(m.queue) = Items(q) \cup {h}
        /\ OnceEach(q) /\ \A s \in Items(q) : s.operator # h.operator
    BY <1>0, <1>2, TailItems DEF Distinct
  <2>2. r = [m EXCEPT !.loop = "handling", !.current = h, !.queue = q]
    BY <1>2 DEF Iterate
  <2> HIDE DEF h, q, r
  <2>3. /\ r \in Memories /\ r.queue = q /\ r.timers = m.timers
        /\ r.loop = "handling" /\ r.current = h /\ r.isRunning = TRUE
    BY <2>1, <2>2 DEF Memories
  <2>4. InLoop(r) = {h}
    BY <2>3 DEF InLoop
  <2>5. Distinct(r)
    BY <2>1, <2>3, Zenon DEF Distinct
  <2>6. \A s \in {h}, t \in Items(q) \cup m.timers : s.operator # t.operator
    BY <2>1 DEF Distinct
  <2>7. Tidy(r) /\ Awake(r)
    BY <2>1, <2>3, <2>4, <2>5, <2>6 DEF Tidy, Awake
  <2>8. Known(r) = Items(m.queue) \cup m.timers
    BY <2>1, <2>3, <2>4, Zenon DEF Known
  <2> QED
    BY <2>7, <2>8 DEF r
<1> QED
  BY <1>1, <1>2

\* runLoop() leaves a loop running, its own or the one it found.
LEMMA RunLoopIsTidy ==
  ASSUME NEW m, Tidy(m)
  PROVE  Tidy(RunLoop(m)) /\ Awake(RunLoop(m)) /\ Known(RunLoop(m)) = Known(m)
<1>1. CASE m.isRunning
  BY <1>1 DEF RunLoop, Tidy, Awake
<1>2. CASE ~m.isRunning
  <2> DEFINE s == [m EXCEPT !.isRunning = TRUE]
  <2>1. /\ s \in Memories /\ s.isRunning = TRUE
        /\ s.queue = m.queue /\ s.timers = m.timers
    BY DEF Tidy, Memories
  <2>2. RunLoop(m) = Iterate(s)
    BY <1>2 DEF RunLoop
  <2> HIDE DEF s
  <2>3. Distinct(s)
    BY <2>1, Zenon DEF Tidy, Distinct
  <2>4. InLoop(m) = {}
    BY <1>2 DEF Tidy, InLoop
  <2>5. Known(m) = Items(s.queue) \cup s.timers
    BY <2>1, <2>4 DEF Known
  <2> QED
    BY <2>1, <2>2, <2>3, <2>5, IterateIsTidy
<1> QED
  BY <1>1, <1>2

\* The finally callback leaves no loop only when the queue is empty.
LEMMA StoppedIsTidy ==
  ASSUME NEW m, Tidy(m), m.loop = "ended"
  PROVE  Tidy(Stopped(m)) /\ Awake(Stopped(m)) /\ Known(Stopped(m)) = Known(m)
<1> DEFINE s == [m EXCEPT !.isRunning = FALSE, !.loop = "stopped"]
<1>1. /\ s \in Memories /\ s.isRunning = FALSE /\ s.loop = "stopped"
      /\ s.queue = m.queue /\ s.timers = m.timers
  BY DEF Tidy, Memories
<1>2. Stopped(m) = IF m.queue = <<>> THEN s ELSE RunLoop(s)
  BY DEF Stopped
<1> HIDE DEF s
<1>3. InLoop(s) = {} /\ InLoop(m) = {}
  BY <1>1 DEF InLoop
<1>4. Distinct(s)
  BY <1>1, Zenon DEF Tidy, Distinct
<1>5. Tidy(s) /\ Known(s) = Known(m)
  BY <1>1, <1>3, <1>4 DEF Tidy, Known
<1> QED
  BY <1>1, <1>2, <1>5, RunLoopIsTidy DEF Awake

-----------------------------------------------------------------------------
\* A process that has just started knows of no job.
LEMMA BootedIsEmpty ==
  Tidy(Booted) /\ Awake(Booted) /\ Known(Booted) = {}
<1>1. /\ Booted.queue = <<>> /\ Booted.timers = {}
      /\ Booted.loop = "ended" /\ Booted.isRunning = TRUE
  BY DEF Booted
<1>2. Booted \in Memories
  BY DEF Booted, Memories
<1>3. Items(Booted.queue) = {} /\ InLoop(Booted) = {}
  BY <1>1 DEF Items, InLoop
<1> QED
  BY <1>1, <1>2, <1>3 DEF Known, Tidy, Awake, Distinct, OnceEach

LEMMA InitQueueInv ==
  ASSUME Init
  PROVE  QueueInv
<1>1. Histories
  BY MaxAttemptsIsPositive, MaxRestartsIsNat DEF Init, Histories
<1> QED
  BY <1>1, BootedIsEmpty DEF Init, QueueInv, IsOf

\* enqueue(): the queue knows nothing of an operator who is new.
LEMMA EnqueueKeepsInv ==
  ASSUME QueueInv, NEW o \in Operators, Enqueue(o)
  PROVE  QueueInv'
<1> DEFINE job == [operator |-> o, attempts |-> 0]
<1>1. job \in Jobs /\ job.operator = o /\ job.attempts = 0
  BY MaxAttemptsIsPositive DEF Jobs
<1>2. memory' = RunLoop(Push(memory, job))
  BY DEF Enqueue
<1> HIDE DEF job
<1>3. outcome[o] = "new" /\ failed[o] = 0 /\ ~IsOf(o, Known(memory))
  BY DEF Enqueue, QueueInv
<1>4. \A s \in Known(memory) : s.operator # job.operator
  BY <1>1, <1>3 DEF IsOf
<1>5. Tidy(memory') /\ Awake(memory') /\ Known(memory') = Known(memory) \cup {job}
  BY <1>1, <1>2, <1>4, PushKeepsTidy, RunLoopIsTidy DEF QueueInv
<1>6. UNCHANGED <<failed, restarts>> /\ outcome' = [outcome EXCEPT ![o] = "pending"]
  BY DEF Enqueue
<1>7. Histories'
  BY <1>6 DEF QueueInv, Histories
<1>8. ASSUME NEW p \in Operators
      PROVE  /\ outcome'[p] = "pending" <=> IsOf(p, Known(memory'))
             /\ outcome'[p] = "new" => failed'[p] = 0
  BY <1>1, <1>5, <1>6 DEF QueueInv, Histories, IsOf
<1>9. \A s \in Known(memory') : s.attempts = failed'[s.operator]
  BY <1>1, <1>3, <1>5, <1>6 DEF QueueInv
<1> QED
  BY <1>5, <1>7, <1>8, <1>9 DEF QueueInv

\* The loop handles a job that is nowhere else.
LEMMA HandledJob ==
  ASSUME QueueInv, memory.loop = "handling"
  PROVE  LET job == memory.current IN
         /\ job \in Jobs /\ job \in Known(memory)
         /\ memory \in Memories /\ memory.isRunning = TRUE /\ Distinct(memory)
         /\ \A s \in Items(memory.queue) \cup memory.timers : s.operator # job.operator
         /\ Known(memory) = Items(memory.queue) \cup memory.timers \cup {job}
         /\ job.attempts = failed[job.operator]
<1>1. InLoop(memory) = {memory.current}
  BY DEF InLoop
<1>2. memory.isRunning = TRUE
  BY DEF QueueInv, Tidy, Memories
<1> QED
  BY <1>1, <1>2 DEF QueueInv, Tidy, Known

\* The loop goes on after its job; next is the retry, if there is one.
LEMMA JobIsOver ==
  ASSUME QueueInv, memory.loop = "handling",
         NEW next \in SUBSET {j \in Jobs : j.operator = memory.current.operator},
         \A s, t \in next : s = t,
         memory' = Iterate([memory EXCEPT !.timers = @ \cup next])
  PROVE  /\ Tidy(memory') /\ Awake(memory')
         /\ Known(memory') = Items(memory.queue) \cup memory.timers \cup next
<1> DEFINE m == [memory EXCEPT !.timers = @ \cup next]
<1>1. /\ m \in Memories /\ m.isRunning = TRUE
      /\ m.queue = memory.queue /\ m.timers = memory.timers \cup next
  BY HandledJob DEF Memories
<1>2. memory' = Iterate(m)
  OBVIOUS
<1> HIDE DEF m
<1>3. Distinct(m)
  BY <1>1, HandledJob DEF Distinct
<1> QED
  BY <1>1, <1>2, <1>3, IterateIsTidy

LEMMA JobDoneKeepsInv ==
  ASSUME QueueInv, JobDone
  PROVE  QueueInv'
<1> DEFINE o == memory.current.operator
<1>1. memory.loop = "handling" /\ memory' = Iterate(memory)
  BY DEF JobDone
<1>2. /\ o \in Operators /\ IsOf(o, Known(memory))
      /\ \A s \in Items(memory.queue) \cup memory.timers : s.operator # o
      /\ Known(memory) = Items(memory.queue) \cup memory.timers \cup {memory.current}
  BY <1>1, HandledJob DEF Jobs, IsOf
<1>3. /\ Tidy(memory') /\ Awake(memory')
      /\ Known(memory') = Items(memory.queue) \cup memory.timers
  BY <1>1, HandledJob, IterateIsTidy
<1>4. UNCHANGED <<failed, restarts>> /\ outcome' = [outcome EXCEPT ![o] = "done"]
  BY DEF JobDone
<1> HIDE DEF o
<1>5. Histories'
  BY <1>4 DEF QueueInv, Histories
<1>6. ASSUME NEW p \in Operators
      PROVE  /\ outcome'[p] = "pending" <=> IsOf(p, Known(memory'))
             /\ outcome'[p] = "new" => failed'[p] = 0
  <2>1. outcome'[p] = IF p = o THEN "done" ELSE outcome[p]
    BY <1>4 DEF QueueInv, Histories
  <2>2. p # o => (IsOf(p, Known(memory')) <=> IsOf(p, Known(memory)))
    BY <1>2, <1>3 DEF IsOf, o
  <2>3. ~IsOf(o, Known(memory'))
    BY <1>2, <1>3 DEF IsOf
  <2> QED
    BY <1>4, <2>1, <2>2, <2>3 DEF QueueInv
<1>7. \A s \in Known(memory') : s.attempts = failed'[s.operator]
  BY <1>2, <1>3, <1>4 DEF QueueInv
<1> QED
  BY <1>3, <1>5, <1>6, <1>7 DEF QueueInv

\* A job that failed too often is given up, any other waits for its timer.
LEMMA JobFailedCases ==
  ASSUME QueueInv, JobFailed
  PROVE  LET job == memory.current IN
         \/ /\ failed[job.operator] + 1 < MaxAttempts
            /\ memory' = Iterate([memory EXCEPT !.timers =
                                    @ \cup {[job EXCEPT !.attempts = @ + 1]}])
            /\ outcome' = outcome
         \/ /\ failed[job.operator] + 1 = MaxAttempts
            /\ memory' = Iterate([memory EXCEPT !.timers = @ \cup {}])
            /\ outcome' = [outcome EXCEPT ![job.operator] = "dropped"]
<1> DEFINE job == memory.current
<1>1. memory.loop = "handling"
  BY DEF JobFailed
<1>2. job \in Jobs /\ job.attempts = failed[job.operator] /\ memory \in Memories
  BY <1>1, HandledJob
<1>3. job.attempts \in 0 .. MaxAttempts - 1
  BY <1>2 DEF Jobs
<1>4. [memory EXCEPT !.timers = @ \cup {}] = memory
  BY <1>2 DEF Memories
<1>5. CASE RetryLater(job)
  BY <1>2, <1>5 DEF RetryLater
<1>6. CASE Drop(job)
  BY <1>2, <1>3, <1>4, <1>6, MaxAttemptsIsPositive DEF Drop
<1> QED
  BY <1>5, <1>6 DEF JobFailed

LEMMA JobFailedKeepsInv ==
  ASSUME QueueInv, JobFailed
  PROVE  QueueInv'
<1> DEFINE job == memory.current  o == job.operator  again == [job EXCEPT !.attempts = @ + 1]
<1>1. memory.loop = "handling" /\ UNCHANGED restarts /\ failed' = [failed EXCEPT ![o] = @ + 1]
  BY DEF JobFailed
<1>2. /\ job \in Jobs /\ o \in Operators /\ IsOf(o, Known(memory))
      /\ \A s \in Items(memory.queue) \cup memory.timers : s.operator # o
      /\ Known(memory) = Items(memory.queue) \cup memory.timers \cup {job}
      /\ job.attempts = failed[o]
  BY <1>1, HandledJob DEF Jobs, IsOf
<1>3. /\ failed \in [Operators -> 0 .. MaxAttempts]
      /\ outcome \in [Operators -> {"new", "pending", "done", "dropped", "lost"}]
      /\ outcome[o] = "pending"
  BY <1>2 DEF QueueInv, Histories
<1>4. \A s \in Items(memory.queue) \cup memory.timers : s.attempts = failed'[s.operator]
  BY <1>1, <1>2, <1>3 DEF QueueInv
<1>5. CASE /\ failed[o] + 1 < MaxAttempts
           /\ memory' = Iterate([memory EXCEPT !.timers = @ \cup {again}])
           /\ outcome' = outcome
  <2>1. again \in Jobs /\ again.operator = o /\ again.attempts = failed[o] + 1
    BY <1>2, <1>3, <1>5, MaxAttemptsIsPositive DEF Jobs
  <2>2. failed'[o] = failed[o] + 1 /\ failed' \in [Operators -> 0 .. MaxAttempts]
    BY <1>1, <1>2, <1>3, <1>5, MaxAttemptsIsPositive
  <2> DEFINE next == {again}
  <2>3. memory' = Iterate([memory EXCEPT !.timers = @ \cup next])
    BY <1>5
  <2>4. next \in SUBSET {j \in Jobs : j.operator = memory.current.operator}
    BY <2>1
  <2>5. \A s, t \in next : s = t
    OBVIOUS
  <2> HIDE DEF again, next
  <2>6. /\ Tidy(memory') /\ Awake(memory')
        /\ Known(memory') = Items(memory.queue) \cup memory.timers \cup next
    BY <1>1, <2>3, <2>4, <2>5, JobIsOver
  <2> HIDE DEF o, job
  <2>7. Known(memory') = Items(memory.queue) \cup memory.timers \cup {again}
    BY <2>6 DEF next
  <2>8. \A p \in Operators : IsOf(p, Known(memory')) <=> IsOf(p, Known(memory))
    BY <1>2, <2>1, <2>7 DEF IsOf, o
  <2>9. \A p \in Operators : outcome'[p] = "new" => p # o /\ failed'[p] = failed[p]
    BY <1>1, <1>3, <1>5
  <2>10. \A s \in Known(memory') : s.attempts = failed'[s.operator]
    BY <1>4, <2>1, <2>2, <2>7
  <2> QED
    BY <1>1, <1>3, <1>5, <2>2, <2>6, <2>8, <2>9, <2>10 DEF QueueInv, Histories
<1>6. CASE /\ failed[o] + 1 = MaxAttempts
           /\ memory' = Iterate([memory EXCEPT !.timers = @ \cup {}])
           /\ outcome' = [outcome EXCEPT ![o] = "dropped"]
  <2>1. failed' \in [Operators -> 0 .. MaxAttempts]
    BY <1>1, <1>2, <1>3, <1>6, MaxAttemptsIsPositive
  <2> DEFINE next == {}
  <2>9. memory' = Iterate([memory EXCEPT !.timers = @ \cup next])
    BY <1>6
  <2>10. next \in SUBSET {j \in Jobs : j.operator = memory.current.operator}
    OBVIOUS
  <2>11. \A s, t \in next : s = t
    OBVIOUS
  <2> HIDE DEF next
  <2>12. /\ Tidy(memory') /\ Awake(memory')
         /\ Known(memory') = Items(memory.queue) \cup memory.timers \cup next
    BY <1>1, <2>9, <2>10, <2>11, JobIsOver
  <2>2. /\ Tidy(memory') /\ Awake(memory')
        /\ Known(memory') = Items(memory.queue) \cup memory.timers
    BY <2>12 DEF next
  <2> HIDE DEF o, job
  <2>3. \A p \in Operators : outcome'[p] = IF p = o THEN "dropped" ELSE outcome[p]
    BY <1>3, <1>6
  <2>4. \A p \in Operators : p # o => (IsOf(p, Known(memory')) <=> IsOf(p, Known(memory)))
    BY <1>2, <2>2 DEF IsOf, o
  <2>5. ~IsOf(o, Known(memory'))
    BY <1>2, <2>2 DEF IsOf
  <2>6. \A p \in Operators : outcome'[p] = "new" => p # o /\ failed'[p] = failed[p]
    BY <1>1, <1>3, <2>3
  <2>7. outcome' \in [Operators -> {"new", "pending", "done", "dropped", "lost"}]
    BY <1>3, <1>6
  <2>8. \A s \in Known(memory') : s.attempts = failed'[s.operator]
    BY <1>4, <2>2
  <2> QED
    BY <1>1, <2>1, <2>2, <2>3, <2>4, <2>5, <2>6, <2>7, <2>8 DEF QueueInv, Histories
<1> QED
  BY <1>5, <1>6, JobFailedCases

\* A timer puts its job back into the queue; nothing else changes place.
LEMMA TimerKeepsInv ==
  ASSUME QueueInv, NEW job \in Jobs, TimerFires(job)
  PROVE  QueueInv' /\ UNCHANGED <<outcome, failed>>
<1> DEFINE m == [memory EXCEPT !.timers = @ \ {job}]
<1>1. job \in memory.timers /\ memory \in Memories
  BY DEF TimerFires, QueueInv, Tidy
<1>2. memory' = RunLoop(Push(m, job)) /\ UNCHANGED <<outcome, failed, restarts>>
  BY DEF TimerFires
<1>3. /\ m \in Memories /\ m.timers = memory.timers \ {job} /\ m.queue = memory.queue
      /\ m.loop = memory.loop /\ m.current = memory.current
      /\ m.isRunning = memory.isRunning
  BY <1>1 DEF Memories
<1> HIDE DEF m
<1>4. InLoop(m) = InLoop(memory)
  BY <1>3 DEF InLoop
<1>5. Distinct(m)
  BY <1>3, Zenon DEF QueueInv, Tidy, Distinct
<1>6. Tidy(m)
  BY <1>3, <1>4, <1>5 DEF QueueInv, Tidy
<1>7. \A s \in Known(m) : s.operator # job.operator
  BY <1>1, <1>3, <1>4 DEF QueueInv, Tidy, Distinct, Known
<1>8. Known(m) \cup {job} = Known(memory)
  BY <1>1, <1>3, <1>4 DEF Known
<1>9. Tidy(memory') /\ Awake(memory') /\ Known(memory') = Known(memory)
  BY <1>2, <1>6, <1>7, <1>8, PushKeepsTidy, RunLoopIsTidy
<1> QED
  BY <1>2, <1>9 DEF QueueInv, Histories, IsOf

LEMMA LoopEndedKeepsInv ==
  ASSUME QueueInv, LoopEnded
  PROVE  QueueInv' /\ UNCHANGED <<outcome, failed>>
<1>1. Tidy(memory') /\ Awake(memory') /\ Known(memory') = Known(memory)
  BY StoppedIsTidy DEF LoopEnded, QueueInv
<1> QED
  BY <1>1 DEF LoopEnded, QueueInv, Histories, IsOf

LEMMA RestartKeepsInv ==
  ASSUME QueueInv, Restart
  PROVE  QueueInv'
<1>1. Tidy(memory') /\ Awake(memory') /\ Known(memory') = {}
  BY BootedIsEmpty DEF Restart
<1>2. Histories'
  BY MaxRestartsIsNat DEF Restart, QueueInv, Histories
<1> QED
  BY <1>1, <1>2 DEF Restart, QueueInv, IsOf, Histories

LEMMA StepKeepsQueueInv ==
  ASSUME QueueInv, [Next]_vars
  PROVE  QueueInv'
<1>1. CASE UNCHANGED vars
  BY <1>1 DEF vars, QueueInv, Histories, IsOf
<1>2. CASE Next
  BY <1>2, EnqueueKeepsInv, JobDoneKeepsInv, JobFailedKeepsInv, LoopEndedKeepsInv,
     TimerKeepsInv, RestartKeepsInv DEF Next, HandleJob
<1> QED
  BY <1>1, <1>2

\* While a callback of another job runs, the loop goes on with its own.
LEMMA LoopGoesOn ==
  ASSUME QueueInv, memory.loop = "handling",
         (\E o \in Operators : Enqueue(o)) \/ (\E job \in Jobs : TimerFires(job))
  PROVE  /\ memory'.loop = "handling" /\ memory'.current = memory.current
         /\ \A o \in Operators : outcome'[o] = "done" => outcome[o] = "done"
<1>1. memory \in Memories /\ memory.isRunning = TRUE
  BY HandledJob
<1>2. CASE \E o \in Operators : Enqueue(o)
  <2>1. PICK o \in Operators : Enqueue(o)
    BY <1>2
  <2> DEFINE job == [operator |-> o, attempts |-> 0]
  <2>2. memory' = [memory EXCEPT !.queue = Append(@, job)]
    BY <1>1, <2>1 DEF Enqueue, RunLoop, Push, Memories
  <2> HIDE DEF job
  <2> QED
    BY <1>1, <2>1, <2>2 DEF Enqueue, Memories, QueueInv, Histories
<1>3. CASE \E job \in Jobs : TimerFires(job)
  <2>1. PICK job \in Jobs : TimerFires(job)
    BY <1>3
  <2>2. memory' = [[memory EXCEPT !.timers = @ \ {job}] EXCEPT !.queue = Append(@, job)]
    BY <1>1, <2>1 DEF TimerFires, RunLoop, Push, Memories
  <2> QED
    BY <1>1, <2>1, <2>2 DEF TimerFires, Memories
<1> QED
  BY <1>2, <1>3

\* The job that is handled is that of an operator whose job is not over.
LEMMA HandledIsPending ==
  ASSUME QueueInv, memory.loop = "handling"
  PROVE  memory.current.operator \in Operators /\ outcome[memory.current.operator] = "pending"
  BY HandledJob DEF QueueInv, IsOf, Jobs

LEMMA QueueInvAlways == SafetySpec => []QueueInv
<1>1. Init => QueueInv
  BY InitQueueInv
<1>2. QueueInv /\ [Next]_vars => QueueInv'
  BY StepKeepsQueueInv
<1> QED
  BY <1>1, <1>2, PTL DEF SafetySpec

\* The queue object keeps its shape, and no job fails more than MaxAttempts times.
THEOREM QueueTypeCorrect == SafetySpec => []QueueTypeOK
<1>1. QueueInv => QueueTypeOK
  BY DEF QueueInv, Tidy, Histories, QueueTypeOK
<1> QED
  BY <1>1, QueueInvAlways, PTL

\* No job waits in a queue that nobody is going to look at, whatever is queued
\* between the end of processQueue and its finally callback.
THEOREM NoWakeupIsLost == SafetySpec => []NoLostWakeup
<1>1. QueueInv => NoLostWakeup
  BY DEF QueueInv, Tidy, Awake, NoLostWakeup
<1> QED
  BY <1>1, QueueInvAlways, PTL

\* A pending job is in one place, an operator's job is pending exactly as long as
\* the queue knows of it, and it has as many failed attempts as it counts.
THEOREM JobsAreInOnePlace == SafetySpec => []EachJobOnce
<1>1. QueueInv => EachJobOnce
  <2> SUFFICES ASSUME QueueInv PROVE EachJobOnce
    OBVIOUS
  <2>1. /\ \A m, n \in DOMAIN memory.queue :
             memory.queue[m].operator = memory.queue[n].operator => m = n
        /\ \A s, t \in memory.timers : s.operator = t.operator => s = t
    BY DEF QueueInv, Tidy, Distinct, OnceEach
  <2>2. \A s \in Waiting, t \in memory.timers : s.operator # t.operator
    BY KnownIsPending DEF QueueInv, Tidy, Distinct
  <2>3. \A s \in Handled, t \in Waiting \cup memory.timers : s.operator # t.operator
    BY KnownIsPending DEF QueueInv, Tidy
  <2>4. \A o \in Operators :
          /\ ~(IsOf(o, Waiting) /\ IsOf(o, memory.timers))
          /\ ~(IsOf(o, Handled) /\ IsOf(o, Waiting \cup memory.timers))
    BY <2>2, <2>3 DEF IsOf
  <2>5. \A o \in Operators : outcome[o] = "pending" <=> IsOf(o, Pending)
    BY KnownIsPending DEF QueueInv
  <2>6. \A job \in Pending : job.attempts = failed[job.operator]
    BY KnownIsPending DEF QueueInv
  <2> QED
    BY <2>1, <2>4, <2>5, <2>6 DEF EachJobOnce
<1> QED
  BY <1>1, QueueInvAlways, PTL

-----------------------------------------------------------------------------
(* The queue implements DeferredJobs, but for its fairness. *)

Fate == [o \in Operators |-> IF IsOf(o, Pending) THEN "pending" ELSE outcome[o]]

\* The mapped variable is the history.
LEMMA FateIsOutcome == QueueInv => Fate = outcome
<1> SUFFICES ASSUME QueueInv PROVE Fate = outcome
  OBVIOUS
<1>1. \A o \in Operators : IsOf(o, Pending) <=> outcome[o] = "pending"
  BY KnownIsPending DEF QueueInv
<1> QED
  BY <1>1 DEF Fate, QueueInv, Histories

LEMMA FateIsOutcomeNext == QueueInv' => Fate' = outcome'
<1>1. (QueueInv => Fate = outcome)'
  BY FateIsOutcome, PTL
<1> QED
  BY <1>1

LEMMA StepIsDeferredStep ==
  ASSUME QueueInv, QueueInv', [Next]_vars
  PROVE  [Deferred!Next]_<<Fate, failed>>
<1>1. Fate = outcome /\ Fate' = outcome'
  BY FateIsOutcome, FateIsOutcomeNext
<1>2. ASSUME NEW o \in Operators, Enqueue(o)
      PROVE  Deferred!Submit(o)
  BY <1>1, <1>2 DEF Enqueue, Deferred!Submit, Fate
<1>3. ASSUME JobDone
      PROVE  \E o \in Operators : Deferred!Succeed(o)
  <2>1. PICK o \in Operators : o = memory.current.operator /\ outcome[o] = "pending"
    BY <1>3, HandledJob DEF JobDone, Jobs, QueueInv, IsOf
  <2>2. Deferred!Succeed(o)
    BY <1>1, <1>3, <2>1 DEF JobDone, Deferred!Succeed, Fate
  <2> QED
    BY <2>2
<1>4. ASSUME JobFailed
      PROVE  \E o \in Operators : Deferred!Fail(o)
  <2>1. PICK o \in Operators : o = memory.current.operator /\ outcome[o] = "pending"
    BY <1>4, HandledJob DEF JobFailed, Jobs, QueueInv, IsOf
  <2>2. failed' = [failed EXCEPT ![o] = @ + 1] /\ failed'[o] = failed[o] + 1
    BY <1>4, <2>1 DEF JobFailed, QueueInv, Histories
  <2>3. \/ failed[o] + 1 < MaxAttempts /\ outcome' = outcome
        \/ failed[o] + 1 = MaxAttempts /\ outcome' = [outcome EXCEPT ![o] = "dropped"]
    BY <1>4, <2>1, JobFailedCases
  <2>4. failed[o] \in Nat
    BY <2>1 DEF QueueInv, Histories
  <2>5. outcome' = IF failed'[o] = MaxAttempts THEN [outcome EXCEPT ![o] = "dropped"] ELSE outcome
    BY <2>2, <2>3, <2>4, MaxAttemptsIsPositive
  <2>6. Deferred!Fail(o)
    BY <1>1, <2>1, <2>2, <2>5 DEF Deferred!Fail, Fate
  <2> QED
    BY <2>6
<1>5. ASSUME Restart
      PROVE  Deferred!Forget
  BY <1>1, <1>5 DEF Restart, Deferred!Forget, Fate
<1>6. ASSUME LoopEnded \/ (\E job \in Jobs : TimerFires(job)) \/ UNCHANGED vars
      PROVE  UNCHANGED <<Fate, failed>>
  BY <1>1, <1>6 DEF LoopEnded, TimerFires, vars
<1>7. CASE UNCHANGED vars
  BY <1>6, <1>7
<1>8. CASE Next
  <2>1. \/ \E o \in Operators : Enqueue(o)
        \/ JobDone \/ JobFailed \/ Restart
        \/ LoopEnded \/ (\E job \in Jobs : TimerFires(job))
    BY <1>8 DEF Next, HandleJob
  <2>2. ASSUME \/ \E o \in Operators : Enqueue(o)
               \/ JobDone \/ JobFailed \/ Restart
        PROVE  Deferred!Next
    BY <1>2, <1>3, <1>4, <1>5, <2>2 DEF Deferred!Next, Deferred!Attempt
  <2> QED
    BY <1>6, <2>1, <2>2
<1> QED
  BY <1>7, <1>8

\* A job of the queue is carried out at most once, or dropped after exactly
\* MaxAttempts failures, and a restart forgets those that are pending: the safety
\* part of DeferredJobs, which says nothing of queue, loop and timers.
THEOREM QueueDefersJobs == SafetySpec => Deferred!SafetySpec
<1>1. Init => Deferred!Init
  <2> SUFFICES ASSUME Init PROVE Deferred!Init
    OBVIOUS
  <2>1. Fate = outcome
    BY InitQueueInv, FateIsOutcome
  <2> QED
    BY <2>1 DEF Init, Deferred!Init, Fate
<1>2. QueueInv /\ QueueInv' /\ [Next]_vars => [Deferred!Next]_<<Fate, failed>>
  BY StepIsDeferredStep
<1>3. Deferred!SafetySpec <=> Deferred!Init /\ [][Deferred!Next]_<<Fate, failed>>
  BY DEF Deferred!SafetySpec, Fate
<1> QED
  BY <1>1, <1>2, <1>3, QueueInvAlways, PTL DEF SafetySpec
=============================================================================
