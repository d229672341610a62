------------------------ MODULE OperatorStatusQueue ------------------------
(***************************************************************************)
(* OperatorStatusQueue: the in-memory queue through which createOperator   *)
(* gives a new operator the status OFFLINE.                                *)
(*                                                                         *)
(* JavaScript runs one callback at a time, up to its next await.  The      *)
(* actions are these callbacks: what enqueue() does, the continuation of   *)
(* processQueue when setStatus has settled, the finally callback of        *)
(* runLoop, a timer.  Between two of them any other may run; in            *)
(* particular enqueue() may run after the loop has found the queue empty   *)
(* and before finally has cleared isRunning.                               *)
(*                                                                         *)
(* setStatus itself is modelled in GracePeriod; here it succeeds or fails. *)
(* The only caller of enqueue() creates an operator, so there is one job   *)
(* for an operator, and a job is named by it.  Timers may fire in any      *)
(* order.                                                                  *)
(***************************************************************************)
EXTENDS Naturals, Sequences

CONSTANTS
  Operators,    \* the operators that get created
  MaxAttempts,  \* MAX_ATTEMPTS
  MaxRestarts,  \* bound on restarts of the process
  None

ASSUME MaxAttemptsIsPositive == MaxAttempts \in Nat \ {0}
ASSUME MaxRestartsIsNat == MaxRestarts \in Nat
ASSUME NoneIsNoJob == None \notin [operator : Operators, attempts : Nat]

VARIABLES
  memory,     \* the fields of the queue object and the state of its loop
  outcome,    \* outcome[o]: history of o's job
  failed,     \* failed[o]: history, the attempts of o's job that failed
  restarts

vars == <<memory, outcome, failed, restarts>>

Jobs == [operator : Operators, attempts : 0 .. MaxAttempts - 1]

Memories ==
  [queue     : Seq(Jobs),
   isRunning : BOOLEAN,
   loop      : {"handling", "ended", "stopped"},  \* processQueue; "stopped": not called
   current   : Jobs \cup {None},                  \* the job whose setStatus it awaits
   timers    : SUBSET Jobs]                       \* retries that wait for their setTimeout

\* onModuleInit has called runLoop on an empty queue.
Booted ==
  [queue |-> <<>>, isRunning |-> TRUE, loop |-> "ended", current |-> None, timers |-> {}]

Init ==
  /\ memory = Booted
  /\ outcome = [o \in Operators |-> "new"]
  /\ failed = [o \in Operators |-> 0]
  /\ restarts = 0

-----------------------------------------------------------------------------
\* Mutant of Iterate: the first job is read and not shifted.
IteratePeeks(m) ==
  IF m.queue = <<>>
    THEN [m EXCEPT !.loop = "ended", !.current = None]
    ELSE [m EXCEPT !.loop = "handling", !.current = Head(m.queue)]

\* The loop condition of processQueue, and the call of handleJob up to its await.
Iterate(m) ==
  IF m.queue = <<>>
    THEN [m EXCEPT !.loop = "ended", !.current = None]
    ELSE [m EXCEPT !.loop = "handling", !.current = Head(m.queue), !.queue = Tail(m.queue)]

RunLoop(m) ==
  IF m.isRunning THEN m ELSE Iterate([m EXCEPT !.isRunning = TRUE])

Push(m, job) == [m EXCEPT !.queue = Append(@, job)]

\* createOperator has saved the operator and calls enqueue().
Enqueue(o) ==
  /\ outcome[o] = "new"
  /\ memory' = RunLoop(Push(memory, [operator |-> o, attempts |-> 0]))
  /\ outcome' = [outcome EXCEPT ![o] = "pending"]
  /\ UNCHANGED <<failed, restarts>>

\* setStatus resolves.
JobDone ==
  /\ memory.loop = "handling"
  /\ memory' = Iterate(memory)
  /\ outcome' = [outcome EXCEPT ![memory.current.operator] = "done"]
  /\ UNCHANGED <<failed, restarts>>

\* Mutant of RetryLater: one attempt too many.
RetryOnceMore(job) ==
  /\ job.attempts < MaxAttempts
  /\ memory' = Iterate([memory EXCEPT !.timers = @ \cup {[job EXCEPT !.attempts = @ + 1]}])
  /\ UNCHANGED outcome

\* A failed job is queued again after a delay that grows with its attempts ...
RetryLater(job) ==
  /\ job.attempts + 1 < MaxAttempts
  /\ memory' = Iterate([memory EXCEPT !.timers = @ \cup {[job EXCEPT !.attempts = @ + 1]}])
  /\ UNCHANGED outcome

\* ... or dropped after its last attempt.
Drop(job) ==
  /\ job.attempts + 1 >= MaxAttempts
  /\ memory' = Iterate(memory)
  /\ outcome' = [outcome EXCEPT ![job.operator] = "dropped"]

\* setStatus rejects.
JobFailed ==
  /\ memory.loop = "handling"
  /\ failed' = [failed EXCEPT ![memory.current.operator] = @ + 1]
  /\ RetryLater(memory.current) \/ Drop(memory.current)
  /\ UNCHANGED restarts

\* Mutant of TimerFires: the retry is queued and the loop is not started.
TimerFiresQuietly(job) ==
  /\ job \in memory.timers
  /\ memory' = Push([memory EXCEPT !.timers = @ \ {job}], job)
  /\ UNCHANGED <<outcome, failed, restarts>>

TimerFires(job) ==
  /\ job \in memory.timers
  /\ memory' = RunLoop(Push([memory EXCEPT !.timers = @ \ {job}], job))
  /\ UNCHANGED <<outcome, failed, restarts>>

\* Mutant of Stopped: the queue is not looked at again.
StoppedForGood(m) == [m EXCEPT !.isRunning = FALSE, !.loop = "stopped"]

\* The finally callback clears isRunning and looks at the queue again.
Stopped(m) ==
  IF m.queue = <<>>
    THEN [m EXCEPT !.isRunning = FALSE, !.loop = "stopped"]
    ELSE RunLoop([m EXCEPT !.isRunning = FALSE, !.loop = "stopped"])

LoopEnded ==
  /\ memory.loop = "ended"
  /\ memory' = Stopped(memory)
  /\ UNCHANGED <<outcome, failed, restarts>>

\* The process is restarted; nothing of the queue is stored.
Restart ==
  /\ restarts < MaxRestarts
  /\ restarts' = restarts + 1
  /\ memory' = Booted
  /\ outcome' = [o \in Operators |-> IF outcome[o] = "pending" THEN "lost" ELSE outcome[o]]
  /\ UNCHANGED failed

HandleJob == JobDone \/ JobFailed

Next ==
  \/ \E o \in Operators : Enqueue(o)
  \/ HandleJob
  \/ LoopEnded
  \/ \E job \in Jobs : TimerFires(job)
  \/ Restart

\* Every setStatus settles, callbacks that are ready run, timers fire.
Fairness ==
  /\ WF_vars(HandleJob)
  /\ WF_vars(LoopEnded)
  /\ \A job \in Jobs : WF_vars(TimerFires(job))

SafetySpec == Init /\ [][Next]_vars

Spec == SafetySpec /\ Fairness

-----------------------------------------------------------------------------
\* The jobs that the process still knows of, by the place where they are.
Waiting  == {memory.queue[n] : n \in DOMAIN memory.queue}
Handled  == {memory.current : x \in {memory.loop} \cap {"handling"}}
Pending  == Waiting \cup memory.timers \cup Handled

IsOf(o, jobs) == \E job \in jobs : job.operator = o

\* Type invariant of the queue object and the histories.
QueueTypeOK ==
  /\ memory \in Memories
  /\ outcome \in [Operators -> {"new", "pending", "done", "dropped", "lost"}]
  /\ failed \in [Operators -> 0 .. MaxAttempts]
  /\ restarts \in 0 .. MaxRestarts

\* A job waits for no one who is not coming: whenever the queue holds a job,
\* the loop is running or its finally callback is still to look at the queue.
NoLostWakeup ==
  /\ memory.isRunning <=> memory.loop # "stopped"
  /\ memory.queue # <<>> => memory.loop # "stopped"

\* A pending job is in one place only, of the queue, the loop and the timers,
\* so it is never attempted twice at once, nor again when it is over; and it
\* has its failed attempts behind it, however timers and restarts fall.
EachJobOnce ==
  /\ \A m, n \in DOMAIN memory.queue :
       memory.queue[m].operator = memory.queue[n].operator => m = n
  /\ \A s, t \in memory.timers : s.operator = t.operator => s = t
  /\ \A o \in Operators :
       /\ ~(IsOf(o, Waiting) /\ IsOf(o, memory.timers))
       /\ ~(IsOf(o, Handled) /\ IsOf(o, Waiting \cup memory.timers))
       /\ outcome[o] = "pending" <=> IsOf(o, Pending)
  /\ \A job \in Pending : job.attempts = failed[job.operator]

\* The queue implements DeferredJobs, its fairness included.  A job is pending
\* as long as it is in one of the places from which the code would attempt it.
Deferred == INSTANCE DeferredJobs WITH
  Jobs <- Operators,
  fate <- [o \in Operators |->
             IF IsOf(o, Pending) THEN "pending" ELSE outcome[o]]

ImplementsDeferredJobs == Deferred!Spec
=============================================================================
