------------------------------ MODULE Workforce ------------------------------
(***************************************************************************)
(* GracePeriod and OperatorStatusQueue together: a job of the queue is a   *)
(* call of setStatus, whose statements interleave with those of requests,  *)
(* of sweeps and of status requests the operator sends himself.  When one  *)
(* of its statements fails, the attempt ends where it is, and the next one *)
(* starts again from the first statement.                                  *)
(*                                                                         *)
(* Newcomers are created while the system runs; the other operators are    *)
(* there from the start.  Any operator may be removed, which nothing but   *)
(* setStatus and reassign takes notice of.  One process is modelled: a     *)
(* restart loses the queue with every request and sweep in progress.       *)
(***************************************************************************)
EXTENDS GracePeriod, Sequences

CONSTANTS
  Newcomers,    \* operators that createOperator makes
  Watched,      \* bound: the operators who send status requests or are removed
  Loop,         \* the setter that is the job of the queue being handled
  MaxAttempts,  \* MAX_ATTEMPTS
  MaxRestarts   \* bound on restarts of the process

ASSUME NewcomersAreOperators == Newcomers \subseteq Operators
ASSUME WatchedAreOperators == Watched \subseteq Operators
ASSUME LoopIsASetter == Loop \in Setters
ASSUME MaxAttemptsIsPositive == MaxAttempts \in Nat \ {0}
ASSUME MaxRestartsIsNat == MaxRestarts \in Nat
ASSUME NoneIsNoJob == None \notin [operator : Newcomers, attempts : Nat]

VARIABLES
  memory, outcome, failed, restarts,  \* as in OperatorStatusQueue
  removed,    \* operators whose row has deleted_at set
  spoke       \* history: operators who have sent a status request themselves

Queue == INSTANCE OperatorStatusQueue WITH Operators <- Newcomers

queueVars == <<memory, outcome, failed, restarts>>
workVars  == <<graceVars, queueVars, removed, spoke>>

Created(o) == o \in Newcomers => outcome[o] # "new"

\* Those whom findOne finds.
Staff == {o \in Operators : Created(o)} \ removed

WorkInit ==
  /\ GraceInit
  /\ Queue!Init
  /\ removed = {}
  /\ spoke = {}

-----------------------------------------------------------------------------
\* Requests come from operators who exist, removed or not; reassign looks for
\* the new one.
ServeStaff(k) ==
  /\ Serving(k)
  /\ call[k] = Idle =>
       /\ call'[k].by \in Operators => Created(call'[k].by)
       /\ call'[k].op = "reassign" => call'[k].entity.assignee \in Staff
  /\ UNCHANGED <<queueVars, removed, spoke>>

\* setStatus, called by the operator himself.
OwnStart(p, o, v) ==
  /\ p # Loop
  /\ o \in Staff
  /\ SetStart(p, o, v)
  /\ spoke' = spoke \cup {o}
  /\ UNCHANGED <<queueVars, removed>>

OwnStatus(p) ==
  /\ p # Loop
  /\ SetStatus(p) \/ SetCrash(p)
  /\ UNCHANGED <<queueVars, removed, spoke>>

\* setStatus, called by handleJob.
AttemptStarts ==
  /\ memory.loop = "handling"
  /\ memory.current.operator \in Staff
  /\ SetStart(Loop, memory.current.operator, "OFFLINE")
  /\ UNCHANGED <<queueVars, removed, spoke>>

\* The last statement ends the attempt; when it is committed and its answer is
\* lost, the job is tried again.
AttemptGoesOn ==
  /\ SetStatus(Loop)
  /\ IF setting'[Loop] = NoSetting THEN Queue!HandleJob ELSE UNCHANGED queueVars
  /\ UNCHANGED <<removed, spoke>>

\* A statement fails, or the operator is not found: what has been written stays.
AttemptFails ==
  /\ Queue!JobFailed
  /\ setting' = [setting EXCEPT ![Loop] = NoSetting]
  /\ mixed' = IF setting[Loop] = NoSetting THEN mixed ELSE mixed \cup {setting[Loop].by}
  /\ UNCHANGED <<conv, call, raced, status, grace, sweep, crashes, removed, spoke>>

Attempt == AttemptStarts \/ AttemptGoesOn \/ AttemptFails

QueueRuns ==
  /\ Queue!LoopEnded \/ \E job \in Queue!Jobs : Queue!TimerFires(job)
  /\ UNCHANGED <<conv, call, raced, status, grace, setting, sweep, crashes, mixed,
                 removed, spoke>>

-----------------------------------------------------------------------------
\* createOperator: the INSERT and the job.
CreateOperator(o) ==
  /\ Queue!Enqueue(o)
  /\ UNCHANGED <<conv, call, raced, status, grace, setting, sweep, crashes, mixed,
                 removed, spoke>>

\* removeOperator: conversations, status and entries are left as they are.
RemoveOperator(o) ==
  /\ o \in Staff
  /\ removed' = removed \cup {o}
  /\ UNCHANGED <<conv, call, raced, status, grace, setting, sweep, crashes, mixed,
                 queueVars, spoke>>

RestartProcess ==
  /\ Queue!Restart
  /\ call' = [k \in Callers |-> Idle]
  /\ setting' = [p \in Setters |-> NoSetting]
  /\ sweep' = [s \in Sweepers |-> NoSweep]
  /\ mixed' = mixed \cup {setting[p].by : p \in {p \in Setters : setting[p] # NoSetting}}
  /\ UNCHANGED <<conv, raced, status, grace, crashes, removed, spoke>>

TimeAndSweeps ==
  /\ \/ \E e \in Entries : GraceExpires(e)
     \/ \E s \in Sweepers : Sweep(s) \/ SweepCrash(s)
  /\ UNCHANGED <<queueVars, removed, spoke>>

WorkNext ==
  /\ \/ \E k \in Clients : ServeStaff(k)
     \/ \E p \in Setters :
          \/ \E o \in Watched, v \in {"AVAILABLE", "OFFLINE"} : OwnStart(p, o, v)
          \/ OwnStatus(p)
     \/ Attempt
     \/ QueueRuns
     \/ TimeAndSweeps
     \/ \E o \in Newcomers : CreateOperator(o)
     \/ \E o \in Watched : RemoveOperator(o)
     \/ RestartProcess
  /\ Watch

WorkSpec == WorkInit /\ [][WorkNext]_workVars

-----------------------------------------------------------------------------
\* When the job of a new operator is done and he has not spoken for himself, he
\* is OFFLINE, and every conversation he got before that has an entry which will
\* release it: however many attempts failed half-way before, whatever they had
\* written, and although he could work as long as he had no status row.
FirstStatusIsWhole ==
  \A o \in Newcomers \ spoke, c \in Conversations :
    outcome[o] = "done" =>
      /\ Offline(o)
      /\ Owns(o, c) /\ c \notin raced \cup late => grace[<<c, o>>] # "none"

\* When the job of an operator is over, whether it was done, dropped or lost, no
\* retry of it is carried out any more: nobody but himself changes his status.
StatusIsHisOwn ==
  [][\A o \in Operators :
       /\ o \in Newcomers => outcome[o] # "pending"
       /\ \A p \in Setters \ {Loop} : setting[p].by # o
       => status'[o] = status[o]]_workVars
=============================================================================
