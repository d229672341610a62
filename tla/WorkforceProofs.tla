---------------------------- MODULE WorkforceProofs ----------------------------
(***************************************************************************)
(* Theorems about Workforce: what GracePeriod and OperatorStatusQueue      *)
(* promise apart they promise together, for any number of operators,       *)
(* requests, sweeps, attempts, lost requests and restarts; and what only   *)
(* both together can promise, about the first status of a new operator.    *)
(***************************************************************************)
EXTENDS Service, SubscriptionsProofs, GracePeriodProofs

\* What is proved of the queue, whose operators are the newcomers.
Proved == INSTANCE OperatorStatusQueueProofs WITH Operators <- Newcomers

\* The two instances of the queue are the same.
LEMMA SameQueue ==
  /\ Queue!Init <=> Proved!Init
  /\ \A o : Queue!Enqueue(o) <=> Proved!Enqueue(o)
  /\ Queue!JobDone <=> Proved!JobDone
  /\ Queue!JobFailed <=> Proved!JobFailed
  /\ Queue!LoopEnded <=> Proved!LoopEnded
  /\ \A job : Queue!TimerFires(job) <=> Proved!TimerFires(job)
  /\ Queue!Restart <=> Proved!Restart
  /\ Queue!Jobs = Proved!Jobs
<1>1. Queue!Init <=> Proved!Init
  BY DEF Queue!Init, Proved!Init, Queue!Booted, Proved!Booted
<1>2. /\ \A m : Queue!Iterate(m) = Proved!Iterate(m)
      /\ \A m, job : Queue!Push(m, job) = Proved!Push(m, job)
  BY DEF Queue!Iterate, Proved!Iterate, Queue!Push, Proved!Push
<1>3. \A m : Queue!RunLoop(m) = Proved!RunLoop(m)
  BY <1>2 DEF Queue!RunLoop, Proved!RunLoop
<1>4. \A m : Queue!Stopped(m) = Proved!Stopped(m)
  BY <1>3 DEF Queue!Stopped, Proved!Stopped
<1>5. \A o : Queue!Enqueue(o) <=> Proved!Enqueue(o)
  BY <1>2, <1>3 DEF Queue!Enqueue, Proved!Enqueue
<1>6. Queue!JobDone <=> Proved!JobDone
  BY <1>2 DEF Queue!JobDone, Proved!JobDone
<1>7. Queue!JobFailed <=> Proved!JobFailed
  BY <1>2 DEF Queue!JobFailed, Proved!JobFailed, Queue!RetryLater, Proved!RetryLater,
              Queue!Drop, Proved!Drop
<1>8. Queue!LoopEnded <=> Proved!LoopEnded
  BY <1>4 DEF Queue!LoopEnded, Proved!LoopEnded
<1>9. \A job : Queue!TimerFires(job) <=> Proved!TimerFires(job)
  BY <1>2, <1>3 DEF Queue!TimerFires, Proved!TimerFires
<1>10. Queue!Restart <=> Proved!Restart
  BY DEF Queue!Restart, Proved!Restart, Queue!Booted, Proved!Booted
<1>11. Queue!Jobs = Proved!Jobs
  BY DEF Queue!Jobs, Proved!Jobs
<1> QED
  BY <1>1, <1>5, <1>6, <1>7, <1>8, <1>9, <1>10, <1>11

\* Every step is a step of the queue or leaves it alone.
LEMMA StepIsQueueStep ==
  ASSUME [WorkNext]_workVars
  PROVE  [Proved!Next]_queueVars
  BY SameQueue
     DEF WorkNext, workVars, queueVars, ServeStaff, OwnStart, OwnStatus, Attempt,
         AttemptStarts, AttemptGoesOn, AttemptFails, QueueRuns, TimeAndSweeps,
         CreateOperator, RemoveOperator, RestartProcess, Queue!HandleJob, Proved!Next,
         Proved!HandleJob

\* The queue does for Workforce what it does alone.
THEOREM WorkforceRunsTheQueue ==
  WorkSpec => Proved!Deferred!SafetySpec /\ [](Proved!NoLostWakeup /\ Proved!EachJobOnce)
<1>1. WorkInit => Proved!Init
  BY SameQueue DEF WorkInit
<1>2. WorkSpec => Proved!SafetySpec
  BY <1>1, StepIsQueueStep, PTL DEF WorkSpec, Proved!SafetySpec, Proved!vars, queueVars
<1> QED
  BY <1>2, MaxAttemptsIsPositive, MaxRestartsIsNat, NoneIsNoJob, Proved!NoWakeupIsLost,
     Proved!JobsAreInOnePlace, Proved!QueueDefersJobs, PTL

-----------------------------------------------------------------------------
(* The setter of the loop, and the invariant of GracePeriod. *)

\* The job that is handled is what setStatus was called for, and nobody but the
\* loop and the operator himself calls it.
LoopWorks ==
  /\ \A p \in Setters : setting[p].pc = "idle" => setting[p] = NoSetting
  /\ setting[Loop].pc # "idle" =>
       /\ memory.loop = "handling"
       /\ setting[Loop].by = memory.current.operator
       /\ setting[Loop].to = "OFFLINE"
  /\ \A p \in Setters \ {Loop} : setting[p].pc # "idle" => setting[p].by \in spoke

WorkBase == GraceInv /\ Proved!QueueInv /\ LoopWorks

\* What none of the tables and requests of GracePeriod takes part in.
LEMMA QuietKeeps ==
  ASSUME GraceInv, Watch,
         UNCHANGED <<conv, call, raced, status, grace, setting, sweep, crashes, mixed>>
  PROVE  GraceInv'
<1>1. IInv' /\ TypeOK'
  BY StoreFrame DEF GraceInv, IInv
<1>2. OneAtATime' /\ Phases' /\ EntriesOfOffline' /\ DueHaveGrace'
  BY <1>1, StatusFrame
<1>3. ListedOfOffline' /\ ProcessedIsFree'
  <2>1. \A o : (Orderly(o)' <=> Orderly(o)) /\ (Returning(o)' <=> Returning(o))
               /\ (Offline(o)' <=> Offline(o))
    BY DEF Orderly, Returning, InProgress, Offline
  <2> QED
    BY <1>1, <2>1, SweepFrame DEF ListedOfOffline, ProcessedIsFree
<1>4. SweepsRelease'
  BY DEF GraceInv, SweepsRelease
<1>5. GraceTypeOK'
  BY <1>1, WatchType DEF GraceInv, GraceTypeOK
<1> QED
  BY <1>1, <1>2, <1>3, <1>4, <1>5 DEF GraceInv

\* A restart ends every request and sweep: what was half-way is mixed.
LEMMA RestartKeeps ==
  ASSUME GraceInv, RestartProcess, Watch, \A p \in Setters : setting[p].pc = "idle" => setting[p] = NoSetting
  PROVE  GraceInv'
<1>1. /\ call' = [k \in Callers |-> Idle]
      /\ setting' = [p \in Setters |-> NoSetting]
      /\ sweep' = [s \in Sweepers |-> NoSweep]
      /\ mixed' = mixed \cup {setting[p].by : p \in {p \in Setters : setting[p] # NoSetting}}
      /\ UNCHANGED <<conv, raced, status, grace, crashes>>
  BY DEF RestartProcess
<1>2. Sweepers \subseteq Callers
  BY CallersAreClientsAndSweepers
<1>3. \A s \in Sweepers : ListedBy(s)' = {} /\ sweep'[s].pc = "idle" /\ call'[s] = Idle
  BY <1>1, <1>2 DEF ListedBy, NoSweep
<1>4. \A p \in Setters : setting'[p].pc = "idle"
  BY <1>1 DEF NoSetting
<1>5. \A o \in Operators : InProgress(o)' = {} /\ ~Returning(o)'
  BY <1>4 DEF InProgress, Returning
<1>6. \A o \in Operators : Orderly(o)' => Orderly(o) /\ InProgress(o) = {} /\ ~Returning(o)
  <2> SUFFICES ASSUME NEW o \in Operators, Orderly(o)'
               PROVE  Orderly(o) /\ InProgress(o) = {} /\ ~Returning(o)
    OBVIOUS
  <2>1. o \notin mixed' /\ Orderly(o)
    BY <1>1 DEF Orderly
  <2>2. \A p \in Setters : setting[p].pc # "idle" => setting[p] # NoSetting
    BY DEF NoSetting
  <2>3. \A p \in Setters : setting[p] # NoSetting => setting[p].by # o
    BY <1>1, <2>1
  <2>4. InProgress(o) = {}
    BY <2>2, <2>3 DEF InProgress
  <2> QED
    BY <2>1, <2>4 DEF Returning
<1>7. \A o \in Operators : Offline(o)' <=> Offline(o)
  BY <1>1 DEF Offline
<1>8. \A o \in Operators, c \in Conversations : Due(o, c)' => Due(o, c)
  BY <1>1, WatchQuiet DEF GraceInv, IInv
<1>9. IInv'
  <2>1. \A k \in Callers : call'[k] = Idle
    BY <1>1
  <2>2. /\ Idle.pc = "idle" /\ call' \in [Callers -> Request]
    BY <1>1, ColumnTypes DEF Idle
  <2>3. TypeOK'
    BY <1>1, <2>2 DEF GraceInv, IInv, TypeOK
  <2>4. \A k \in Callers : Placed(call'[k])
    BY <2>1, <2>2 DEF Placed
  <2>5. OneSection'
    BY <2>1, <2>2 DEF OneSection, Holds
  <2>6. SnapshotIsCurrent'
    BY <2>1, <2>2 DEF SnapshotIsCurrent
  <2>7. RowsWhole'
    BY <1>1 DEF GraceInv, IInv, RowsWhole
  <2> QED
    BY <2>3, <2>4, <2>5, <2>6, <2>7 DEF IInv
<1>10. GraceTypeOK'
  <2>1. TypeOK'
    BY <1>9 DEF IInv
  <2>2. \A p \in Setters : setting[p] # NoSetting => setting[p].by \in Operators
    BY DEF GraceInv, Phases, Phase
  <2>3. mixed' \subseteq Operators
    BY <1>1, <2>2 DEF GraceInv, GraceTypeOK
  <2> QED
    BY <1>1, <2>1, <2>3, WatchType DEF GraceInv, GraceTypeOK, NoSetting, NoSweep
<1>11. OneAtATime' /\ Phases'
  BY <1>4, <1>5 DEF OneAtATime, Phases, Phase
<1>12. EntriesOfOffline'
  BY <1>1, <1>6, <1>7 DEF GraceInv, EntriesOfOffline, Entries
<1>13. ListedOfOffline' /\ ProcessedIsFree' /\ SweepsRelease'
  BY <1>3 DEF ListedOfOffline, ProcessedIsFree, SweepsRelease
<1>14. DueHaveGrace'
  BY <1>1, <1>6, <1>7, <1>8 DEF GraceInv, DueHaveGrace
<1> QED
  BY <1>9, <1>10, <1>11, <1>12, <1>13, <1>14 DEF GraceInv

\* A statement of setStatus leaves its request where it was going, or ends it.
LEMMA SetterMoves ==
  ASSUME GraceTypeOK, NEW p \in Setters, SetStatus(p)
  PROVE  /\ setting[p].pc # "idle"
         /\ \A q \in Setters \ {p} : setting'[q] = setting[q]
         /\ \/ setting'[p] = NoSetting
            \/ /\ setting'[p].pc # "idle"
               /\ setting'[p].by = setting[p].by
               /\ setting'[p].to = setting[p].to
<1> DEFINE found == {c \in Conversations : Owns(setting[p].by, c)}
<1>1. setting[p].pc # "idle"
  BY DEF SetStatus, SetSave, SetFind, SetUpsertGrace, SetDeleteGrace
<1>2. PICK pc \in {"find", "delete", "upsert"} :
        \/ setting' = [setting EXCEPT ![p] = NoSetting]
        \/ setting' = [setting EXCEPT ![p] = [@ EXCEPT !.pc = pc]]
        \/ setting' = [setting EXCEPT ![p] = [@ EXCEPT !.pc = pc, !.found = found]]
  BY Zenon DEF SetStatus, SetSave, SetFind, SetUpsertGrace, SetDeleteGrace
<1> HIDE DEF found
<1>3. CASE setting' = [setting EXCEPT ![p] = NoSetting]
  BY <1>1, <1>3 DEF GraceTypeOK
<1>4. CASE setting' = [setting EXCEPT ![p] = [@ EXCEPT !.pc = pc]]
  BY <1>1, <1>4 DEF GraceTypeOK
<1>5. CASE setting' = [setting EXCEPT ![p] = [@ EXCEPT !.pc = pc, !.found = found]]
  BY <1>1, <1>5 DEF GraceTypeOK
<1> QED
  BY <1>2, <1>3, <1>4, <1>5

\* The queue goes on with the job of the loop while callbacks of others run.
LEMMA OthersLeaveTheLoop ==
  ASSUME Proved!QueueInv, memory.loop = "handling",
         (\E o \in Newcomers : Queue!Enqueue(o)) \/ (\E job \in Queue!Jobs : Queue!TimerFires(job))
  PROVE  /\ memory'.loop = "handling" /\ memory'.current = memory.current
         /\ \A o \in Newcomers : outcome'[o] = "done" => outcome[o] = "done"
  BY SameQueue, Proved!LoopGoesOn, MaxAttemptsIsPositive, MaxRestartsIsNat, NoneIsNoJob

\* One request goes on or ends, and the loop goes on only with its job.
LEMMA LoopStays ==
  ASSUME LoopWorks, NEW p \in Setters, spoke' = spoke,
         \A q \in Setters \ {p} : setting'[q] = setting[q],
         \/ setting'[p] = NoSetting
         \/ /\ setting[p].pc # "idle" /\ setting'[p].pc # "idle"
            /\ setting'[p].by = setting[p].by
            /\ setting'[p].to = setting[p].to,
         setting'[Loop].pc # "idle" => memory' = memory
  PROVE  LoopWorks'
<1>1. NoSetting.pc = "idle"
  BY DEF NoSetting
<1>2. \A q \in Setters : setting'[q].pc = "idle" => setting'[q] = NoSetting
  BY DEF LoopWorks
<1>3. \A q \in Setters : setting'[q].pc # "idle" =>
        /\ setting[q].pc # "idle"
        /\ setting'[q].by = setting[q].by
        /\ setting'[q].to = setting[q].to
  BY <1>1
<1> QED
  BY <1>2, <1>3, LoopIsASetter DEF LoopWorks

LEMMA BaseInitially == WorkInit => WorkBase
<1> SUFFICES ASSUME WorkInit PROVE WorkBase
  OBVIOUS
<1>1. GraceInv
  BY GraceInvInitially DEF WorkInit
<1>2. Proved!QueueInv
  BY SameQueue, Proved!InitQueueInv, MaxAttemptsIsPositive, MaxRestartsIsNat, NoneIsNoJob
     DEF WorkInit
<1>3. LoopWorks
  BY LoopIsASetter DEF WorkInit, GraceInit, LoopWorks, NoSetting
<1> QED
  BY <1>1, <1>2, <1>3 DEF WorkBase

LEMMA BaseStep ==
  ASSUME WorkBase, WorkNext
  PROVE  GraceInv' /\ LoopWorks'
<1> USE LoopIsASetter
<1>1. GraceInv /\ Proved!QueueInv /\ LoopWorks /\ GraceTypeOK /\ Watch
  BY DEF WorkBase, WorkNext, GraceInv
<1>2. \A p \in Setters : setting[p].pc = "idle" <=> setting[p] = NoSetting
  BY <1>1 DEF LoopWorks, NoSetting
<1>3. ASSUME UNCHANGED <<setting, memory, spoke>> PROVE LoopWorks'
  BY <1>1, <1>3 DEF LoopWorks
<1>4. ASSUME NEW k \in Clients, ServeStaff(k) PROVE GraceInv' /\ LoopWorks'
  BY <1>1, <1>3, <1>4, ServingKeeps DEF ServeStaff, Serving, queueVars
<1>5. CASE TimeAndSweeps
  <2>1. UNCHANGED <<setting, memory, spoke>>
    BY <1>5 DEF TimeAndSweeps, queueVars, GraceExpires, Sweep, SweepStart, SweepRead, SweepSave,
                SweepDelete, SweepCrash
  <2> QED
    BY <1>1, <1>3, <1>5, <2>1, ExpiresKeeps, SweepKeeps DEF TimeAndSweeps
<1>6. ASSUME UNCHANGED <<conv, call, raced, status, grace, setting, sweep, crashes, mixed>>
      PROVE  GraceInv'
  BY <1>1, <1>6, QuietKeeps
<1>7. ASSUME NEW o \in Watched, RemoveOperator(o) PROVE GraceInv' /\ LoopWorks'
  BY <1>3, <1>6, <1>7 DEF RemoveOperator, queueVars
<1>8. ASSUME UNCHANGED <<setting, spoke>>,
             \/ \E o \in Newcomers : Queue!Enqueue(o)
             \/ \E job \in Queue!Jobs : Queue!TimerFires(job)
             \/ Queue!LoopEnded
      PROVE  LoopWorks'
  <2>1. CASE setting[Loop].pc = "idle"
    BY <1>1, <1>8, <2>1 DEF LoopWorks
  <2>2. CASE memory.loop = "handling"
    <3>1. memory'.loop = "handling" /\ memory'.current = memory.current
      BY <1>1, <1>8, <2>2, OthersLeaveTheLoop DEF Queue!LoopEnded
    <3> QED
      BY <1>1, <1>8, <3>1 DEF LoopWorks
  <2> QED
    BY <1>1, <2>1, <2>2 DEF LoopWorks
<1>9. ASSUME NEW o \in Newcomers, CreateOperator(o) PROVE GraceInv' /\ LoopWorks'
  BY <1>6, <1>8, <1>9 DEF CreateOperator
<1>10. CASE QueueRuns
  BY <1>6, <1>8, <1>10 DEF QueueRuns
<1>11. ASSUME NEW p \in Setters, NEW o \in Watched, NEW v \in {"AVAILABLE", "OFFLINE"},
              OwnStart(p, o, v)
       PROVE  GraceInv' /\ LoopWorks'
  <2>1. SetStart(p, o, v) /\ p # Loop /\ spoke' = spoke \cup {o} /\ memory' = memory
    BY <1>11 DEF OwnStart, queueVars
  <2>2. o \in Operators
    BY WatchedAreOperators
  <2>3. PICK row \in StatusRows \cup {None} : setting' = [setting EXCEPT ![p] =
                        [pc |-> "save", by |-> o, to |-> v, row |-> row, found |-> {}]]
    BY <2>1 DEF SetStart
  <2>4. /\ setting'[p].pc = "save" /\ setting'[p].by = o
        /\ \A q \in Setters \ {p} : setting'[q] = setting[q]
    BY <1>1, <2>3 DEF GraceTypeOK
  <2>5. LoopWorks'
    BY <1>1, <2>1, <2>4 DEF LoopWorks
  <2> QED
    BY <1>1, <2>1, <2>2, <2>5, SetStartKeeps
<1>12. ASSUME NEW p \in Setters, OwnStatus(p) PROVE GraceInv' /\ LoopWorks'
  <2>1. p # Loop /\ UNCHANGED <<memory, spoke>>
    BY <1>12 DEF OwnStatus, queueVars
  <2>2. CASE SetStatus(p)
    BY <1>1, <2>1, <2>2, SetStatusKeeps, SetterMoves, LoopStays
  <2>3. CASE SetCrash(p)
    <3>1. setting'[p] = NoSetting /\ \A q \in Setters \ {p} : setting'[q] = setting[q]
      BY <1>1, <2>3 DEF SetCrash, GraceTypeOK
    <3> QED
      BY <1>1, <2>1, <2>3, <3>1, SetStatusKeeps, LoopStays
  <2> QED
    BY <1>12, <2>2, <2>3 DEF OwnStatus
<1>13. CASE AttemptStarts
  <2>1. /\ SetStart(Loop, memory.current.operator, "OFFLINE")
        /\ memory.loop = "handling" /\ UNCHANGED <<memory, spoke>>
    BY <1>13 DEF AttemptStarts, queueVars
  <2>2. PICK o \in Operators : o = memory.current.operator
    BY <1>13 DEF AttemptStarts, Staff
  <2>3. PICK row \in StatusRows \cup {None} : setting' = [setting EXCEPT ![Loop] =
                [pc |-> "save", by |-> o, to |-> "OFFLINE", row |-> row, found |-> {}]]
    BY <2>1, <2>2 DEF SetStart
  <2>4. /\ setting'[Loop].pc = "save" /\ setting'[Loop].by = o /\ setting'[Loop].to = "OFFLINE"
        /\ \A q \in Setters \ {Loop} : setting'[q] = setting[q]
    BY <1>1, <2>3 DEF GraceTypeOK
  <2>5. LoopWorks'
    BY <1>1, <2>1, <2>2, <2>4 DEF LoopWorks
  <2> QED
    BY <1>1, <2>1, <2>2, <2>5, SetStartKeeps
<1>14. CASE AttemptGoesOn
  <2>1. SetStatus(Loop) /\ spoke' = spoke
    BY <1>14 DEF AttemptGoesOn
  <2>2. setting'[Loop].pc # "idle" => memory' = memory
    BY <1>14 DEF AttemptGoesOn, queueVars, NoSetting
  <2>3. LoopWorks'
    BY <1>1, <2>1, <2>2, SetterMoves, LoopStays
  <2> QED
    BY <1>1, <2>1, <2>3, SetStatusKeeps
<1>15. CASE AttemptFails
  <2>1. /\ setting' = [setting EXCEPT ![Loop] = NoSetting] /\ spoke' = spoke
        /\ mixed' = IF setting[Loop] = NoSetting THEN mixed ELSE mixed \cup {setting[Loop].by}
        /\ UNCHANGED <<conv, call, raced, status, grace, sweep, crashes>>
    BY <1>15 DEF AttemptFails
  <2>2. setting'[Loop] = NoSetting /\ \A q \in Setters \ {Loop} : setting'[q] = setting[q]
    BY <1>1, <2>1 DEF GraceTypeOK
  <2>3. LoopWorks'
    <3>1. NoSetting.pc = "idle"
      BY DEF NoSetting
    <3> QED
      BY <1>1, <2>1, <2>2, <3>1, LoopStays
  <2>4. CASE setting[Loop] = NoSetting
    <3>1. setting' = setting
      BY <1>1, <2>1, <2>4 DEF GraceTypeOK
    <3> QED
      BY <1>6, <2>1, <2>3, <2>4, <3>1
  <2>5. CASE setting[Loop] # NoSetting
    <3>1. crashes' \in 0 .. MaxCrashes
      BY <1>1, <2>1 DEF GraceTypeOK
    <3> QED
      BY <1>1, <1>2, <2>1, <2>3, <2>5, <3>1, SettingLost
  <2> QED
    BY <2>4, <2>5
<1>16. CASE RestartProcess
  <2>1. LoopWorks'
    BY <1>16 DEF RestartProcess, LoopWorks, NoSetting
  <2> QED
    BY <1>1, <1>2, <1>16, <2>1, RestartKeeps
<1> QED
  BY <1>4, <1>5, <1>7, <1>9, <1>10, <1>11, <1>12, <1>13, <1>14, <1>15, <1>16
     DEF WorkNext, Attempt

LEMMA BaseAlways == WorkSpec => []WorkBase
<1>1. WorkBase /\ [WorkNext]_workVars => WorkBase'
  <2> SUFFICES ASSUME WorkBase, [WorkNext]_workVars PROVE WorkBase'
    OBVIOUS
  <2>1. Proved!QueueInv'
    BY StepIsQueueStep, Proved!StepKeepsQueueInv, MaxAttemptsIsPositive, MaxRestartsIsNat,
       NoneIsNoJob DEF WorkBase, Proved!vars, queueVars
  <2>2. CASE UNCHANGED workVars
    BY <2>1, <2>2, GraceInvStays DEF WorkBase, LoopWorks, workVars, queueVars, graceVars
  <2> QED
    BY <2>1, <2>2, BaseStep DEF WorkBase
<1> QED
  BY <1>1, BaseInitially, PTL DEF WorkSpec

\* Jobs that fail half-way, retries and restarts of the process leave what
\* GracePeriod promises of operators whose last request has been carried out.
THEOREM WorkforceKeepsGrace ==
  WorkSpec => [](GraceTypeOK /\ AvailableHasNoGrace /\ OfflineHasGrace /\ ReleasesAreOfOffline)
<1>1. WorkBase => GraceTypeOK /\ AvailableHasNoGrace /\ OfflineHasGrace /\ ReleasesAreOfOffline
  BY InvClearsAvailable, InvCoversOffline, InvReleasesOffline DEF WorkBase, GraceInv
<1> QED
  BY <1>1, BaseAlways, PTL

\* Nor do they touch what the service promises of conversations.
THEOREM WorkforceKeepsContract == WorkSpec => ImplementsLifecycle /\ WritesAreWhatWasChecked
<1>1. WorkInit => Lifecycle!Init
  BY InitialLifecycle DEF WorkInit, GraceInit
<1>2. WorkNext => GraceNext \/ UNCHANGED <<conv, raced>>
  BY DEF WorkNext, ServeStaff, OwnStart, SetStart, OwnStatus, SetStatus, SetSave, SetFind,
         SetUpsertGrace, SetDeleteGrace, SetCrash, Attempt, AttemptStarts, AttemptGoesOn,
         AttemptFails, QueueRuns, TimeAndSweeps, CreateOperator, RemoveOperator, RestartProcess,
         GraceNext
<1>3. ASSUME GraceInv, GraceNext
      PROVE  /\ [Lifecycle!Next]_<<conv, raced>>
             /\ conv' = conv \/ \A k \in Callers : WriteIsWhatWasChecked(k)
  BY <1>3, GraceKindsOfStep, StepIsLifecycleStep, StepWritesAsChecked DEF GraceInv
<1>4. conv' = conv => \A k \in Callers : WriteIsWhatWasChecked(k)
  BY DEF WriteIsWhatWasChecked
<1>5. WorkBase /\ [WorkNext]_workVars =>
        /\ [Lifecycle!Next]_<<conv, raced>>
        /\ [\A k \in Callers : WriteIsWhatWasChecked(k)]_storeVars
  BY <1>2, <1>3, <1>4 DEF WorkBase, workVars, graceVars
<1> QED
  BY <1>1, <1>5, WritesChecked, BaseAlways, PTL
     DEF WorkSpec, ImplementsLifecycle, Lifecycle!Spec

-----------------------------------------------------------------------------
(* Nobody but the operator changes his status when his job is over. *)

\* A status changes in SetSave only.
LEMMA StatusSteps ==
  ASSUME WorkBase, WorkNext
  PROVE  \/ UNCHANGED status
         \/ \E p \in Setters \ {Loop} : SetSave(p)
         \/ SetSave(Loop) /\ AttemptGoesOn
<1>1. ASSUME NEW p \in Setters, SetStatus(p), status' # status
      PROVE  SetSave(p)
  BY <1>1 DEF SetStatus, SetFind, SetUpsertGrace, SetDeleteGrace
<1>2. ASSUME NEW k \in Clients, ServeStaff(k) PROVE UNCHANGED status
  BY <1>2 DEF ServeStaff, Serving
<1>3. ASSUME NEW p \in Setters, NEW o \in Watched, NEW v \in {"AVAILABLE", "OFFLINE"},
             OwnStart(p, o, v)
      PROVE  UNCHANGED status
  BY <1>3 DEF OwnStart, SetStart
<1>4. ASSUME NEW p \in Setters, OwnStatus(p)
      PROVE  UNCHANGED status \/ (p # Loop /\ SetSave(p))
  BY <1>1, <1>4 DEF OwnStatus, SetCrash
<1>5. CASE Attempt
  BY <1>1, <1>5, LoopIsASetter DEF Attempt, AttemptStarts, AttemptGoesOn, AttemptFails, SetStart
<1>6. CASE QueueRuns \/ TimeAndSweeps \/ RestartProcess
           \/ (\E o \in Newcomers : CreateOperator(o)) \/ (\E o \in Watched : RemoveOperator(o))
  BY <1>6 DEF QueueRuns, TimeAndSweeps, RestartProcess, CreateOperator, RemoveOperator,
              GraceExpires, Sweep, SweepStart, SweepRead, SweepSave, SweepDelete, SweepCrash
<1> QED
  BY <1>2, <1>3, <1>4, <1>5, <1>6 DEF WorkNext

\* The job the loop carries out is that of a newcomer and is not over.
LEMMA LoopIsPending ==
  ASSUME WorkBase, setting[Loop].pc # "idle"
  PROVE  /\ setting[Loop].by \in Newcomers /\ setting[Loop].to = "OFFLINE"
         /\ outcome[setting[Loop].by] = "pending"
  BY Proved!HandledIsPending, MaxAttemptsIsPositive, MaxRestartsIsNat, NoneIsNoJob
     DEF WorkBase, LoopWorks

\* No retry outlives its job.
THEOREM OwnStatusStays == WorkSpec => StatusIsHisOwn
<1>1. ASSUME WorkBase, [WorkNext]_workVars, NEW o \in Operators,
             o \in Newcomers => outcome[o] # "pending",
             \A p \in Setters \ {Loop} : setting[p].by # o
      PROVE  status'[o] = status[o]
  <2>1. CASE UNCHANGED status
    BY <2>1
  <2>2. ASSUME NEW p \in Setters, SetSave(p), setting[p].by # o
        PROVE  status'[o] = status[o]
    BY <1>1, <2>2 DEF SetSave, WorkBase, GraceInv, GraceTypeOK
  <2>3. CASE SetSave(Loop)
    <3>1. setting[Loop].by # o
      BY <1>1, <2>3, LoopIsPending DEF SetSave
    <3> QED
      BY <2>2, <2>3, <3>1, LoopIsASetter
  <2> QED
    BY <1>1, <2>1, <2>2, <2>3, StatusSteps DEF workVars, graceVars
<1> DEFINE Own == \A o \in Operators :
              /\ o \in Newcomers => outcome[o] # "pending"
              /\ \A p \in Setters \ {Loop} : setting[p].by # o
              => status'[o] = status[o]
<1>2. WorkBase /\ [WorkNext]_workVars => [Own]_workVars
  BY <1>1
<1>3. StatusIsHisOwn <=> [][Own]_workVars
  BY DEF StatusIsHisOwn
<1> QED
  BY <1>2, <1>3, BaseAlways, PTL DEF WorkSpec

-----------------------------------------------------------------------------
(* The first status of a newcomer who has not sent a request himself.  The  *)
(* argument is that of GracePeriodProofs, and simpler: from the first row   *)
(* on he is OFFLINE, so that whatever failed attempts leave behind helps.   *)

\* Something that is only there when he is OFFLINE.
Touched(o) ==
  \/ \E e \in Entries : e[2] = o /\ grace[e] # "none"
  \/ \E s \in Sweepers : \E e \in ListedBy(s) : e[2] = o
  \/ setting[Loop].by = o /\ setting[Loop].pc \in {"find", "upsert"}
  \/ outcome[o] = "done"

Fresh(o) ==
  /\ Touched(o) => Offline(o)
  /\ \A s \in Sweepers : \A e \in ListedBy(s) :
       e[2] = o /\ sweep[s].pc = "entry" /\ sweep[s].entry = e /\ call[s] = Idle =>
         ~Due(o, e[1])
  /\ setting[Loop].by = o /\ setting[Loop].pc = "upsert" =>
       \A c \in Conversations : Due(o, c) => c \in setting[Loop].found
  /\ outcome[o] = "done" =>
       \A c \in Conversations : Due(o, c) => grace[<<c, o>>] # "none"

FirstInv == WorkBase /\ \A o \in Newcomers \ spoke : Fresh(o)

LEMMA ListedAreEntries ==
  ASSUME GraceInv, NEW s \in Sweepers, NEW e \in ListedBy(s)
  PROVE  e \in Entries /\ e[1] \in Conversations /\ e[2] \in Operators /\ e = <<e[1], e[2]>>
  BY DEF GraceInv, GraceTypeOK, ListedBy, Entries

\* While he is OFFLINE he gets no conversation but late; while he is not, there
\* is nothing to be kept.
LEMMA FreshFrame ==
  ASSUME GraceInv, GraceInv', Watch, raced \subseteq raced',
         NEW o \in Operators, Fresh(o), status'[o] = status[o],
         \A e \in Entries : e[2] = o /\ grace'[e] # "none" => grace[e] # "none",
         \A e \in Entries :
           e[2] = o /\ grace[e] # "none" /\ grace'[e] = "none" => ~Due(o, e[1]),
         \A s \in Sweepers : \A e \in ListedBy(s)' :
           e[2] = o => e \in ListedBy(s) \/ (e \in Entries /\ grace[e] # "none"),
         \A s \in Sweepers : \A e \in ListedBy(s)' :
           e[2] = o /\ sweep'[s].pc = "entry" /\ sweep'[s].entry = e /\ call'[s] = Idle =>
             \/ e \in ListedBy(s) /\ sweep[s].pc = "entry" /\ sweep[s].entry = e /\ call[s] = Idle
             \/ ~Due(o, e[1])',
         setting'[Loop] = setting[Loop] \/ setting'[Loop].by # o \/ setting'[Loop].pc \in {"idle", "save"},
         outcome'[o] = "done" => outcome[o] = "done"
  PROVE  Fresh(o)'
<1>1. Offline(o)' <=> Offline(o)
  BY DEF Offline
<1>2. Touched(o)' => Touched(o)
  BY DEF Touched
<1>3. Touched(o) => Offline(o)
  BY DEF Fresh
<1>4. \A c \in Conversations : Touched(o)' /\ Due(o, c)' => Due(o, c)
  BY <1>2, <1>3, WatchLemma DEF GraceInv, IInv
<1>5. ASSUME NEW s \in Sweepers, NEW e \in ListedBy(s)', e[2] = o, sweep'[s].pc = "entry",
             sweep'[s].entry = e, call'[s] = Idle
      PROVE  ~Due(o, e[1])'
  <2>1. Touched(o)'
    BY <1>5 DEF Touched
  <2>2. CASE e \in ListedBy(s) /\ sweep[s].pc = "entry" /\ sweep[s].entry = e /\ call[s] = Idle
    <3>1. ~Due(o, e[1]) /\ e[1] \in Conversations
      BY <1>5, <2>2, ListedAreEntries DEF Fresh
    <3> QED
      BY <1>4, <2>1, <3>1
  <2> QED
    BY <1>5, <2>2
<1>6. ASSUME setting'[Loop].by = o, setting'[Loop].pc = "upsert", NEW c \in Conversations, Due(o, c)'
      PROVE  c \in setting'[Loop].found
  <2>1. Touched(o)'
    BY <1>6 DEF Touched
  <2> QED
    BY <1>4, <1>6, <2>1 DEF Fresh
<1>7. ASSUME outcome'[o] = "done", NEW c \in Conversations, Due(o, c)'
      PROVE  grace'[<<c, o>>] # "none"
  <2>1. Due(o, c)
    BY <1>4, <1>7 DEF Touched
  <2>2. grace[<<c, o>>] # "none"
    BY <1>7, <2>1 DEF Fresh
  <2>3. <<c, o>> \in Entries
    BY DEF Entries
  <2> QED
    BY <2>1, <2>2, <2>3
<1> QED
  BY <1>1, <1>2, <1>3, <1>5, <1>6, <1>7 DEF Fresh

\* A step that has to do with none of his.
LEMMA FreshQuiet ==
  ASSUME GraceInv, GraceInv', Watch, NEW o \in Operators, Fresh(o),
         UNCHANGED <<conv, raced, call>>, status'[o] = status[o],
         \A e \in Entries : e[2] = o => grace'[e] = grace[e],
         \A s \in Sweepers : /\ sweep'[s].pc = sweep[s].pc
                             /\ sweep'[s].entry = sweep[s].entry
                             /\ ListedBy(s)' \subseteq ListedBy(s),
         setting'[Loop] = setting[Loop] \/ setting'[Loop].by # o \/ setting'[Loop].pc \in {"idle", "save"},
         outcome'[o] = "done" => outcome[o] = "done"
  PROVE  Fresh(o)'
  BY FreshFrame

\* A job is done by JobDone only.
LEMMA OutcomesStay ==
  ASSUME WorkBase, NEW o \in Newcomers, outcome'[o] = "done",
         \/ outcome' = outcome
         \/ \E u \in Newcomers : Queue!Enqueue(u)
         \/ \E job \in Queue!Jobs : Queue!TimerFires(job)
         \/ Queue!LoopEnded \/ Queue!JobFailed \/ Queue!Restart
         \/ Queue!JobDone /\ memory.current.operator # o
  PROVE  outcome[o] = "done"
<1>1. outcome \in [Newcomers -> {"new", "pending", "done", "dropped", "lost"}]
  BY DEF WorkBase, Proved!QueueInv, Proved!Histories
<1> QED
  BY <1>1 DEF Queue!Enqueue, Queue!TimerFires, Queue!LoopEnded, Queue!JobFailed, Queue!RetryLater,
              Queue!Drop, Queue!Restart, Queue!JobDone

\* An AVAILABLE request takes entries from the sweeps.
LEMMA DeleteShrinks ==
  ASSUME GraceTypeOK, NEW p \in Setters, SetDeleteGrace(p), NEW s \in Sweepers
  PROVE  /\ sweep'[s].pc = sweep[s].pc
         /\ sweep'[s].entry = sweep[s].entry
         /\ ListedBy(s)' \subseteq ListedBy(s)
<1>1. PICK gone \in SUBSET Entries : gone = {e \in Entries : e[2] = setting[p].by}
  OBVIOUS
<1>2. sweep'[s] = IF sweep[s].pc = "idle" THEN sweep[s]
                  ELSE [sweep[s] EXCEPT !.gone = @ \cup gone]
  BY <1>1 DEF SetDeleteGrace
<1>3. CASE sweep[s].pc = "idle"
  BY <1>2, <1>3 DEF ListedBy
<1>4. CASE sweep[s].pc # "idle"
  <2>1. /\ sweep'[s].pc = sweep[s].pc /\ sweep'[s].entry = sweep[s].entry
        /\ sweep'[s].todo = sweep[s].todo /\ sweep'[s].gone = sweep[s].gone \cup gone
    BY <1>2, <1>4 DEF GraceTypeOK
  <2> QED
    BY <1>4, <2>1 DEF ListedBy
<1> QED
  BY <1>3, <1>4

\* A request of another operator.
LEMMA OthersKeepFresh ==
  ASSUME WorkBase, GraceInv', Watch, NEW p \in Setters, SetStatus(p) \/ SetCrash(p),
         NEW o \in Newcomers, Fresh(o), setting[p].by # o,
         outcome'[o] = "done" => outcome[o] = "done"
  PROVE  Fresh(o)'
<1>1. GraceInv /\ GraceTypeOK /\ o \in Operators
  BY NewcomersAreOperators DEF WorkBase, GraceInv
<1>2. setting'[Loop] = setting[Loop] \/ setting'[Loop].by # o \/ setting'[Loop].pc \in {"idle", "save"}
  <2>1. CASE SetStatus(p)
    BY <1>1, <2>1, SetterMoves, LoopIsASetter DEF NoSetting
  <2>2. CASE SetCrash(p)
    BY <1>1, <2>2, LoopIsASetter DEF SetCrash, GraceTypeOK, NoSetting
  <2> QED
    BY <2>1, <2>2
<1>3. UNCHANGED <<conv, raced, call>>
  BY DEF SetStatus, SetSave, SetFind, SetUpsertGrace, SetDeleteGrace, SetCrash
<1>4. status'[o] = status[o]
  BY <1>1 DEF SetStatus, SetSave, SetFind, SetUpsertGrace, SetDeleteGrace, SetCrash, GraceTypeOK
<1>5. \A e \in Entries : e[2] = o => grace'[e] = grace[e]
  BY DEF SetStatus, SetSave, SetFind, SetUpsertGrace, SetDeleteGrace, SetCrash
<1>6. \A s \in Sweepers : /\ sweep'[s].pc = sweep[s].pc
                          /\ sweep'[s].entry = sweep[s].entry
                          /\ ListedBy(s)' \subseteq ListedBy(s)
  <2>1. CASE SetDeleteGrace(p)
    BY <1>1, <2>1, DeleteShrinks
  <2>2. CASE sweep' = sweep
    BY <2>2 DEF ListedBy
  <2> QED
    BY <2>1, <2>2 DEF SetStatus, SetSave, SetFind, SetUpsertGrace, SetCrash
<1> QED
  BY <1>1, <1>2, <1>3, <1>4, <1>5, <1>6, FreshQuiet

\* Sweeps release what he had when their entries expired, and nothing else.
LEMMA SweepsKeepFresh ==
  ASSUME WorkBase, GraceInv', TimeAndSweeps, Watch, NEW o \in Newcomers, Fresh(o)
  PROVE  Fresh(o)'
<1>1. GraceInv /\ GraceTypeOK /\ o \in Operators /\ Sweepers \subseteq Callers
  BY NewcomersAreOperators, CallersAreClientsAndSweepers DEF WorkBase, GraceInv
<1>2. outcome'[o] = "done" => outcome[o] = "done"
  BY DEF TimeAndSweeps, queueVars
<1>3. ASSUME NEW e \in Entries, GraceExpires(e) PROVE Fresh(o)'
  <2>1. /\ UNCHANGED <<conv, call, raced, status, setting, sweep>>
        /\ \A f \in Entries : grace'[f] # "none" <=> grace[f] # "none"
    BY <1>1, <1>3 DEF GraceExpires, GraceTypeOK
  <2>2. \A s \in Sweepers : ListedBy(s)' = ListedBy(s)
    BY <2>1 DEF ListedBy
  <2> QED
    BY <1>1, <1>2, <2>1, <2>2, FreshFrame
<1>4. ASSUME NEW s \in Sweepers, SweepStart(s) PROVE Fresh(o)'
  <2>1. /\ UNCHANGED <<conv, call, raced, status, grace, setting>>
        /\ sweep' = [sweep EXCEPT ![s] = [NoSweep EXCEPT !.pc = "list", !.todo = Expired]]
    BY <1>4 DEF SweepStart
  <2>2. sweep'[s] = [pc |-> "list", todo |-> Expired, entry |-> <<>>, gone |-> {}]
    BY <1>1, <2>1 DEF GraceTypeOK, NoSweep
  <2>3. \A e \in ListedBy(s)' : e \in Entries /\ grace[e] # "none"
    BY <2>2 DEF ListedBy, Expired
  <2>4. \A t \in Sweepers \ {s} : sweep'[t] = sweep[t] /\ ListedBy(t)' = ListedBy(t)
    BY <1>1, <2>1 DEF GraceTypeOK, ListedBy
  <2> QED
    BY <1>1, <1>2, <2>1, <2>2, <2>3, <2>4, FreshFrame
<1>5. ASSUME NEW s \in Sweepers, SweepRead(s) PROVE Fresh(o)'
  <2>1. PICK e \in sweep[s].todo :
          /\ sweep' = [sweep EXCEPT ![s].pc = "entry", ![s].entry = e, ![s].todo = @ \ {e}]
          /\ IF Owns(e[2], e[1])
               THEN Read(s, "sweep", e[2], e[1], Row("QUEUED", None, conv[e[1]].inbox))
               ELSE UNCHANGED <<conv, call, raced>>
    BY <1>5 DEF SweepRead
  <2>2. UNCHANGED <<conv, status, grace, setting>> /\ sweep[s].pc = "list" /\ s \in Callers
    BY <1>1, <1>5, <2>1 DEF SweepRead, Read
  <2>3. /\ sweep'[s].pc = "entry" /\ sweep'[s].entry = e /\ sweep'[s].gone = sweep[s].gone
        /\ sweep'[s].todo = sweep[s].todo \ {e}
        /\ \A t \in Sweepers \ {s} : sweep'[t] = sweep[t]
    BY <1>1, <2>1 DEF GraceTypeOK
  <2>4. /\ raced \subseteq raced'
        /\ \A t \in Sweepers \ {s} : call'[t] = call[t]
        /\ call'[s] = Idle => ~Owns(e[2], e[1])
    BY <1>1, <2>1, <2>2 DEF Read, Idle, GraceTypeOK, TypeOK
  <2>5. ListedBy(s)' \subseteq ListedBy(s)
    BY <2>1, <2>2, <2>3 DEF ListedBy
  <2>6. \A t \in Sweepers \ {s} : ListedBy(t)' = ListedBy(t)
    BY <2>3 DEF ListedBy
  <2>7. call'[s] = Idle => ~Due(e[2], e[1])'
    BY <2>2, <2>4 DEF Due, Owns
  <2>8. \A t \in Sweepers : \A f \in ListedBy(t)' :
          /\ f \in ListedBy(t)
          /\ f[2] = o /\ sweep'[t].pc = "entry" /\ sweep'[t].entry = f /\ call'[t] = Idle =>
               \/ sweep[t].pc = "entry" /\ sweep[t].entry = f /\ call[t] = Idle
               \/ ~Due(o, f[1])'
    BY <2>3, <2>4, <2>5, <2>6, <2>7
  <2> QED
    BY <1>1, <1>2, <2>2, <2>4, <2>8, FreshFrame
<1>6. ASSUME NEW s \in Sweepers, SweepSave(s) PROVE Fresh(o)'
  <2>1. PICK e : e = sweep[s].entry
    OBVIOUS
  <2>2. /\ raced' = raced /\ \A t \in Sweepers \ {s} : call'[t] = call[t]
        /\ call'[s] = Idle => ~Due(e[2], e[1])'
    BY <1>1, <1>6, <2>1, SweepSaveFrees
  <2>3. UNCHANGED <<status, grace, setting, sweep>> /\ \A t \in Sweepers : ListedBy(t)' = ListedBy(t)
    BY <1>6 DEF SweepSave, ListedBy
  <2> QED
    BY <1>1, <1>2, <2>1, <2>2, <2>3, FreshFrame
<1>7. ASSUME NEW s \in Sweepers, SweepDelete(s) PROVE Fresh(o)'
  <2>1. PICK e \in Entries : e = sweep[s].entry
    BY <1>1, <1>7 DEF SweepDelete, GraceInv, SweepsRelease
  <2>2. /\ UNCHANGED <<conv, call, raced, status, setting>>
        /\ sweep[s].pc = "entry" /\ call[s] = Idle
        /\ grace' = [grace EXCEPT ![e] = IF e \in sweep[s].gone THEN @ ELSE "none"]
        /\ sweep' = [t \in Sweepers |->
                 IF t = s
                   THEN IF sweep[s].todo = {} THEN NoSweep
                        ELSE [sweep[s] EXCEPT !.pc = "list", !.entry = <<>>]
                 ELSE IF sweep[t].pc = "idle" \/ e \in sweep[s].gone THEN sweep[t]
                 ELSE [sweep[t] EXCEPT !.gone = @ \cup {e}]]
    BY <1>7, <2>1 DEF SweepDelete
  <2>3. sweep'[s].pc # "entry" /\ ListedBy(s)' \subseteq ListedBy(s)
    BY <1>1, <2>2 DEF GraceTypeOK, ListedBy, NoSweep
  <2>4. ASSUME NEW t \in Sweepers \ {s}
        PROVE  /\ sweep'[t].pc = sweep[t].pc /\ sweep'[t].entry = sweep[t].entry
               /\ ListedBy(t)' \subseteq ListedBy(t)
    BY <1>1, <2>2 DEF GraceTypeOK, ListedBy
  <2>5. /\ \A f \in Entries : grace'[f] # "none" => grace[f] # "none"
        /\ \A f \in Entries : grace[f] # "none" /\ grace'[f] = "none" =>
             f = e /\ e \in ListedBy(s)
    BY <1>1, <2>1, <2>2 DEF GraceTypeOK, ListedBy
  <2>6. \A f \in Entries : f[2] = o /\ grace[f] # "none" /\ grace'[f] = "none" => ~Due(o, f[1])
    BY <2>1, <2>2, <2>5 DEF Fresh
  <2>7. \A t \in Sweepers : \A f \in ListedBy(t)' :
          /\ f \in ListedBy(t)
          /\ sweep'[t].pc = "entry" /\ sweep'[t].entry = f => sweep[t].pc = "entry" /\ sweep[t].entry = f
    BY <2>3, <2>4
  <2>8. \A f \in Entries : f[2] = o /\ grace'[f] # "none" => grace[f] # "none"
    BY <2>5
  <2> QED
    BY <1>1, <1>2, <2>2, <2>6, <2>7, <2>8, FreshFrame
<1>8. ASSUME NEW s \in Sweepers, SweepCrash(s) PROVE Fresh(o)'
  <2>1. /\ UNCHANGED <<conv, raced, status, grace, setting>>
        /\ sweep'[s] = NoSweep /\ call'[s] = Idle
        /\ \A t \in Sweepers \ {s} : sweep'[t] = sweep[t] /\ call'[t] = call[t]
    BY <1>1, <1>8 DEF SweepCrash, Finish, GraceTypeOK, TypeOK
  <2>2. ListedBy(s)' = {}
    BY <2>1 DEF ListedBy, NoSweep
  <2>3. \A t \in Sweepers \ {s} : ListedBy(t)' = ListedBy(t)
    BY <2>1 DEF ListedBy
  <2> QED
    BY <1>1, <1>2, <2>1, <2>2, <2>3, FreshFrame
<1> QED
  BY <1>3, <1>4, <1>5, <1>6, <1>7, <1>8 DEF TimeAndSweeps, Sweep

\* An attempt of his own job: the status comes first, then the conversations are
\* looked for, then they all get an entry.
LEMMA AttemptKeepsFresh ==
  ASSUME WorkBase, GraceInv', AttemptGoesOn, Watch, NEW o \in Newcomers, Fresh(o)
  PROVE  Fresh(o)'
<1>1. GraceInv /\ GraceTypeOK /\ o \in Operators /\ SetStatus(Loop) /\ Loop \in Setters
  BY NewcomersAreOperators, LoopIsASetter DEF WorkBase, GraceInv, AttemptGoesOn
<1>2. setting[Loop].pc # "idle"
  BY <1>1, SetterMoves
<1>3. /\ setting[Loop].to = "OFFLINE" /\ outcome[setting[Loop].by] = "pending"
      /\ setting[Loop].by = memory.current.operator
  BY <1>2, LoopIsPending DEF WorkBase, LoopWorks
<1>4. \/ outcome' = outcome
      \/ Queue!JobDone
      \/ Queue!JobFailed
  BY DEF AttemptGoesOn, queueVars, Queue!HandleJob
<1>5. setting'[Loop].pc # "idle" => outcome' = outcome
  BY DEF AttemptGoesOn, queueVars, NoSetting
<1>6. CASE setting[Loop].by # o
  BY <1>1, <1>3, <1>4, <1>6, OthersKeepFresh, OutcomesStay
<1> SUFFICES ASSUME setting[Loop].by = o PROVE Fresh(o)'
  BY <1>6
<1>7. ASSUME UNCHANGED <<conv, raced>>, NEW c \in Conversations, Due(o, c)' PROVE Due(o, c)
  BY <1>1, <1>7, WatchQuiet DEF GraceInv, IInv
<1>8. ASSUME UNCHANGED <<conv, call, raced, sweep>>,
             NEW s \in Sweepers, NEW e \in ListedBy(s)', e[2] = o, sweep'[s].pc = "entry",
             sweep'[s].entry = e, call'[s] = Idle
      PROVE  ~Due(o, e[1])'
  <2>1. e \in ListedBy(s)
    BY <1>8 DEF ListedBy
  <2>2. ~Due(o, e[1]) /\ e[1] \in Conversations
    BY <1>1, <1>8, <2>1, ListedAreEntries DEF Fresh
  <2> QED
    BY <1>7, <1>8, <2>2
<1>9. CASE SetSave(Loop)
  <2>1. /\ UNCHANGED <<conv, call, raced, grace, sweep>>
        /\ setting'[Loop].pc = "find"
        /\ \E row \in StatusRows : status' = [status EXCEPT ![o][row] = "OFFLINE"]
    BY <1>1, <1>3, <1>9 DEF SetSave, GraceTypeOK
  <2>2. Offline(o)'
    BY <1>1, <2>1 DEF Offline, GraceTypeOK
  <2>3. outcome'[o] = "pending"
    BY <1>3, <1>5, <2>1
  <2> QED
    BY <1>8, <2>1, <2>2, <2>3 DEF Fresh
<1>10. CASE SetFind(Loop)
  <2>1. PICK found : found = {c \in Conversations : Owns(o, c)}
    OBVIOUS
  <2>2. /\ UNCHANGED <<conv, call, raced, status, grace, sweep>> /\ setting[Loop].pc = "find"
        /\ setting' = [setting EXCEPT ![Loop] =
              IF found = {} THEN NoSetting ELSE [@ EXCEPT !.pc = "upsert", !.found = found]]
    BY <1>10, <2>1 DEF SetFind
  <2>3. Offline(o)'
    BY <2>2 DEF Fresh, Touched, Offline
  <2>4. \A c \in Conversations : Due(o, c)' => c \in found
    BY <1>7, <2>1, <2>2 DEF Due
  <2>5. CASE found = {}
    <3>1. setting'[Loop].pc = "idle"
      BY <1>1, <2>2, <2>5 DEF GraceTypeOK, NoSetting
    <3> QED
      BY <1>8, <2>2, <2>3, <2>4, <2>5, <3>1 DEF Fresh
  <2>6. CASE found # {}
    <3>1. setting'[Loop].pc = "upsert" /\ setting'[Loop].found = found
      BY <1>1, <2>2, <2>6 DEF GraceTypeOK
    <3>2. outcome'[o] = "pending"
      BY <1>3, <1>5, <3>1
    <3> QED
      BY <1>8, <2>2, <2>3, <2>4, <3>1, <3>2 DEF Fresh
  <2> QED
    BY <2>5, <2>6
<1>11. CASE SetUpsertGrace(Loop)
  <2>1. /\ UNCHANGED <<conv, call, raced, status, sweep>> /\ setting[Loop].pc = "upsert"
        /\ setting'[Loop].pc = "idle"
        /\ \A e \in Entries : e[1] \in setting[Loop].found /\ e[2] = o => grace'[e] = "running"
    BY <1>1, <1>11 DEF SetUpsertGrace, GraceTypeOK, NoSetting
  <2>2. Offline(o)'
    BY <2>1 DEF Fresh, Touched, Offline
  <2>3. ASSUME NEW c \in Conversations, Due(o, c)' PROVE grace'[<<c, o>>] # "none"
    <3>1. c \in setting[Loop].found
      BY <1>7, <2>1, <2>3 DEF Fresh
    <3>2. <<c, o>> \in Entries
      BY <1>1 DEF Entries
    <3> QED
      BY <2>1, <3>1, <3>2
  <2> QED
    BY <1>8, <2>1, <2>2, <2>3 DEF Fresh
<1>12. ~SetDeleteGrace(Loop)
  BY <1>1, <1>3 DEF SetDeleteGrace, GraceInv, Phases, Phase
<1> QED
  BY <1>1, <1>9, <1>10, <1>11, <1>12 DEF SetStatus

LEMMA FreshStep ==
  ASSUME WorkBase, GraceInv', WorkNext, NEW o \in Newcomers \ spoke, o \notin spoke', Fresh(o)
  PROVE  Fresh(o)'
<1>1. /\ GraceInv /\ GraceTypeOK /\ TypeOK /\ o \in Operators /\ LoopWorks /\ Watch
      /\ Sweepers \subseteq Callers /\ Loop \in Setters
  BY NewcomersAreOperators, CallersAreClientsAndSweepers, LoopIsASetter
     DEF WorkBase, GraceInv, IInv, WorkNext
<1>2. \A p \in Setters \ {Loop} : setting[p].pc # "idle" => setting[p].by # o
  BY <1>1 DEF LoopWorks
<1>3. ASSUME UNCHANGED <<conv, call, raced, status, grace, sweep>>,
             setting'[Loop] = setting[Loop] \/ setting'[Loop].pc \in {"idle", "save"},
             outcome'[o] = "done" => outcome[o] = "done"
      PROVE  Fresh(o)'
  <2>1. \A s \in Sweepers : ListedBy(s)' = ListedBy(s)
    BY <1>3 DEF ListedBy
  <2> QED
    BY <1>1, <1>3, <2>1, FreshQuiet
<1>4. ASSUME NEW k \in Clients, ServeStaff(k) PROVE Fresh(o)'
  <2>1. /\ UNCHANGED <<status, grace, setting, sweep, outcome>> /\ Handle(k)
        /\ k \in Callers /\ k \notin Sweepers
    BY <1>4, CallersAreClientsAndSweepers DEF ServeStaff, Serving, queueVars
  <2>2. raced \subseteq raced' /\ \A s \in Sweepers : call'[s] = call[s]
    BY <1>1, <2>1, HandleEffect DEF GraceInv
  <2>3. \A s \in Sweepers : ListedBy(s)' = ListedBy(s)
    BY <2>1 DEF ListedBy
  <2> QED
    BY <1>1, <2>1, <2>2, <2>3, FreshFrame
<1>5. ASSUME NEW p \in Setters, NEW u \in Watched, NEW v \in {"AVAILABLE", "OFFLINE"},
             OwnStart(p, u, v)
      PROVE  Fresh(o)'
  <2>1. /\ UNCHANGED <<conv, call, raced, status, grace, sweep, outcome>>
        /\ setting'[Loop] = setting[Loop]
    BY <1>1, <1>5 DEF OwnStart, SetStart, queueVars, GraceTypeOK
  <2> QED
    BY <1>3, <2>1
<1>6. ASSUME NEW p \in Setters, OwnStatus(p) PROVE Fresh(o)'
  <2>1. (SetStatus(p) \/ SetCrash(p)) /\ p # Loop /\ outcome' = outcome
    BY <1>6 DEF OwnStatus, queueVars
  <2>2. setting[p].pc # "idle"
    BY <2>1 DEF SetStatus, SetSave, SetFind, SetUpsertGrace, SetDeleteGrace, SetCrash
  <2> QED
    BY <1>1, <1>2, <2>1, <2>2, OthersKeepFresh
<1>7. CASE AttemptStarts
  <2>1. PICK u, row : setting' = [setting EXCEPT ![Loop] =
                        [pc |-> "save", by |-> u, to |-> "OFFLINE", row |-> row, found |-> {}]]
    BY <1>7 DEF AttemptStarts, SetStart
  <2>2. setting'[Loop].pc = "save"
    BY <1>1, <2>1 DEF GraceTypeOK
  <2>3. UNCHANGED <<conv, call, raced, status, grace, sweep, outcome>>
    BY <1>7 DEF AttemptStarts, SetStart, queueVars
  <2> QED
    BY <1>3, <2>2, <2>3
<1>8. CASE AttemptGoesOn
  BY <1>1, <1>8, AttemptKeepsFresh
<1>9. CASE AttemptFails
  <2>1. /\ UNCHANGED <<conv, call, raced, status, grace, sweep>> /\ Queue!JobFailed
        /\ setting'[Loop].pc = "idle"
    BY <1>1, <1>9 DEF AttemptFails, GraceTypeOK, NoSetting
  <2> QED
    BY <1>3, <2>1, OutcomesStay
<1>10. CASE QueueRuns \/ (\E u \in Newcomers : CreateOperator(u))
  <2>1. /\ UNCHANGED <<conv, call, raced, status, grace, sweep, setting>>
        /\ \/ \E u \in Newcomers : Queue!Enqueue(u)
           \/ \E job \in Queue!Jobs : Queue!TimerFires(job)
           \/ Queue!LoopEnded
    BY <1>10 DEF QueueRuns, CreateOperator
  <2> QED
    BY <1>3, <2>1, OutcomesStay
<1>11. ASSUME NEW u \in Watched, RemoveOperator(u) PROVE Fresh(o)'
  BY <1>3, <1>11 DEF RemoveOperator, queueVars
<1>12. CASE TimeAndSweeps
  BY <1>1, <1>12, SweepsKeepFresh
<1>13. CASE RestartProcess
  <2>1. /\ UNCHANGED <<conv, raced, status, grace>> /\ Queue!Restart
        /\ \A s \in Sweepers : sweep'[s] = NoSweep
        /\ setting'[Loop] = NoSetting
    BY <1>1, <1>13 DEF RestartProcess
  <2>2. setting'[Loop].pc = "idle" /\ \A s \in Sweepers : sweep'[s].pc = "idle"
    BY <2>1 DEF NoSetting, NoSweep
  <2>3. \A s \in Sweepers : ListedBy(s)' = {}
    BY <2>2 DEF ListedBy
  <2>4. outcome'[o] = "done" => outcome[o] = "done"
    BY <2>1, OutcomesStay
  <2> QED
    BY <1>1, <2>1, <2>2, <2>3, <2>4, FreshFrame
<1> QED
  BY <1>4, <1>5, <1>6, <1>7, <1>8, <1>9, <1>10, <1>11, <1>12, <1>13 DEF WorkNext, Attempt

LEMMA SpokeGrows ==
  ASSUME [WorkNext]_workVars
  PROVE  spoke \subseteq spoke'
  BY DEF WorkNext, workVars, ServeStaff, OwnStart, OwnStatus, Attempt, AttemptStarts, AttemptGoesOn,
         AttemptFails, QueueRuns, TimeAndSweeps, CreateOperator, RemoveOperator, RestartProcess

LEMMA FreshInitially == WorkInit => \A o \in Newcomers : Fresh(o)
<1> SUFFICES ASSUME WorkInit, NEW o \in Newcomers PROVE Fresh(o)
  OBVIOUS
<1>1. /\ \A e \in Entries : grace[e] = "none"
      /\ \A s \in Sweepers : ListedBy(s) = {}
      /\ setting[Loop].pc = "idle"
      /\ outcome[o] = "new"
  BY LoopIsASetter DEF WorkInit, GraceInit, Queue!Init, NoSetting, NoSweep, ListedBy
<1> QED
  BY <1>1 DEF Fresh, Touched

\* Whatever attempts failed half-way, retried among sweeps and requests: when
\* the job of a new operator is done, his first status is complete.
THEOREM FirstStatusHolds == WorkSpec => []FirstStatusIsWhole
<1>1. FirstInv => FirstStatusIsWhole
  <2> SUFFICES ASSUME FirstInv, NEW o \in Newcomers \ spoke, NEW c \in Conversations,
                      outcome[o] = "done"
               PROVE  Offline(o) /\ (Owns(o, c) /\ c \notin raced \cup late => grace[<<c, o>>] # "none")
    BY DEF FirstStatusIsWhole
  <2> QED
    BY DEF FirstInv, Fresh, Touched, Due
<1>2. WorkInit => FirstInv
  BY BaseInitially, FreshInitially DEF FirstInv
<1>3. FirstInv /\ WorkBase' /\ [WorkNext]_workVars => FirstInv'
  <2> SUFFICES ASSUME FirstInv, WorkBase', [WorkNext]_workVars PROVE FirstInv'
    OBVIOUS
  <2>1. ASSUME NEW o \in Newcomers \ spoke, o \notin spoke' PROVE Fresh(o)'
    <3>1. CASE WorkNext
      BY <2>1, <3>1, FreshStep DEF FirstInv, WorkBase
    <3>2. CASE UNCHANGED workVars
      BY <2>1, <3>2 DEF FirstInv, Fresh, Touched, ListedBy, Offline, Due, Owns, workVars, queueVars,
                        graceVars
    <3> QED
      BY <3>1, <3>2
  <2> QED
    BY <2>1, SpokeGrows DEF FirstInv
<1> QED
  BY <1>1, <1>2, <1>3, BaseAlways, PTL DEF WorkSpec

-----------------------------------------------------------------------------
(* Service: subscriptions come and go as well. *)

\* A conversation that is late is with somebody.
LateAreHeld == \A c \in late : c \in Conversations /\ conv[c].state = "ALLOCATED"

LEMMA WatchKeepsHeld == Watch => LateAreHeld'
  BY DEF Watch, LateAreHeld

\* While the rows stay as they are, so does who is late.
LEMMA NothingNewIsLate ==
  ASSUME LateAreHeld, Watch, UNCHANGED conv
  PROVE  late' = late
<1>1. \A c \in Conversations : conv[c].state = "ALLOCATED" => Owns(conv'[c].assignee, c)
  BY DEF Owns
<1>2. \A c \in Conversations : c \in late' <=> conv[c].state = "ALLOCATED" /\ c \in late
  BY <1>1 DEF Watch
<1>3. late' \subseteq Conversations /\ late \subseteq Conversations
  BY DEF Watch, LateAreHeld
<1> QED
  BY <1>2, <1>3 DEF LateAreHeld

\* A refused request ends as one that is lost.
LEMMA ListingIsWork ==
  ASSUME LateAreHeld, Watch, NEW k \in Clients, ListForRequest(k)
  PROVE  WorkNext \/ UNCHANGED workVars
<1>1. /\ ListSubscriptions(k)
      /\ UNCHANGED <<status, grace, setting, sweep, crashes, mixed, queueVars, removed, spoke>>
  BY DEF ListForRequest
<1>2. UNCHANGED <<conv, raced>> /\ call[k] # Idle /\ call[k].pc # "idle"
  BY <1>1 DEF ListSubscriptions, MustList, Idle
<1>3. CASE UNCHANGED call
  BY <1>1, <1>2, <1>3, NothingNewIsLate DEF workVars, graceVars
<1>4. CASE Finish(k)
  <2>1. Handle(k)
    BY <1>2, <1>4 DEF Handle, Crash
  <2>2. ServeStaff(k)
    BY <1>1, <1>2, <2>1 DEF ServeStaff, Serving, EnsureOperatorAvailable
  <2> QED
    BY <2>2 DEF WorkNext
<1> QED
  BY <1>1, <1>3, <1>4 DEF ListSubscriptions

LEMMA ServiceStepIsWorkStep ==
  ASSUME LateAreHeld, [ServiceNext]_serviceVars
  PROVE  [WorkNext]_workVars
<1>1. ASSUME NEW k \in Clients, ServeSubscribed(k), Watch PROVE WorkNext
  BY <1>1 DEF ServeSubscribed, WorkNext
<1>2. ASSUME NEW o, NEW i, ChangeSubscription(o, i), Watch PROVE UNCHANGED workVars
  BY <1>2, NothingNewIsLate
     DEF ChangeSubscription, CreateSubscription, RemoveSubscription, workVars, graceVars
<1>3. ASSUME WorkUnsubscribed \/ RestartService, Watch PROVE WorkNext
  BY <1>3 DEF WorkUnsubscribed, RestartService, WorkNext
<1>4. CASE UNCHANGED serviceVars
  BY <1>4 DEF serviceVars, workVars, graceVars, queueVars
<1>5. CASE ServiceNext
  BY <1>1, <1>2, <1>3, <1>5, ListingIsWork DEF ServiceNext
<1> QED
  BY <1>4, <1>5

LEMMA LateAlwaysHeld == ServiceSpec => []LateAreHeld
<1>1. ServiceInit => LateAreHeld
  BY DEF ServiceInit, WorkInit, GraceInit, LateAreHeld
<1>2. LateAreHeld /\ [ServiceNext]_serviceVars => LateAreHeld'
  BY WatchKeepsHeld DEF ServiceNext, serviceVars, workVars, graceVars, LateAreHeld
<1> QED
  BY <1>1, <1>2, PTL DEF ServiceSpec

\* With subscriptions that come and go, every behaviour is one of Workforce.
THEOREM ServiceIsWorkforce == ServiceSpec => WorkSpec
<1>1. ServiceInit => WorkInit
  BY DEF ServiceInit
<1>2. LateAreHeld /\ [ServiceNext]_serviceVars => [WorkNext]_workVars
  BY ServiceStepIsWorkStep
<1> QED
  BY <1>1, <1>2, LateAlwaysHeld, PTL DEF ServiceSpec, WorkSpec

\* A sweep lists no subscriptions.
SweepersListNothing == \A s \in Sweepers : seen[s] = Unlisted

LEMMA ListsNothing ==
  ASSUME NEW j, seen'[j] = Unlisted, call'[j].op \notin Grants,
         call'[j].pc \notin {"query", "fresh"}
  PROVE  ListingHolds(j)'
  BY DEF ListingHolds, Unlisted, Grants

LEMMA ScopeOfKeptRows ==
  ASSUME ScopeInv, UNCHANGED <<conv, rows, adrift>>, raced \subseteq raced'
  PROVE  AllocatedInScope'
  BY DEF ScopeInv, AllocatedInScope, IsSubscribed

\* A sweep releases conversations, and so gives none to anybody.
LEMMA SweepKeepsScope ==
  ASSUME GraceInv, ScopeInv, SweepersListNothing, UNCHANGED listingVars,
         NEW s \in Sweepers, Sweep(s) \/ SweepCrash(s)
  PROVE  ScopeInv'
<1>1. /\ IInv /\ call \in [Callers -> Request] /\ s \in Callers /\ seen[s] = Unlisted
      /\ UNCHANGED <<rows, seen, lapsed, adrift>>
      /\ ScopeTypeOK'
  BY CallersAreClientsAndSweepers
     DEF GraceInv, IInv, TypeOK, SweepersListNothing, listingVars, ScopeInv, ScopeTypeOK
<1>2. ASSUME NEW q, call' = [call EXCEPT ![s] = q], q.op \notin Grants,
             q.pc \notin {"query", "fresh"}
      PROVE  \A j \in Callers : ListingHolds(j)'
  <2>1. call'[s] = q /\ \A j \in Callers \ {s} : call'[j] = call[j]
    BY <1>1, <1>2
  <2>2. ListingHolds(s)'
    BY <1>1, <1>2, <2>1, ListsNothing
  <2>3. ASSUME NEW j \in Callers \ {s} PROVE ListingHolds(j)'
    BY <1>1, <2>1, <2>3 DEF ScopeInv, ListingHolds, Grantee, IsSubscribed
  <2> QED
    BY <2>2, <2>3
<1>3. CASE UNCHANGED <<conv, call, raced>>
  BY <1>1, <1>3, ScopeOfKeptRows DEF ScopeInv, ListingHolds, Grantee, IsSubscribed
<1>4. ASSUME Finish(s) PROVE \A j \in Callers : ListingHolds(j)'
  BY <1>2, <1>4 DEF Finish, Idle, Grants
<1>5. CASE SweepCrash(s)
  BY <1>1, <1>4, <1>5, ScopeOfKeptRows DEF SweepCrash, ScopeInv
<1>6. ASSUME NEW o, NEW c, NEW e, Read(s, "sweep", o, c, e) PROVE ScopeInv'
  <2>1. UNCHANGED conv /\ raced \subseteq raced'
    BY <1>6 DEF Read
  <2>2. \A j \in Callers : ListingHolds(j)'
    <3> DEFINE q == [op |-> "sweep", by |-> o, target |-> c,
                     pc |-> IF conv[c] = NoRow THEN "insert" ELSE "load",
                     entity |-> e, dirty |-> {}]
    <3>1. call' = [call EXCEPT ![s] = q]
      BY <1>6 DEF Read
    <3>2. q.op \notin Grants /\ q.pc \notin {"query", "fresh"}
      BY DEF Grants
    <3> HIDE DEF q
    <3> QED
      BY <1>2, <3>1, <3>2
  <2> QED
    BY <1>1, <2>1, <2>2, ScopeOfKeptRows DEF ScopeInv
<1>7. CASE SweepSave(s)
  <2>1. SaveStep(s) /\ Handle(s)
    BY <1>7 DEF SweepSave, Handle
  <2>2. call[s].op = "sweep"
    <3>1. call[s] # Idle
      BY <2>1 DEF SaveStep, SaveLoad, SaveWrite, SaveInsert, Idle
    <3> QED
      BY <3>1 DEF GraceInv, SweepsRelease
  <2>3. \A j \in Callers : ListingHolds(j)'
    <3>1. CASE SaveLoad(s)
      <4>1. PICK q : /\ q = [call[s] EXCEPT !.pc = "write",
                                            !.dirty = Diff(call[s].entity, conv[call[s].target])]
                     /\ call' = [call EXCEPT ![s] = q]
        BY <1>1, <3>1 DEF SaveLoad
      <4>2. q.op = "sweep" /\ q.pc = "write"
        BY <1>1, <2>2, <4>1 DEF Request
      <4> QED
        BY <1>2, <4>1, <4>2 DEF Grants
    <3> QED
      BY <1>4, <2>1, <3>1 DEF SaveStep, SaveWrite, SaveInsert
  <2>4. AllocatedInScope'
    <3>1. adrift' = Drift(s)
      BY <1>1, <2>2 DEF Drift, Grants
    <3> QED
      BY <1>1, <2>1, <3>1, WriteInScope, ServedInScope
  <2> QED
    BY <1>1, <2>3, <2>4 DEF ScopeInv
<1>8. CASE SweepRead(s)
  BY <1>3, <1>6, <1>8 DEF SweepRead
<1> QED
  BY <1>3, <1>5, <1>7, <1>8 DEF Sweep, SweepStart, SweepDelete

\* Nor do status requests, jobs and changes of operators.
LEMMA WorkKeepsScope ==
  ASSUME GraceInv, ScopeInv, SweepersListNothing, WorkUnsubscribed
  PROVE  ScopeInv'
<1>1. UNCHANGED listingVars
  BY DEF WorkUnsubscribed
<1>2. CASE UNCHANGED <<conv, call, raced>>
  BY <1>1, <1>2, ScopeOfKeptRows
     DEF listingVars, ScopeInv, ScopeTypeOK, ListingHolds, Grantee, IsSubscribed
<1>3. CASE \E s \in Sweepers : Sweep(s) \/ SweepCrash(s)
  BY <1>1, <1>3, SweepKeepsScope
<1> QED
  BY <1>2, <1>3
     DEF WorkUnsubscribed, OwnStart, SetStart, OwnStatus, SetStatus, SetSave, SetFind,
         SetUpsertGrace, SetDeleteGrace, SetCrash, Attempt, AttemptStarts, AttemptGoesOn,
         AttemptFails, QueueRuns, TimeAndSweeps, GraceExpires, CreateOperator, RemoveOperator

\* After a restart nobody has listed anything.
LEMMA RestartKeepsScope ==
  ASSUME ScopeInv, RestartService
  PROVE  ScopeInv'
<1>1. /\ UNCHANGED <<conv, raced, rows, adrift>> /\ lapsed' = {}
      /\ \A j \in Callers : call'[j] = Idle /\ seen'[j] = Unlisted
  BY DEF RestartService, RestartProcess
<1>2. \A j \in Callers : ListingHolds(j)'
  BY <1>1, ListsNothing DEF Idle, Grants
<1>3. ScopeTypeOK'
  BY <1>1 DEF RestartService, ScopeInv, ScopeTypeOK, Unlisted
<1> QED
  BY <1>1, <1>2, <1>3, ScopeOfKeptRows DEF ScopeInv

LEMMA ServiceKeepsListings ==
  ASSUME GraceInv, ScopeInv, SweepersListNothing, [ServiceNext]_serviceVars
  PROVE  ScopeInv' /\ SweepersListNothing'
<1>0. IInv /\ Clients \subseteq Callers /\ Clients \cap Sweepers = {} /\ Sweepers \subseteq Callers
  BY CallersAreClientsAndSweepers DEF GraceInv
<1>1. ASSUME NEW k \in Clients, ServeSubscribed(k)
      PROVE  ScopeInv' /\ SweepersListNothing'
  <2>1. ServeInScope(k)
    BY <1>1 DEF ServeSubscribed, ServeStaff, Serving, ServeInScope
  <2>2. SweepersListNothing'
    BY <1>0, <2>1 DEF ServeInScope, Note, ScopeInv, ScopeTypeOK, SweepersListNothing
  <2> QED
    BY <1>0, <2>1, <2>2, ServeKeepsScope
<1>2. ASSUME NEW k \in Clients, ListForRequest(k)
      PROVE  ScopeInv' /\ SweepersListNothing'
  <2>1. ListSubscriptions(k)
    BY <1>2 DEF ListForRequest
  <2>2. SweepersListNothing'
    BY <1>0, <2>1 DEF ListSubscriptions, ScopeInv, ScopeTypeOK, SweepersListNothing
  <2> QED
    BY <1>0, <2>1, <2>2, ListKeepsScope
<1>3. ASSUME NEW p \in Subscribed, ChangeSubscription(p[1], p[2])
      PROVE  ScopeInv' /\ SweepersListNothing'
  <2>1. CreateSubscription(p[1], p[2]) \/ RemoveSubscription(p[1], p[2])
    BY <1>3 DEF ChangeSubscription
  <2> QED
    BY <1>0, <2>1, TableKeepsScope
       DEF CreateSubscription, RemoveSubscription, SweepersListNothing
<1>4. CASE WorkUnsubscribed
  BY <1>4, WorkKeepsScope DEF WorkUnsubscribed, listingVars, SweepersListNothing
<1>5. CASE RestartService
  BY <1>0, <1>5, RestartKeepsScope DEF RestartService, SweepersListNothing
<1>6. CASE UNCHANGED serviceVars
  BY <1>6, ScopeOfKeptRows
     DEF serviceVars, workVars, graceVars, listingVars, ScopeInv, ScopeTypeOK, ListingHolds,
         Grantee, IsSubscribed, SweepersListNothing
<1> QED
  BY <1>1, <1>2, <1>3, <1>4, <1>5, <1>6 DEF ServiceNext

\* With sweeps, status requests, jobs and restarts beside the requests, an operator
\* still works on a conversation only while he is subscribed to its inbox, unless a
\* race, a removal of his subscription, a move or an upsert came in between.
THEOREM ServiceKeepsScope == ServiceSpec => []AllocatedInScope
<1>1. ServiceInit => ScopeInv /\ SweepersListNothing
  BY ScopeInitially, CallersAreClientsAndSweepers
     DEF ServiceInit, ScopeInit, SweepersListNothing
<1>2. GraceInv /\ ScopeInv /\ SweepersListNothing /\ [ServiceNext]_serviceVars =>
        ScopeInv' /\ SweepersListNothing'
  BY ServiceKeepsListings
<1>3. WorkBase => GraceInv
  BY DEF WorkBase
<1>4. ScopeInv => AllocatedInScope
  BY DEF ScopeInv
<1> QED
  BY <1>1, <1>2, <1>3, <1>4, ServiceIsWorkforce, BaseAlways, PTL DEF ServiceSpec

\* What each part promises holds of all of them together.
THEOREM ServiceKeepsPromises ==
  ServiceSpec =>
    /\ [](AvailableHasNoGrace /\ OfflineHasGrace /\ ReleasesAreOfOffline /\ FirstStatusIsWhole)
    /\ StatusIsHisOwn /\ ImplementsLifecycle /\ WritesAreWhatWasChecked
  BY ServiceIsWorkforce, WorkforceKeepsGrace, FirstStatusHolds, OwnStatusStays,
     WorkforceKeepsContract, PTL
=============================================================================
